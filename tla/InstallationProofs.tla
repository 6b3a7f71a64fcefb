------------------------- MODULE InstallationProofs -------------------------
(***************************************************************************)
(* What an installation and its undoing promise, on every system and for   *)
(* any number of runs, failing commands, kills and power cuts.             *)
(***************************************************************************)
EXTENDS Installation, SequenceTheorems, TLAPS

-----------------------------------------------------------------------------
(* What is left to do is an end of the list of steps; where both files are *)
(* removed the second one takes the place of the first.                    *)
Steps == {"open", "create", "clear", "rmCert", "rmKey", "make", "trust", "route", "start",
          "copy", "unit", "browser", "enable", "rmRoute", "untrust", "find", "stop", "delete",
          "disable", "rmUnit", "rmBrowser", "rmBinary"}

Follows(s, P) ==
    /\ Len(s) \in 1..Len(P)
    /\ \A i \in 2..Len(s) : s[i] = P[Len(P) - Len(s) + i]
    /\ LET first == P[Len(P) - Len(s) + 1] IN
         s[1] = first \/ (s[1] = "rmKey" /\ first = "rmCert")

Plan ==
    /\ system \in AllSystems
    /\ todo \in Seq(Steps)
    /\ todo = <<>> <=> outcome \notin {"installing", "uninstalling"}
    /\ outcome = "installing" => Follows(todo, Installing)
    /\ outcome = "uninstalling" => Follows(todo, Uninstalling)

(* The steps of an installation, or of its undoing, that have been taken.  *)
Installs   == outcome \in {"installing", "installed"}
Uninstalls == outcome \in {"uninstalling", "uninstalled"}
Behind(P, n) == {P[i] : i \in 1..(Len(P) - n)}
Put  == Behind(Installing, Len(todo))
Gone == Behind(Uninstalling, Len(todo))

(* Files and flags.                                                        *)
Rests == {SaveSteps, <<"cert", "openKey", "key">>, <<"openKey", "key">>, <<"key">>, <<>>}

Kept ==
    /\ clean \in BOOLEAN /\ made \in Nat
    /\ cert \in CA \cup {None, Cut} /\ key \in CA \cup {None, Cut}
    /\ fresh \in [Savers -> CA \cup {None}]
    /\ writes \in [Savers -> Rests]
    /\ daemon \in {"off", "due", "boot", "on"}
    /\ unit \in {"none", "there", "marked"}
    /\ nss \/ enabled => Linux
    /\ binary => ~Windows

(* Who saves an authority: the installer of Windows; the installer of      *)
(* Linux while there is no certificate, before which the daemon is never   *)
(* enabled or started; the daemon of Linux or macOS as it boots.           *)
Writers ==
    /\ \A p \in Savers : writes[p] # <<>> => fresh[p] \in CA /\ fresh[p].by = p
    /\ \A p \in Savers : writes[p] \in {<<"openKey", "key">>, <<"key">>} => cert = fresh[p]
    /\ writes["daemon"] # <<>> => daemon = "boot"
    /\ Windows => daemon # "boot"
    /\ writes["installer"] # <<>> =>
          /\ outcome = "installing" /\ "make" \in Put /\ "trust" \notin Put /\ "browser" \notin Put
          /\ system # "macos"
          /\ Linux => daemon = "off" /\ ~enabled
    /\ Linux /\ (daemon # "off" \/ enabled) => cert # None
    /\ Linux /\ outcome = "installing" /\ "make" \in Put /\ writes["installer"] # SaveSteps
          => cert # None

(* The key is written last, and only over one that does not load.          *)
Pairs ==
    ~Windows =>
        /\ cert = None => key = None
        /\ key \in CA => cert = key
        /\ \A p \in Savers : writes[p] # <<>> => key \notin CA
        /\ daemon = "boot" /\ writes["daemon"] = <<>> =>
              key \in CA /\ key = fresh["daemon"]
        /\ daemon = "on" => key \in CA /\ signs = key
        /\ system = "macos" /\ cert \in CA => cert.by = "daemon"

(* What has been put in the machine's stores by a clean installation.      *)
TrustedLinux ==
    Linux /\ Installs /\ clean /\ cert.by = "installer" =>
        /\ "trust" \in Put /\ system # "otherLinux" => cert \in store
        /\ "browser" \in Put /\ nss => cert \in browser

TrustedWindows ==
    Windows =>
        /\ unit = "none" => daemon = "off"
        /\ outcome = "installing" /\ "create" \in Put => unit = "there"
        /\ Installs /\ clean =>
              /\ "make" \in Put /\ writes["installer"] = <<>> => cert = key /\ cert \in CA
              /\ "trust" \in Put => cert \in store
              /\ "open" \in Put /\ daemon # "off" => "start" \in Put
              /\ "open" \in Put /\ daemon = "on" => signs = cert

(* What a clean undoing has undone.                                        *)
Undone ==
    Uninstalls /\ clean =>
        /\ "stop" \in Gone => daemon = "off"
        /\ "disable" \in Gone => ~enabled
        /\ "rmUnit" \in Gone => unit = "none"
        /\ "delete" \in Gone => unit # "there"
        /\ "rmBinary" \in Gone => ~binary
        /\ "rmRoute" \in Gone => ~route
        /\ "untrust" \in Gone => store = {}
        /\ "rmBrowser" \in Gone /\ nss => browser = {}

IInv == Plan /\ Kept /\ Writers /\ Pairs /\ TrustedLinux /\ TrustedWindows /\ Undone

-----------------------------------------------------------------------------
(* The lists of steps.                                                     *)
LEMMA ListsTyped ==
    /\ Installing \in Seq(Steps) /\ Len(Installing) \in {5, 8}
    /\ Uninstalling \in Seq(Steps) /\ Len(Uninstalling) \in {5, 6, 7}
<1>1. CASE Windows
  <2>1. /\ Installing = <<"open", "create", "clear", "rmCert", "make", "trust", "route", "start">>
        /\ Uninstalling = <<"rmRoute", "untrust", "rmCert", "find", "stop", "delete">>
    BY <1>1 DEF Installing, Uninstalling, Windows, Linux
  <2> QED
    BY <2>1 DEF Steps
<1>2. CASE ~Windows /\ Linux
  <2>1. /\ Installing = <<"copy", "unit", "make", "trust", "browser", "route", "enable", "start">>
        /\ Uninstalling
             = <<"stop", "disable", "rmUnit", "rmRoute", "untrust", "rmBrowser", "rmBinary">>
    BY <1>2 DEF Installing, Uninstalling
  <2> QED
    BY <2>1 DEF Steps
<1>3. CASE ~Windows /\ ~Linux
  <2>1. /\ Installing = <<"copy", "unit", "trust", "route", "start">>
        /\ Uninstalling = <<"stop", "rmUnit", "rmRoute", "untrust", "rmBinary">>
    BY <1>3 DEF Installing, Uninstalling
  <2> QED
    BY <2>1 DEF Steps
<1> QED
  BY <1>1, <1>2, <1>3

(* One step more is behind, when one less is left.                         *)
LEMMA BehindStep ==
    ASSUME NEW P \in Seq(Steps), NEW n \in 1..Len(P)
    PROVE  Behind(P, n - 1) = Behind(P, n) \cup {P[Len(P) - n + 1]}
<1>1. Len(P) \in Nat /\ n \in Nat
  OBVIOUS
<1>2. \A i \in 1..(Len(P) - (n - 1)) : i \in 1..(Len(P) - n) \/ i = Len(P) - n + 1
  BY <1>1
<1>3. \A i \in 1..(Len(P) - n) : i \in 1..(Len(P) - (n - 1))
  BY <1>1
<1>4. Len(P) - n + 1 \in 1..(Len(P) - (n - 1))
  BY <1>1
<1> QED
  BY <1>2, <1>3, <1>4, Zenon DEF Behind

LEMMA BehindFirst == ASSUME NEW P \in Seq(Steps) PROVE Behind(P, Len(P)) = {}
BY DEF Behind

(* What follows the first of the steps left.                               *)
LEMMA FollowsTail ==
    ASSUME NEW P \in Seq(Steps), NEW s \in Seq(Steps), Follows(s, P)
    PROVE  /\ s # <<>> /\ Len(Tail(s)) = Len(s) - 1 /\ Tail(s) \in Seq(Steps)
           /\ Len(s) > 1 => Follows(Tail(s), P)
           /\ Len(s) = 1 => Tail(s) = <<>>
           /\ Follows(<<"rmKey">> \o Tail(s), P) \/ Head(s) # "rmCert"
<1>0. Len(P) \in Nat /\ Len(s) \in 1..Len(P) /\ s # <<>>
  BY DEF Follows
<1>1. Tail(s) \in Seq(Steps) /\ Len(Tail(s)) = Len(s) - 1
      /\ \A i \in 1..(Len(s) - 1) : Tail(s)[i] = s[i + 1]
  BY <1>0
<1>2. ASSUME Len(s) > 1
      PROVE  Follows(Tail(s), P)
  <2> DEFINE t == Tail(s)
  <2>0. Len(t) = Len(s) - 1 /\ \A i \in 1..(Len(s) - 1) : t[i] = s[i + 1]
    BY <1>1
  <2> HIDE DEF t
  <2>1. Len(t) \in 1..Len(P)
    BY <1>0, <2>0, <1>2
  <2>2. ASSUME NEW i \in 1..Len(t)
        PROVE  t[i] = P[Len(P) - Len(t) + i]
    <3>1. t[i] = s[i + 1] /\ i + 1 \in 2..Len(s)
      BY <1>0, <2>0, <2>1, <2>2
    <3>2. Len(P) - Len(t) + i = Len(P) - Len(s) + (i + 1)
      BY <1>0, <2>0, <2>2
    <3> QED
      BY <3>1, <3>2 DEF Follows
  <2>3. 1 \in 1..Len(t) /\ \A i \in 2..Len(t) : i \in 1..Len(t)
    BY <2>1
  <2>4. t[1] = P[Len(P) - Len(t) + 1] /\ \A i \in 2..Len(t) : t[i] = P[Len(P) - Len(t) + i]
    BY <2>2, <2>3
  <2>5. Follows(t, P)
    BY <2>1, <2>4 DEF Follows
  <2> QED
    BY <2>5 DEF t
<1>3. ASSUME Head(s) = "rmCert"
      PROVE  Follows(<<"rmKey">> \o Tail(s), P)
  <2> DEFINE t == <<"rmKey">> \o Tail(s)
  <2>1. Len(t) = Len(s) /\ t[1] = "rmKey" /\ \A i \in 2..Len(s) : t[i] = s[i]
    BY <1>0, <1>1
  <2>2. s[1] = "rmCert"
    BY <1>0, <1>3
  <2> HIDE DEF t
  <2>3. Follows(t, P)
    BY <2>1, <2>2 DEF Follows
  <2> QED
    BY <2>3 DEF t
<1> QED
  BY <1>0, <1>1, <1>2, <1>3

(* What stands first says what is behind.                                  *)
LEMMA Places ==
    ASSUME Plan
    PROVE  /\ Windows => /\ Installing[1] = "open" /\ Installing[2] = "create"
                         /\ Installing[3] = "clear" /\ Installing[4] = "rmCert"
                         /\ Installing[5] = "make" /\ Installing[6] = "trust"
                         /\ Installing[7] = "route" /\ Installing[8] = "start"
                         /\ Len(Installing) = 8
           /\ Linux => /\ Installing[1] = "copy" /\ Installing[2] = "unit"
                       /\ Installing[3] = "make" /\ Installing[4] = "trust"
                       /\ Installing[5] = "browser" /\ Installing[6] = "route"
                       /\ Installing[7] = "enable" /\ Installing[8] = "start"
                       /\ Len(Installing) = 8
           /\ system = "macos" =>
                /\ Installing[1] = "copy" /\ Installing[2] = "unit" /\ Installing[3] = "trust"
                /\ Installing[4] = "route" /\ Installing[5] = "start" /\ Len(Installing) = 5
           /\ Windows \/ Linux \/ system = "macos"
           /\ ~(Windows /\ Linux) /\ ~(Windows /\ system = "macos") /\ ~(Linux /\ system = "macos")
<1>1. CASE Windows
  <2>1. Installing = <<"open", "create", "clear", "rmCert", "make", "trust", "route", "start">>
    BY <1>1 DEF Installing, Windows, Linux
  <2> QED
    BY <1>1, <2>1 DEF Windows, Linux
<1>2. CASE Linux
  <2>1. Installing = <<"copy", "unit", "make", "trust", "browser", "route", "enable", "start">>
    BY <1>2 DEF Installing, Windows, Linux
  <2> QED
    BY <1>2, <2>1 DEF Windows, Linux
<1>3. CASE system = "macos"
  <2>1. Installing = <<"copy", "unit", "trust", "route", "start">>
    BY <1>3 DEF Installing, Windows, Linux
  <2> QED
    BY <1>3, <2>1 DEF Windows, Linux
<1> QED
  BY <1>1, <1>2, <1>3 DEF Plan, AllSystems, Windows, Linux

LEMMA BehindEight ==
    ASSUME NEW P, NEW n \in 0..8, NEW x, Len(P) = 8
    PROVE  x \in Behind(P, n) <=>
              \/ n < 8 /\ P[1] = x
              \/ n < 7 /\ P[2] = x
              \/ n < 6 /\ P[3] = x
              \/ n < 5 /\ P[4] = x
              \/ n < 4 /\ P[5] = x
              \/ n < 3 /\ P[6] = x
              \/ n < 2 /\ P[7] = x
              \/ n < 1 /\ P[8] = x
<1>1. \A i \in 1..(8 - n) : \/ i = 1 \/ i = 2 \/ i = 3 \/ i = 4
                            \/ i = 5 \/ i = 6 \/ i = 7 \/ i = 8
  OBVIOUS
<1>2. x \in Behind(P, n) <=> \E i \in 1..(8 - n) : P[i] = x
  BY DEF Behind
<1>3. /\ (1 \in 1..(8 - n) <=> n < 8)  /\ (2 \in 1..(8 - n) <=> n < 7)
      /\ (3 \in 1..(8 - n) <=> n < 6)  /\ (4 \in 1..(8 - n) <=> n < 5)
      /\ (5 \in 1..(8 - n) <=> n < 4)  /\ (6 \in 1..(8 - n) <=> n < 3)
      /\ (7 \in 1..(8 - n) <=> n < 2)  /\ (8 \in 1..(8 - n) <=> n < 1)
  OBVIOUS
<1> QED
  BY <1>1, <1>2, <1>3

LEMMA BehindWindows ==
    ASSUME Plan, Windows, NEW n \in 0..8
    PROVE  /\ "open" \in Behind(Installing, n) <=> n < 8
           /\ "create" \in Behind(Installing, n) <=> n < 7
           /\ "make" \in Behind(Installing, n) <=> n < 4
           /\ "trust" \in Behind(Installing, n) <=> n < 3
           /\ "start" \in Behind(Installing, n) <=> n < 1
           /\ "browser" \notin Behind(Installing, n)
<1>1. Len(Installing) = 8
  BY Places
<1> QED
  BY <1>1, Places, BehindEight

LEMMA BehindLinux ==
    ASSUME Plan, Linux, NEW n \in 0..8
    PROVE  /\ "make" \in Behind(Installing, n) <=> n < 6
           /\ "trust" \in Behind(Installing, n) <=> n < 5
           /\ "browser" \in Behind(Installing, n) <=> n < 4
           /\ "start" \in Behind(Installing, n) <=> n < 1
<1>1. Len(Installing) = 8
  BY Places
<1> QED
  BY <1>1, Places, BehindEight

LEMMA BehindMac ==
    ASSUME Plan, system = "macos", NEW n \in 0..5
    PROVE  "make" \notin Behind(Installing, n) /\ "browser" \notin Behind(Installing, n)
<1>1. Len(Installing) = 5 /\ \A i \in 1..(5 - n) : i = 1 \/ i = 2 \/ i = 3 \/ i = 4 \/ i = 5
  BY Places
<1> QED
  BY <1>1, Places DEF Behind

LEMMA First ==
    ASSUME Plan, outcome = "installing"
    PROVE  /\ Len(todo) \in 1..Len(Installing) /\ todo # <<>> /\ Head(todo) = todo[1]
           /\ \/ Head(todo) = Installing[Len(Installing) - Len(todo) + 1]
              \/ Head(todo) = "rmKey" /\ Installing[Len(Installing) - Len(todo) + 1] = "rmCert"
BY ListsTyped DEF Plan, Follows

LEMMA FirstWindows ==
    ASSUME Plan, outcome = "installing", Windows
    PROVE  /\ Head(todo) \in {"open", "create", "clear", "rmCert", "rmKey", "make", "trust",
                              "route", "start"}
           /\ Len(todo) \in 1..8
           /\ Head(todo) = "open" => Len(todo) = 8
           /\ Head(todo) = "create" => Len(todo) = 7
           /\ Head(todo) = "clear" => Len(todo) = 6
           /\ Head(todo) \in {"rmCert", "rmKey"} => Len(todo) = 5
           /\ Head(todo) = "make" => Len(todo) = 4
           /\ Head(todo) = "trust" => Len(todo) = 3
           /\ Head(todo) = "start" => Len(todo) = 1
<1>1. Len(todo) \in 1..8 /\ Len(Installing) = 8
  BY First, Places
<1>2. PICK n \in 1..8 : n = Len(todo)
  BY <1>1
<1> DEFINE k == 8 - n + 1
<1>3. Head(todo) = Installing[k] \/ (Head(todo) = "rmKey" /\ Installing[k] = "rmCert")
  BY <1>1, <1>2, First
<1>6. k \in 1..8 /\ n = 9 - k
  OBVIOUS
<1> HIDE DEF k
<1>4. k = 1 \/ k = 2 \/ k = 3 \/ k = 4 \/ k = 5 \/ k = 6 \/ k = 7 \/ k = 8
  BY <1>6
<1>5. Len(todo) = 9 - k
  BY <1>2, <1>6
<1> QED
  BY <1>1, <1>3, <1>4, <1>5, Places

LEMMA FirstLinux ==
    ASSUME Plan, outcome = "installing", Linux
    PROVE  /\ Head(todo) \in {"copy", "unit", "make", "trust", "browser", "route", "enable", "start"}
           /\ Len(todo) \in 1..8
           /\ Head(todo) = "make" => Len(todo) = 6
           /\ Head(todo) = "trust" => Len(todo) = 5
           /\ Head(todo) = "browser" => Len(todo) = 4
           /\ Head(todo) = "enable" => Len(todo) = 2
           /\ Head(todo) = "start" => Len(todo) = 1
<1>1. Len(todo) \in 1..8 /\ Len(Installing) = 8
  BY First, Places
<1>2. PICK n \in 1..8 : n = Len(todo)
  BY <1>1
<1> DEFINE k == 8 - n + 1
<1>3. Head(todo) = Installing[k] \/ (Head(todo) = "rmKey" /\ Installing[k] = "rmCert")
  BY <1>1, <1>2, First
<1>6. k \in 1..8 /\ n = 9 - k
  OBVIOUS
<1> HIDE DEF k
<1>4. k = 1 \/ k = 2 \/ k = 3 \/ k = 4 \/ k = 5 \/ k = 6 \/ k = 7 \/ k = 8
  BY <1>6
<1>5. Len(todo) = 9 - k
  BY <1>2, <1>6
<1> QED
  BY <1>1, <1>3, <1>4, <1>5, Places

LEMMA FirstMac ==
    ASSUME Plan, outcome = "installing", system = "macos"
    PROVE  Head(todo) \in {"copy", "unit", "trust", "route", "start"} /\ Len(todo) \in 1..5
<1>1. Len(todo) \in 1..5 /\ Len(Installing) = 5
  BY First, Places
<1>2. PICK n \in 1..5 : n = Len(todo)
  BY <1>1
<1> DEFINE k == 5 - n + 1
<1>3. Head(todo) = Installing[k] \/ (Head(todo) = "rmKey" /\ Installing[k] = "rmCert")
  BY <1>1, <1>2, First
<1>6. k \in 1..5 /\ n = 6 - k
  OBVIOUS
<1> HIDE DEF k
<1>4. k = 1 \/ k = 2 \/ k = 3 \/ k = 4 \/ k = 5
  BY <1>6
<1> QED
  BY <1>1, <1>3, <1>4, Places

(* An undoing has only steps of its own, and the same two removals.        *)
LEMMA FirstUndoing ==
    ASSUME Plan, outcome = "uninstalling"
    PROVE  /\ todo # <<>> /\ Len(todo) \in 1..Len(Uninstalling)
           /\ \/ Head(todo) = Uninstalling[Len(Uninstalling) - Len(todo) + 1]
              \/ Head(todo) = "rmKey"
                 /\ Uninstalling[Len(Uninstalling) - Len(todo) + 1] = "rmCert"
           /\ Head(todo) \in {"rmRoute", "untrust", "rmCert", "rmKey", "find", "stop", "delete",
                              "disable", "rmUnit", "rmBrowser", "rmBinary"}
           /\ Windows => Head(todo) \notin {"disable", "rmUnit", "rmBrowser", "rmBinary"}
           /\ ~Windows => Head(todo) \notin {"rmCert", "rmKey", "find", "delete"}
<1>1. /\ todo # <<>> /\ Len(todo) \in 1..Len(Uninstalling) /\ Head(todo) = todo[1]
      /\ \/ Head(todo) = Uninstalling[Len(Uninstalling) - Len(todo) + 1]
         \/ Head(todo) = "rmKey"
            /\ Uninstalling[Len(Uninstalling) - Len(todo) + 1] = "rmCert"
  BY ListsTyped DEF Plan, Follows
<1> DEFINE k == Len(Uninstalling) - Len(todo) + 1
<1>2. k \in 1..Len(Uninstalling)
  BY <1>1, ListsTyped
<1>3. CASE Windows
  <2>1. Uninstalling = <<"rmRoute", "untrust", "rmCert", "find", "stop", "delete">>
    BY <1>3 DEF Uninstalling, Windows, Linux
  <2>2. Uninstalling[k] \in {"rmRoute", "untrust", "rmCert", "find", "stop", "delete"}
    BY <1>2, <2>1
  <2> QED
    BY <1>1, <1>3, <2>2
<1>4. CASE Linux
  <2>1. Uninstalling = <<"stop", "disable", "rmUnit", "rmRoute", "untrust", "rmBrowser", "rmBinary">>
    BY <1>4 DEF Uninstalling, Windows, Linux
  <2>2. Uninstalling[k]
          \in {"stop", "disable", "rmUnit", "rmRoute", "untrust", "rmBrowser", "rmBinary"}
    BY <1>2, <2>1
  <2>3. ~Windows
    BY <1>4 DEF Windows, Linux
  <2> QED
    BY <1>1, <2>2, <2>3
<1>5. CASE ~Windows /\ ~Linux
  <2>1. Uninstalling = <<"stop", "rmUnit", "rmRoute", "untrust", "rmBinary">>
    BY <1>5 DEF Uninstalling, Windows, Linux
  <2>2. Uninstalling[k] \in {"stop", "rmUnit", "rmRoute", "untrust", "rmBinary"}
    BY <1>2, <2>1
  <2> QED
    BY <1>1, <1>5, <2>2
<1> QED
  BY <1>3, <1>4, <1>5

-----------------------------------------------------------------------------
(* A step that is taken, or stands for another, keeps to the list.         *)
LEMMA SameLists ==
    ASSUME system' = system
    PROVE  Installing' = Installing /\ Uninstalling' = Uninstalling
           /\ (Windows' <=> Windows) /\ (Linux' <=> Linux)
BY DEF Installing, Uninstalling, Windows, Linux

LEMMA TailOf ==
    ASSUME Plan, todo # <<>>, NEW P \in {Installing, Uninstalling}, Follows(todo, P),
           todo' = Tail(todo)
    PROVE  /\ todo' \in Seq(Steps)
           /\ Len(todo) > 1 => todo' # <<>> /\ Follows(todo', P)
           /\ ~(Len(todo) > 1) => todo' = <<>>
           /\ \/ Behind(P, Len(todo')) = Behind(P, Len(todo)) \cup {Head(todo)}
              \/ Head(todo) = "rmKey"
                 /\ Behind(P, Len(todo')) = Behind(P, Len(todo)) \cup {"rmCert"}
<1>1. P \in Seq(Steps) /\ todo \in Seq(Steps) /\ Len(P) \in Nat
  BY ListsTyped DEF Plan
<1>2. Len(todo) \in 1..Len(P) /\ Head(todo) = todo[1]
  BY <1>1 DEF Follows
<1>3. /\ todo' \in Seq(Steps) /\ Len(todo') = Len(todo) - 1
      /\ Len(todo) > 1 => Follows(todo', P)
      /\ Len(todo) = 1 => todo' = <<>>
  BY <1>1, FollowsTail
<1>4. PICK n \in 1..Len(P) : n = Len(todo)
  BY <1>2
<1>5. Behind(P, n - 1) = Behind(P, n) \cup {P[Len(P) - n + 1]}
  BY <1>1, BehindStep
<1>6. todo[1] = P[Len(P) - n + 1] \/ (todo[1] = "rmKey" /\ P[Len(P) - n + 1] = "rmCert")
  BY <1>4 DEF Follows
<1>7. Len(todo') = n - 1 /\ (Len(todo) > 1 => todo' # <<>>) /\ (~(Len(todo) > 1) => Len(todo) = 1)
  <2>1. Len(todo') = n - 1
    BY <1>3, <1>4, Zenon
  <2>2. n > 1 => n - 1 # 0
    OBVIOUS
  <2>3. ~(n > 1) => n = 1
    BY <1>1
  <2>4. Len(<<>>) = 0
    OBVIOUS
  <2> QED
    BY <1>4, <2>1, <2>2, <2>3, <2>4, Zenon
<1>8. \/ Behind(P, Len(todo')) = Behind(P, Len(todo)) \cup {Head(todo)}
      \/ Head(todo) = "rmKey"
         /\ Behind(P, Len(todo')) = Behind(P, Len(todo)) \cup {"rmCert"}
  <2>1. Behind(P, Len(todo')) = Behind(P, Len(todo)) \cup {P[Len(P) - n + 1]}
    BY <1>4, <1>5, <1>7, Zenon
  <2> QED
    BY <1>2, <1>6, <2>1, Zenon
<1> QED
  BY <1>3, <1>7, <1>8, Zenon

LEMMA Turn ==
    ASSUME Plan, NEW s, At(s), NEW ok, Goes(ok), system' = system
    PROVE  /\ Plan'
           /\ outcome \in {"installing", "uninstalling"}
           /\ outcome = "installing" =>
                /\ outcome' \in {"installing", "installed"}
                /\ Put' = Put \cup {s} \/ (s = "rmKey" /\ Put' = Put \cup {"rmCert"})
           /\ outcome = "uninstalling" =>
                /\ outcome' \in {"uninstalling", "uninstalled"}
                /\ Gone' = Gone \cup {s} \/ (s = "rmKey" /\ Gone' = Gone \cup {"rmCert"})
<1>1. /\ todo # <<>> /\ Head(todo) = s /\ todo' = Tail(todo)
      /\ outcome' = IF Len(todo) > 1 THEN outcome
                    ELSE IF outcome = "installing" THEN "installed" ELSE "uninstalled"
  BY DEF At, Goes
<1>2. outcome \in {"installing", "uninstalling"} /\ system \in AllSystems
  BY <1>1 DEF Plan
<1>3. CASE outcome = "installing"
  <2>1. Follows(todo, Installing)
    BY <1>3 DEF Plan
  <2>2. /\ todo' \in Seq(Steps)
        /\ Len(todo) > 1 => todo' # <<>> /\ Follows(todo', Installing)
        /\ ~(Len(todo) > 1) => todo' = <<>>
        /\ \/ Behind(Installing, Len(todo')) = Behind(Installing, Len(todo)) \cup {Head(todo)}
           \/ Head(todo) = "rmKey" /\ Behind(Installing, Len(todo'))
                                        = Behind(Installing, Len(todo)) \cup {"rmCert"}
    BY <1>1, <2>1, TailOf
  <2>3. Plan'
    BY <1>1, <1>2, <1>3, <2>2, SameLists DEF Plan
  <2> QED
    BY <1>1, <1>3, <2>2, <2>3, SameLists DEF Put
<1>4. CASE outcome = "uninstalling"
  <2>1. Follows(todo, Uninstalling)
    BY <1>4 DEF Plan
  <2>2. /\ todo' \in Seq(Steps)
        /\ Len(todo) > 1 => todo' # <<>> /\ Follows(todo', Uninstalling)
        /\ ~(Len(todo) > 1) => todo' = <<>>
        /\ \/ Behind(Uninstalling, Len(todo')) = Behind(Uninstalling, Len(todo)) \cup {Head(todo)}
           \/ Head(todo) = "rmKey" /\ Behind(Uninstalling, Len(todo'))
                                        = Behind(Uninstalling, Len(todo)) \cup {"rmCert"}
    BY <1>1, <2>1, TailOf
  <2>3. Plan'
    BY <1>1, <1>2, <1>4, <2>2, SameLists DEF Plan
  <2> QED
    BY <1>1, <1>4, <2>2, <2>3, SameLists DEF Gone
<1> QED
  BY <1>2, <1>3, <1>4

LEMMA Again ==
    ASSUME Plan, At("rmCert"), todo' = <<"rmKey">> \o Tail(todo), UNCHANGED <<system, outcome>>
    PROVE  Plan' /\ Put' = Put /\ Gone' = Gone
<1>1. todo # <<>> /\ Head(todo) = "rmCert" /\ outcome \in {"installing", "uninstalling"}
  BY DEF At, Plan
<1>2. PICK P \in {Installing, Uninstalling} : Follows(todo, P)
  BY <1>1 DEF Plan
<1>3. P \in Seq(Steps) /\ todo \in Seq(Steps) /\ Len(todo) >= 1
  BY <1>1, <1>2, ListsTyped DEF Plan, Follows
<1>4. Tail(todo) \in Seq(Steps) /\ Len(Tail(todo)) = Len(todo) - 1
  BY <1>1, <1>3
<1>5. todo' \in Seq(Steps) /\ Len(todo') = Len(todo) /\ todo' # <<>>
  <2>1. <<"rmKey">> \in Seq(Steps) /\ Len(<<"rmKey">>) = 1
    BY DEF Steps
  <2> QED
    BY <1>3, <1>4, <2>1
<1>6. /\ outcome = "installing" => Follows(todo', Installing)
      /\ outcome = "uninstalling" => Follows(todo', Uninstalling)
  BY <1>1, <1>3, ListsTyped, FollowsTail DEF Plan
<1> QED
  BY <1>1, <1>5, <1>6, SameLists DEF Plan, Put, Gone

LEMMA Stopped ==
    ASSUME Plan, todo' = <<>>, outcome' = "failed", system' = system
    PROVE  Plan' /\ ~Installs' /\ ~Uninstalls'
BY DEF Plan, Installs, Uninstalls

LEMMA Beginning ==
    ASSUME Plan, Begin
    PROVE  /\ Plan'
           /\ \/ outcome' = "installing" /\ Put' = {}
              \/ outcome' = "uninstalling" /\ Gone' = {}
<1>0. system' = system /\ Installing' = Installing /\ Uninstalling' = Uninstalling
  BY SameLists DEF Begin, fixed
<1>1. \/ outcome' = "installing" /\ todo' = Installing
      \/ outcome' = "uninstalling" /\ todo' = Uninstalling
  BY DEF Begin
<1>2. ASSUME NEW P, P \in {Installing, Uninstalling}
      PROVE  P \in Seq(Steps) /\ P # <<>> /\ Follows(P, P) /\ Behind(P, Len(P)) = {}
  <2>0. P \in Seq(Steps) /\ Len(P) \in 1..8
    BY <1>2, ListsTyped
  <2>1. P \in Seq(Steps) /\ Len(P) \in 1..8 /\ P # <<>>
    <3>1. \A n \in 1..8 : n # 0
      OBVIOUS
    <3>2. Len(<<>>) = 0
      OBVIOUS
    <3> QED
      BY <2>0, <3>1, <3>2, Zenon
  <2>2. Behind(P, Len(P)) = {}
    BY <2>1, BehindFirst
  <2>3. PICK n \in 1..8 : n = Len(P)
    BY <2>1
  <2>4. n \in 1..n /\ n - n + 1 = 1 /\ \A i \in 2..n : n - n + i = i
    OBVIOUS
  <2>5. Follows(P, P)
    <3>1. Len(P) \in 1..Len(P) /\ P[1] = P[Len(P) - Len(P) + 1]
      BY <2>3, <2>4, Zenon
    <3>2. \A i \in 2..Len(P) : P[i] = P[Len(P) - Len(P) + i]
      BY <2>3, <2>4, Zenon
    <3> QED
      BY <3>1, <3>2, Zenon DEF Follows
  <2> QED
    BY <2>1, <2>2, <2>5
<1>3. CASE outcome' = "installing" /\ todo' = Installing
  BY <1>0, <1>2, <1>3 DEF Plan, Put
<1>4. CASE outcome' = "uninstalling" /\ todo' = Uninstalling
  BY <1>0, <1>2, <1>4 DEF Plan, Gone
<1> QED
  BY <1>1, <1>3, <1>4

(* The order of the steps, as far as anything depends on it.               *)
InstallSteps == {"open", "create", "clear", "rmCert", "rmKey", "make", "trust", "route",
                 "start", "copy", "unit", "browser", "enable"}
UndoSteps == {"rmRoute", "untrust", "rmCert", "rmKey", "find", "stop", "delete",
              "disable", "rmUnit", "rmBrowser", "rmBinary"}

LEMMA OrderWindows ==
    ASSUME Plan, Installs, Windows
    PROVE  /\ "start" \in Put => "trust" \in Put
           /\ "trust" \in Put => "make" \in Put
           /\ "browser" \notin Put
<1>1. PICK n \in 0..8 : n = Len(todo)
  <2>1. CASE outcome = "installing"
    BY <2>1, FirstWindows
  <2>2. CASE outcome # "installing"
    BY <2>2 DEF Plan, Installs
  <2> QED
    BY <2>1, <2>2
<1> QED
  BY <1>1, BehindWindows DEF Put

LEMMA OrderMac == Plan /\ Installs /\ system = "macos" => "make" \notin Put
<1> SUFFICES ASSUME Plan, Installs, system = "macos"
             PROVE  "make" \notin Put
  OBVIOUS
<1>1. PICK n \in 0..5 : n = Len(todo)
  <2>1. CASE outcome = "installing"
    BY <2>1, FirstMac
  <2>2. CASE outcome # "installing"
    BY <2>2 DEF Plan, Installs
  <2> QED
    BY <2>1, <2>2
<1> QED
  BY <1>1, BehindMac DEF Put

LEMMA Order ==
    ASSUME Plan, outcome = "installing"
    PROVE  /\ Head(todo) \in InstallSteps
           /\ Head(todo) = "open" =>
                /\ Windows
                /\ "open" \notin Put /\ "create" \notin Put
                /\ "make" \notin Put /\ "trust" \notin Put /\ "start" \notin Put
           /\ Head(todo) \in {"create", "clear", "rmCert", "rmKey"} =>
                Windows /\ "make" \notin Put /\ "trust" \notin Put /\ "start" \notin Put
           /\ Head(todo) = "make" =>
                /\ system # "macos" /\ Len(todo) > 1
                /\ "trust" \notin Put /\ "browser" \notin Put /\ "start" \notin Put
           /\ Head(todo) = "trust" => system = "macos" \/ "make" \in Put
           /\ Head(todo) \in {"browser", "enable"} => Linux /\ "make" \in Put
           /\ Head(todo) = "start" =>
                /\ system = "macos" \/ "make" \in Put
                /\ Windows => "create" \in Put /\ "trust" \in Put
           /\ Head(todo) \in {"copy", "unit"} => ~Windows
<1>1. CASE Windows
  <2>1. PICK n \in 0..8 : n = Len(todo)
    BY <1>1, FirstWindows
  <2>2. /\ "open" \in Put <=> n < 8
        /\ "create" \in Put <=> n < 7
        /\ "make" \in Put <=> n < 4
        /\ "trust" \in Put <=> n < 3
        /\ "start" \in Put <=> n < 1
    BY <1>1, <2>1, BehindWindows DEF Put
  <2>3. /\ Head(todo) = "open" => n = 8
        /\ Head(todo) = "create" => n = 7
        /\ Head(todo) = "clear" => n = 6
        /\ Head(todo) \in {"rmCert", "rmKey"} => n = 5
        /\ Head(todo) = "make" => n = 4
        /\ Head(todo) = "trust" => n = 3
        /\ Head(todo) = "start" => n = 1
    BY <1>1, <2>1, FirstWindows
  <2>4. Head(todo) \in {"open", "create", "clear", "rmCert", "rmKey", "make", "trust",
                        "route", "start"}
    BY <1>1, FirstWindows
  <2>5. system # "macos"
    BY <1>1 DEF Windows
  <2>6. /\ Head(todo) = "open" => "open" \notin Put /\ "create" \notin Put
        /\ Head(todo) \in {"open", "create", "clear", "rmCert", "rmKey"} =>
             "make" \notin Put /\ "trust" \notin Put /\ "start" \notin Put
        /\ Head(todo) = "make" => "trust" \notin Put /\ "start" \notin Put /\ n > 1
        /\ Head(todo) \in {"trust", "start"} => "make" \in Put
        /\ Head(todo) = "start" => "create" \in Put /\ "trust" \in Put
    BY <2>2, <2>3
  <2>7. "browser" \notin Put
    BY <1>1, OrderWindows DEF Installs
  <2> QED
    BY <1>1, <2>1, <2>4, <2>5, <2>6, <2>7 DEF InstallSteps
<1>2. CASE Linux
  <2>1. PICK n \in 0..8 : n = Len(todo)
    BY <1>2, FirstLinux
  <2>2. /\ "make" \in Put <=> n < 6
        /\ "trust" \in Put <=> n < 5
        /\ "browser" \in Put <=> n < 4
        /\ "start" \in Put <=> n < 1
    BY <1>2, <2>1, BehindLinux DEF Put
  <2>3. /\ Head(todo) = "make" => n = 6
        /\ Head(todo) = "trust" => n = 5
        /\ Head(todo) = "browser" => n = 4
        /\ Head(todo) = "enable" => n = 2
        /\ Head(todo) = "start" => n = 1
    BY <1>2, <2>1, FirstLinux
  <2>4. Head(todo) \in {"copy", "unit", "make", "trust", "browser", "route", "enable", "start"}
    BY <1>2, FirstLinux
  <2>5. system # "macos" /\ ~Windows
    BY <1>2 DEF Linux, Windows
  <2>6. /\ Head(todo) = "make" =>
             "trust" \notin Put /\ "browser" \notin Put /\ "start" \notin Put /\ n > 1
        /\ Head(todo) \in {"trust", "browser", "enable", "start"} => "make" \in Put
    BY <2>2, <2>3
  <2> QED
    BY <1>2, <2>1, <2>4, <2>5, <2>6 DEF InstallSteps
<1>3. CASE system = "macos"
  BY <1>3, FirstMac, Places DEF InstallSteps
<1> QED
  BY <1>1, <1>2, <1>3, Places

(* What a step does to the list, whether it is done, fails or is refused.  *)
Ends == Goes(TRUE) \/ Goes(FALSE) \/ Stops

Moved(s) ==
    /\ At(s) /\ Plan'
    /\ clean' => clean /\ ~Stops
    /\ \/ /\ outcome = "installing" /\ outcome' \in {"installing", "installed"}
          /\ \A x \in InstallSteps \ {"rmCert", "rmKey"} : x \in Put' <=> x \in Put \/ x = s
       \/ /\ outcome = "uninstalling" /\ outcome' \in {"uninstalling", "uninstalled"}
          /\ \A x \in UndoSteps \ {"rmCert", "rmKey"} : x \in Gone' <=> x \in Gone \/ x = s
       \/ outcome' = "failed"

LEMMA MovedBy ==
    ASSUME Plan, Kept, NEW s, At(s), Ends, system' = system
    PROVE  Moved(s)
<1>0. clean \in BOOLEAN
  BY DEF Kept
<1>1. ASSUME NEW ok \in BOOLEAN, Goes(ok)
      PROVE  Moved(s)
  <2>1. clean' \in BOOLEAN /\ (clean' => clean)
    BY <1>0, <1>1 DEF Goes
  <2>2. clean' => ~Stops
    BY DEF Stops
  <2>3. /\ Plan'
        /\ outcome \in {"installing", "uninstalling"}
        /\ outcome = "installing" =>
             /\ outcome' \in {"installing", "installed"}
             /\ Put' = Put \cup {s} \/ (s = "rmKey" /\ Put' = Put \cup {"rmCert"})
        /\ outcome = "uninstalling" =>
             /\ outcome' \in {"uninstalling", "uninstalled"}
             /\ Gone' = Gone \cup {s} \/ (s = "rmKey" /\ Gone' = Gone \cup {"rmCert"})
    BY <1>1, <2>1, Turn
  <2> QED
    BY <2>1, <2>2, <2>3 DEF Moved
<1>2. CASE Stops
  <2>1. Plan'
    BY <1>2, Stopped DEF Stops
  <2> QED
    BY <1>2, <2>1 DEF Moved, Stops
<1> QED
  BY <1>1, <1>2 DEF Ends

LEMMA Moves ==
    ASSUME Plan, Kept
    PROVE  /\ (Copy => Moved("copy"))
           /\ (WriteUnit => Moved("unit"))
           /\ (OpenService => Moved("open"))
           /\ (CreateService => Moved("create"))
           /\ (CleanupOldCerts => Moved("clear"))
           /\ (RemoveKey => Moved("rmKey"))
           /\ (MakeCA => Moved("make"))
           /\ (InstallCA => Moved("trust"))
           /\ (InstallNSSCert => Moved("browser"))
           /\ (AddRoute => Moved("route"))
           /\ (Enable => Moved("enable"))
           /\ (StartService => Moved("start"))
           /\ (StopService => Moved("stop"))
           /\ (Disable => Moved("disable"))
           /\ (RemoveUnit => Moved("rmUnit"))
           /\ (RemoveRoute => Moved("rmRoute"))
           /\ (UninstallCA => Moved("untrust"))
           /\ (UninstallNSSCert => Moved("rmBrowser"))
           /\ (RemoveBinary => Moved("rmBinary"))
           /\ (FindService => Moved("find"))
           /\ (DeleteService => Moved("delete"))
<1>1. Copy => Moved("copy")
  BY MovedBy DEF Copy, Ends, Pass, Warns, Errors, Refuses, fixed
<1>2. WriteUnit => Moved("unit")
  BY MovedBy DEF WriteUnit, Ends, Pass, Warns, Errors, Refuses, fixed
<1>3. OpenService => Moved("open")
  BY MovedBy DEF OpenService, Ends, Pass, Warns, Errors, Refuses, fixed
<1>4. CreateService => Moved("create")
  BY MovedBy DEF CreateService, Ends, Pass, Warns, Errors, Refuses, fixed
<1>5. CleanupOldCerts => Moved("clear")
  BY MovedBy DEF CleanupOldCerts, Ends, Pass, Warns, Errors, Refuses, fixed
<1>6. RemoveKey => Moved("rmKey")
  BY MovedBy DEF RemoveKey, Ends, Pass, Warns, Errors, Refuses, fixed
<1>7. MakeCA => Moved("make")
  BY MovedBy DEF MakeCA, Ends, Pass, Warns, Errors, Refuses, fixed
<1>8. InstallCA => Moved("trust")
  BY MovedBy DEF InstallCA, TrustLinux, TrustMac, InstallToStore, Ends, Pass, Warns, Errors, Refuses, fixed
<1>9. InstallNSSCert => Moved("browser")
  BY MovedBy DEF InstallNSSCert, Ends, Pass, Warns, Errors, Refuses, fixed
<1>10. AddRoute => Moved("route")
  BY MovedBy DEF AddRoute, Ends, Pass, Warns, Errors, Refuses, fixed
<1>11. Enable => Moved("enable")
  BY MovedBy DEF Enable, Ends, Pass, Warns, Errors, Refuses, fixed
<1>12. StartService => Moved("start")
  BY MovedBy DEF StartService, Ends, Pass, Warns, Errors, Refuses, fixed
<1>13. StopService => Moved("stop")
  BY MovedBy DEF StopService, Ends, Pass, Warns, Errors, Refuses, fixed
<1>14. Disable => Moved("disable")
  BY MovedBy DEF Disable, Ends, Pass, Warns, Errors, Refuses, fixed
<1>15. RemoveUnit => Moved("rmUnit")
  BY MovedBy DEF RemoveUnit, Ends, Pass, Warns, Errors, Refuses, fixed
<1>16. RemoveRoute => Moved("rmRoute")
  BY MovedBy DEF RemoveRoute, Ends, Pass, Warns, Errors, Refuses, fixed
<1>17. UninstallCA => Moved("untrust")
  BY MovedBy DEF UninstallCA, UntrustLinux, Ends, Pass, Warns, Errors, Refuses, fixed
<1>18. UninstallNSSCert => Moved("rmBrowser")
  BY MovedBy DEF UninstallNSSCert, Ends, Pass, Warns, Errors, Refuses, fixed
<1>19. RemoveBinary => Moved("rmBinary")
  BY MovedBy DEF RemoveBinary, Ends, Pass, Warns, Errors, Refuses, fixed
<1>20. FindService => Moved("find")
  BY MovedBy DEF FindService, Ends, Pass, Warns, Errors, Refuses, fixed
<1>21. DeleteService => Moved("delete")
  BY MovedBy DEF DeleteService, Ends, Pass, Warns, Errors, Refuses, fixed
<1> QED
  BY <1>1, <1>2, <1>3, <1>4, <1>5, <1>6, <1>7, <1>8, <1>9, <1>10, <1>11, <1>12, <1>13, <1>14, <1>15, <1>16, <1>17, <1>18, <1>19, <1>20, <1>21

-----------------------------------------------------------------------------
(* Authorities, and what is left of a Save.                                *)
LEMMA Authorities ==
    /\ None \notin CA /\ Cut \notin CA /\ None # Cut /\ None.by = "none" /\ Cut.by = "cut"
    /\ \A c \in CA : c.by \in {"installer", "daemon"}
    /\ \A p \in Savers, m \in Nat : [n |-> m + 1, by |-> p] \in CA
BY DEF None, Cut, CA, Savers

LEMMA RestFacts ==
    /\ <<>> \in Rests /\ SaveSteps \in Rests /\ SaveSteps # <<>>
    /\ \A w \in Rests : w # <<>> =>
          /\ Tail(w) \in Rests /\ Tail(w) # SaveSteps
          /\ \/ Head(w) = "openCert" /\ w = SaveSteps
             \/ Head(w) = "cert" /\ Tail(w) = <<"openKey", "key">>
             \/ Head(w) = "openKey" /\ w = <<"openKey", "key">> /\ Tail(w) = <<"key">>
             \/ Head(w) = "key" /\ w = <<"key">> /\ Tail(w) = <<>>
BY DEF Rests, SaveSteps

LEMMA NextKept == Plan /\ Kept /\ [Next]_vars => Kept'
<1> SUFFICES ASSUME Plan, Kept, [Next]_vars
             PROVE  Kept'
  OBVIOUS
<1>1. CASE Copy
  <2>1. ~Windows
    BY <1>1, Order, FirstUndoing DEF Copy, At, Plan, UndoSteps
  <2> QED
    BY <1>1, <2>1 DEF Kept, Copy, Pass, Warns, Errors, Refuses, Fault, Goes, Stops, files, saving, trust, host, svc, run, fixed, Linux, Windows
<1>2. CASE WriteUnit
  BY <1>2 DEF Kept, WriteUnit, Pass, Warns, Errors, Refuses, Fault, Goes, Stops, files, saving, trust, host, svc, run, fixed, Linux, Windows
<1>3. CASE OpenService
  BY <1>3 DEF Kept, OpenService, Pass, Warns, Errors, Refuses, Fault, Goes, Stops, files, saving, trust, host, svc, run, fixed, Linux, Windows
<1>4. CASE CreateService
  BY <1>4 DEF Kept, CreateService, Pass, Warns, Errors, Refuses, Fault, Goes, Stops, files, saving, trust, host, svc, run, fixed, Linux, Windows
<1>5. CASE CleanupOldCerts
  BY <1>5 DEF Kept, CleanupOldCerts, Pass, Warns, Errors, Refuses, Fault, Goes, Stops, files, saving, trust, host, svc, run, fixed, Linux, Windows
<1>6. CASE RemoveCert
  BY <1>6 DEF Kept, RemoveCert, Pass, Warns, Errors, Refuses, Fault, Goes, Stops, files, saving, trust, host, svc, run, fixed, Linux, Windows
<1>7. CASE RemoveKey
  BY <1>7 DEF Kept, RemoveKey, Pass, Warns, Errors, Refuses, Fault, Goes, Stops, files, saving, trust, host, svc, run, fixed, Linux, Windows
<1>8. CASE InstallCA
  BY <1>8 DEF Kept, InstallCA, TrustLinux, TrustMac, InstallToStore, Pass, Warns, Errors, Refuses, Fault, Goes, Stops, files, saving, trust, host, svc, run, fixed, Linux, Windows
<1>9. CASE InstallNSSCert
  BY <1>9 DEF Kept, InstallNSSCert, Pass, Warns, Errors, Refuses, Fault, Goes, Stops, files, saving, trust, host, svc, run, fixed, Linux, Windows
<1>10. CASE AddRoute
  BY <1>10 DEF Kept, AddRoute, Pass, Warns, Errors, Refuses, Fault, Goes, Stops, files, saving, trust, host, svc, run, fixed, Linux, Windows
<1>11. CASE Enable
  <2>1. Linux
    BY <1>11, Order, FirstUndoing DEF Enable, At, Plan, UndoSteps
  <2> QED
    BY <1>11, <2>1 DEF Kept, Enable, Pass, Warns, Errors, Refuses, Fault, Goes, Stops, files, saving, trust, host, svc, run, fixed, Linux, Windows
<1>12. CASE StartService
  BY <1>12 DEF Kept, StartService, Pass, Warns, Errors, Refuses, Fault, Goes, Stops, files, saving, trust, host, svc, run, fixed, Linux, Windows
<1>13. CASE Disable
  <2>0. clean' \in BOOLEAN
    BY <1>13 DEF Kept, Disable, Pass, Warns, Goes
  <2>1. enabled' = FALSE \/ enabled' = enabled
    BY <1>13, Zenon DEF Disable
  <2> QED
    BY <1>13, <2>0, <2>1 DEF Kept, Disable, files, saving, trust, svc, fixed, Linux, Windows
<1>14. CASE RemoveUnit
  BY <1>14 DEF Kept, RemoveUnit, Pass, Warns, Errors, Refuses, Fault, Goes, Stops, files, saving, trust, host, svc, run, fixed, Linux, Windows
<1>15. CASE RemoveRoute
  BY <1>15 DEF Kept, RemoveRoute, Pass, Warns, Errors, Refuses, Fault, Goes, Stops, files, saving, trust, host, svc, run, fixed, Linux, Windows
<1>16. CASE UninstallCA
  BY <1>16 DEF Kept, UninstallCA, UntrustLinux, Pass, Warns, Errors, Refuses, Fault, Goes, Stops, files, saving, trust, host, svc, run, fixed, Linux, Windows
<1>17. CASE UninstallNSSCert
  BY <1>17 DEF Kept, UninstallNSSCert, Pass, Warns, Errors, Refuses, Fault, Goes, Stops, files, saving, trust, host, svc, run, fixed, Linux, Windows
<1>18. CASE RemoveBinary
  <2>0. clean' \in BOOLEAN
    BY <1>18 DEF Kept, RemoveBinary, Pass, Warns, Goes
  <2>1. binary' = FALSE \/ binary' = binary
    BY <1>18, Zenon DEF RemoveBinary
  <2> QED
    BY <1>18, <2>0, <2>1 DEF Kept, RemoveBinary, files, saving, trust, svc, fixed, Linux, Windows
<1>19. CASE FindService
  BY <1>19 DEF Kept, FindService, Pass, Warns, Errors, Refuses, Fault, Goes, Stops, files, saving, trust, host, svc, run, fixed, Linux, Windows
<1>20. CASE DeleteService
  BY <1>20 DEF Kept, DeleteService, Pass, Warns, Errors, Refuses, Fault, Goes, Stops, files, saving, trust, host, svc, run, fixed, Linux, Windows
<1>21. CASE MakeCA
  <2>1. made' \in Nat /\ fresh' \in [Savers -> CA \cup {None}] /\ writes' \in [Savers -> Rests]
    <3>1. CASE Generate("installer")
      BY <1>21, <3>1, Authorities, RestFacts DEF Kept, Generate, Savers
    <3>2. CASE UNCHANGED saving
      BY <3>2 DEF Kept, saving
    <3> QED
      BY <1>21, <3>1, <3>2 DEF MakeCA
  <2> QED
    BY <1>21, <2>1 DEF Kept, MakeCA, Pass, Goes, files, trust, host, svc, fixed, Linux, Windows
<1>22. CASE StopService
  BY <1>22, RestFacts DEF Kept, StopService, Pass, Warns, Fault, Goes, files, trust, host, svc,
     fixed, Linux, Windows
<1>23. CASE Boot
  <2>1. made' \in Nat /\ fresh' \in [Savers -> CA \cup {None}] /\ writes' \in [Savers -> Rests]
    <3>1. CASE Generate("daemon")
      BY <1>23, <3>1, Authorities, RestFacts DEF Kept, Generate, Savers
    <3>2. CASE UNCHANGED saving
      BY <3>2 DEF Kept, saving
    <3> QED
      BY <1>23, <3>1, <3>2 DEF Boot
  <2> QED
    BY <1>23, <2>1 DEF Kept, Boot, files, trust, host, run, fixed, Linux, Windows
<1>24. ASSUME NEW p \in Savers, Save(p)
       PROVE  Kept'
  <2>1. writes[p] \in Rests /\ writes[p] # <<>> /\ fresh[p] \in CA \cup {None}
    BY <1>24 DEF Kept, Save
  <2>2. Tail(writes[p]) \in Rests
    BY <2>1, RestFacts
  <2>3. cert' \in CA \cup {None, Cut} /\ key' \in CA \cup {None, Cut}
    BY <1>24, <2>1, RestFacts DEF Kept, Save
  <2>4. writes' \in [Savers -> Rests]
    BY <1>24, <2>2 DEF Kept, Save
  <2> QED
    BY <1>24, <2>3, <2>4 DEF Kept, Save, fixed, run, trust, host, svc, Linux, Windows
<1>25. ASSUME NEW p \in Savers, SaveFails(p)
       PROVE  Kept'
  <2>1. clean' \in BOOLEAN
    BY <1>25 DEF Kept, SaveFails, Stops, run
  <2>2. writes' \in [Savers -> Rests] /\ daemon' \in {"off", "due", "boot", "on"}
    BY <1>25, RestFacts DEF Kept, SaveFails
  <2> QED
    BY <1>25, <2>1, <2>2 DEF Kept, SaveFails, fixed, files, trust, host, Linux, Windows
<1>26. CASE Ready \/ Halt
  BY <1>26 DEF Kept, Ready, Halt, files, saving, trust, host, run, fixed, Linux, Windows
<1>27. CASE Vanish
  BY <1>27 DEF Kept, Vanish, files, saving, trust, svc, run, fixed, Linux, Windows
<1>28. CASE Interrupt
  BY <1>28, RestFacts DEF Kept, Interrupt, Errors, Stops, Fault, files, trust, host, svc, fixed,
     Linux, Windows
<1>29. CASE PowerCut
  <2>1. writes' \in [Savers -> Rests] /\ clean' \in BOOLEAN
    BY <1>29, RestFacts DEF Kept, PowerCut, Stops, run
  <2> QED
    BY <1>29, <2>1 DEF Kept, PowerCut, files, trust, fixed, Linux, Windows
<1>30. CASE Begin
  BY <1>30 DEF Kept, Begin, files, saving, trust, host, svc, Linux, Windows
<1>31. CASE UNCHANGED vars
  BY <1>31 DEF Kept, vars, Linux, Windows
<1> QED
  BY <1>1, <1>2, <1>3, <1>4, <1>5, <1>6, <1>7, <1>8, <1>9, <1>10, <1>11, <1>12, <1>13, <1>14, <1>15, <1>16, <1>17, <1>18, <1>19, <1>20, <1>21, <1>22, <1>23, <1>24, <1>25, <1>26, <1>27, <1>28, <1>29, <1>30, <1>31
     DEF Next, Install, Uninstall, DaemonStep, Savers

(* The removal of both files counts once.                                  *)
LEMMA RemoveCertMoves ==
    ASSUME Plan, Kept, RemoveCert
    PROVE  /\ At("rmCert") /\ Plan' /\ (clean' => clean)
           /\ \/ Moved("rmCert")
              \/ UNCHANGED outcome /\ Put' = Put /\ Gone' = Gone
<1>0. At("rmCert") /\ system' = system
  BY DEF RemoveCert, fixed
<1>1. CASE Goes(TRUE)
  BY <1>0, <1>1, MovedBy DEF Ends, Moved
<1>2. CASE todo' = <<"rmKey">> \o Tail(todo) /\ UNCHANGED outcome /\ (clean' => clean)
  BY <1>0, <1>2, Again
<1>3. Goes(TRUE) \/ (todo' = <<"rmKey">> \o Tail(todo) /\ UNCHANGED outcome /\ (clean' => clean))
  BY DEF RemoveCert, Pass
<1> QED
  BY <1>1, <1>2, <1>3

(* Steps of the others leave the list alone, or end the run.               *)
LEMMA Rested ==
    ASSUME Plan, UNCHANGED <<system, todo, outcome>>
    PROVE  Plan' /\ Put' = Put /\ Gone' = Gone
BY SameLists DEF Plan, Put, Gone

LEMMA NextPlan == Plan /\ Kept /\ [Next]_vars => Plan'
<1> SUFFICES ASSUME Plan, Kept, [Next]_vars
             PROVE  Plan'
  OBVIOUS
<1>1. CASE Install \/ Uninstall
  BY <1>1, Moves, RemoveCertMoves DEF Install, Uninstall, Moved
<1>2. CASE Begin
  BY <1>2, Beginning
<1>3. CASE Boot \/ Ready \/ Vanish \/ (\E p \in Savers : Save(p)) \/ UNCHANGED vars
  BY <1>3, Rested DEF Boot, Ready, Vanish, Save, run, fixed, vars
<1>4. ASSUME NEW p \in Savers, SaveFails(p)
      PROVE  Plan'
  BY <1>4, Rested, Stopped DEF SaveFails, Stops, run, fixed
<1>5. CASE Halt
  BY <1>5, SameLists DEF Halt, Plan, fixed
<1>6. CASE Interrupt \/ PowerCut
  BY <1>6, Rested, Stopped DEF Interrupt, PowerCut, Errors, Stops, run, fixed
<1> QED
  BY <1>1, <1>2, <1>3, <1>4, <1>5, <1>6 DEF Next, DaemonStep, Savers

-----------------------------------------------------------------------------
(* Steps that touch neither the files nor the daemon.                      *)
LEMMA Quiet ==
    ASSUME Writers, Pairs,
           UNCHANGED <<system, cert, key, fresh, writes, daemon, signs, enabled>>,
           writes["installer"] = <<>> \/ (UNCHANGED outcome /\ Put' = Put),
           outcome' = "installing" /\ "make" \in Put' => outcome = "installing" /\ "make" \in Put
    PROVE  Writers' /\ Pairs'
<1>1. Writers'
  BY DEF Writers, Linux, Windows
<1>2. Pairs'
  BY DEF Pairs, Windows
<1> QED
  BY <1>1, <1>2

LEMMA MovedQuiet ==
    ASSUME Writers, Pairs, NEW s, Moved(s), s # "make",
           UNCHANGED <<system, cert, key, fresh, writes, daemon, signs, enabled>>
    PROVE  Writers' /\ Pairs'
<1>1. writes["installer"] = <<>>
  BY DEF Moved, At
<1>2. outcome' = "installing" /\ "make" \in Put' => outcome = "installing" /\ "make" \in Put
  BY DEF Moved, InstallSteps
<1> QED
  BY <1>1, <1>2, Quiet

(* At most one of the two programs saves.                                  *)
LEMMA OneSaves ==
    ASSUME Writers, Plan
    PROVE  /\ writes["daemon"] = <<>> \/ writes["installer"] = <<>>
           /\ todo = <<>> => writes["installer"] = <<>>
BY DEF Writers, Plan, AllSystems, Windows, Linux

LEMMA NextWriters == Plan /\ Kept /\ Writers /\ Pairs /\ [Next]_vars => Writers' /\ Pairs'
<1> SUFFICES ASSUME Plan, Kept, Writers, Pairs, [Next]_vars
             PROVE  Writers' /\ Pairs'
  OBVIOUS
<1>0. Plan' /\ Kept'
  BY NextPlan, NextKept
<1>1. CASE Copy
  <2>1. Moved("copy")
    BY <1>1, Moves
  <2>2. UNCHANGED <<system, cert, key, fresh, writes, daemon, signs, enabled>>
    BY <1>1 DEF Copy, files, saving, host, svc, fixed
  <2> QED
    BY <2>1, <2>2, MovedQuiet
<1>2. CASE WriteUnit
  <2>1. Moved("unit")
    BY <1>2, Moves
  <2>2. UNCHANGED <<system, cert, key, fresh, writes, daemon, signs, enabled>>
    BY <1>2 DEF WriteUnit, files, saving, host, svc, fixed
  <2> QED
    BY <2>1, <2>2, MovedQuiet
<1>3. CASE OpenService
  <2>1. Moved("open")
    BY <1>3, Moves
  <2>2. UNCHANGED <<system, cert, key, fresh, writes, daemon, signs, enabled>>
    BY <1>3 DEF OpenService, files, saving, host, svc, fixed
  <2> QED
    BY <2>1, <2>2, MovedQuiet
<1>4. CASE CreateService
  <2>1. Moved("create")
    BY <1>4, Moves
  <2>2. UNCHANGED <<system, cert, key, fresh, writes, daemon, signs, enabled>>
    BY <1>4 DEF CreateService, files, saving, host, svc, fixed
  <2> QED
    BY <2>1, <2>2, MovedQuiet
<1>5. CASE CleanupOldCerts
  <2>1. Moved("clear")
    BY <1>5, Moves
  <2>2. UNCHANGED <<system, cert, key, fresh, writes, daemon, signs, enabled>>
    BY <1>5 DEF CleanupOldCerts, files, saving, host, svc, fixed
  <2> QED
    BY <2>1, <2>2, MovedQuiet
<1>6. CASE InstallCA
  <2>1. Moved("trust")
    BY <1>6, Moves
  <2>2. UNCHANGED <<system, cert, key, fresh, writes, daemon, signs, enabled>>
    BY <1>6 DEF InstallCA, files, saving, host, svc, fixed
  <2> QED
    BY <2>1, <2>2, MovedQuiet
<1>7. CASE InstallNSSCert
  <2>1. Moved("browser")
    BY <1>7, Moves
  <2>2. UNCHANGED <<system, cert, key, fresh, writes, daemon, signs, enabled>>
    BY <1>7 DEF InstallNSSCert, files, saving, host, svc, fixed
  <2> QED
    BY <2>1, <2>2, MovedQuiet
<1>8. CASE AddRoute
  <2>1. Moved("route")
    BY <1>8, Moves
  <2>2. UNCHANGED <<system, cert, key, fresh, writes, daemon, signs, enabled>>
    BY <1>8 DEF AddRoute, files, saving, host, svc, fixed
  <2> QED
    BY <2>1, <2>2, MovedQuiet
<1>9. CASE RemoveUnit
  <2>1. Moved("rmUnit")
    BY <1>9, Moves
  <2>2. UNCHANGED <<system, cert, key, fresh, writes, daemon, signs, enabled>>
    BY <1>9 DEF RemoveUnit, files, saving, host, svc, fixed
  <2> QED
    BY <2>1, <2>2, MovedQuiet
<1>10. CASE RemoveRoute
  <2>1. Moved("rmRoute")
    BY <1>10, Moves
  <2>2. UNCHANGED <<system, cert, key, fresh, writes, daemon, signs, enabled>>
    BY <1>10 DEF RemoveRoute, files, saving, host, svc, fixed
  <2> QED
    BY <2>1, <2>2, MovedQuiet
<1>11. CASE UninstallCA
  <2>1. Moved("untrust")
    BY <1>11, Moves
  <2>2. UNCHANGED <<system, cert, key, fresh, writes, daemon, signs, enabled>>
    BY <1>11 DEF UninstallCA, files, saving, host, svc, fixed
  <2> QED
    BY <2>1, <2>2, MovedQuiet
<1>12. CASE UninstallNSSCert
  <2>1. Moved("rmBrowser")
    BY <1>12, Moves
  <2>2. UNCHANGED <<system, cert, key, fresh, writes, daemon, signs, enabled>>
    BY <1>12 DEF UninstallNSSCert, files, saving, host, svc, fixed
  <2> QED
    BY <2>1, <2>2, MovedQuiet
<1>13. CASE RemoveBinary
  <2>1. Moved("rmBinary")
    BY <1>13, Moves
  <2>2. UNCHANGED <<system, cert, key, fresh, writes, daemon, signs, enabled>>
    BY <1>13 DEF RemoveBinary, files, saving, host, svc, fixed
  <2> QED
    BY <2>1, <2>2, MovedQuiet
<1>14. CASE FindService
  <2>1. Moved("find")
    BY <1>14, Moves
  <2>2. UNCHANGED <<system, cert, key, fresh, writes, daemon, signs, enabled>>
    BY <1>14 DEF FindService, files, saving, host, svc, fixed
  <2> QED
    BY <2>1, <2>2, MovedQuiet
<1>15. CASE DeleteService
  <2>1. Moved("delete")
    BY <1>15, Moves
  <2>2. UNCHANGED <<system, cert, key, fresh, writes, daemon, signs, enabled>>
    BY <1>15 DEF DeleteService, files, saving, host, svc, fixed
  <2> QED
    BY <2>1, <2>2, MovedQuiet
<1>16. CASE Disable
  <2>1. Moved("disable")
    BY <1>16, Moves
  <2>2. UNCHANGED <<system, cert, key, fresh, writes, daemon, signs>>
        /\ (enabled' = FALSE \/ enabled' = enabled)
    BY <1>16 DEF Disable, files, saving, svc, fixed
  <2>3. writes["installer"] = <<>>
    BY <2>1 DEF Moved, At
  <2>4. outcome' = "installing" /\ "make" \in Put' => outcome = "installing" /\ "make" \in Put
    BY <2>1 DEF Moved, InstallSteps
  <2>5. Writers'
    BY <2>2, <2>3, <2>4 DEF Writers, Linux, Windows
  <2>6. Pairs'
    BY <2>2 DEF Pairs, Windows
  <2> QED
    BY <2>5, <2>6
<1>17. CASE Enable
  <2>1. Moved("enable") /\ Head(todo) = "enable"
    BY <1>17, Moves DEF Moved, At
  <2>2. Linux /\ outcome = "installing" /\ "make" \in Put /\ writes["installer"] = <<>>
    BY <2>1, Order, FirstUndoing DEF Moved, At, Plan, UndoSteps
  <2>3. cert # None
    BY <2>2, RestFacts DEF Writers
  <2>4. UNCHANGED <<system, cert, key, fresh, writes, daemon, signs>>
    BY <1>17 DEF Enable, files, saving, svc, fixed
  <2>5. Writers'
    BY <2>2, <2>3, <2>4 DEF Writers, Linux, Windows
  <2>6. Pairs'
    BY <2>4 DEF Pairs, Windows
  <2> QED
    BY <2>5, <2>6
<1>18. CASE StartService
  <2>1. Moved("start") /\ Head(todo) = "start"
    BY <1>18, Moves DEF Moved, At
  <2>2. outcome = "installing" /\ (Linux => "make" \in Put) /\ writes["installer"] = <<>>
    BY <2>1, Order, FirstUndoing DEF Moved, At, Plan, UndoSteps, Linux
  <2>3. Linux => cert # None
    BY <2>2, RestFacts DEF Writers
  <2>4. UNCHANGED <<system, cert, key, fresh, writes, enabled, signs>>
        /\ (daemon' = daemon \/ (daemon = "off" /\ daemon' = "due"))
    BY <1>18 DEF StartService, files, saving, host, fixed
  <2>5. Writers'
    BY <2>2, <2>3, <2>4 DEF Writers, Linux, Windows
  <2>6. Pairs'
    BY <2>4 DEF Pairs, Windows
  <2> QED
    BY <2>5, <2>6
<1>19. CASE StopService
  <2>1. Moved("stop")
    BY <1>19, Moves
  <2>2. outcome' # "installing" /\ writes["installer"] = <<>>
    BY <2>1, Order DEF Moved, At, InstallSteps
  <2>3. CASE UNCHANGED <<svc, writes>>
    <3>1. UNCHANGED <<system, cert, key, fresh, writes, daemon, signs, enabled>>
      BY <1>19, <2>3 DEF StopService, files, host, svc, fixed
    <3> QED
      BY <2>2, <3>1, Quiet
  <2>4. CASE daemon' = "off" /\ writes' = [writes EXCEPT !["daemon"] = <<>>]
    <3>1. UNCHANGED <<system, cert, key, fresh, enabled>>
      BY <1>19 DEF StopService, files, host, fixed
    <3>2. writes'["daemon"] = <<>> /\ writes'["installer"] = <<>>
      BY <2>2, <2>4 DEF Kept, Savers
    <3>3. \A p \in Savers : writes'[p] = <<>>
      BY <3>2 DEF Savers
    <3>4. Writers'
      BY <2>2, <2>4, <3>1, <3>3 DEF Writers, Linux, Windows, Savers
    <3>5. Pairs'
      BY <2>4, <3>1, <3>3 DEF Pairs, Windows
    <3> QED
      BY <3>4, <3>5
  <2> QED
    BY <1>19, <2>3, <2>4 DEF StopService
<1>20. CASE RemoveCert \/ RemoveKey
  <2>1. Windows /\ writes["installer"] = <<>>
    BY <1>20, Order, FirstUndoing DEF RemoveCert, RemoveKey, At, Plan
  <2>2. UNCHANGED <<system, fresh, writes, daemon>>
    BY <1>20 DEF RemoveCert, RemoveKey, saving, svc, fixed
  <2>3. \A p \in Savers : writes[p] = <<>>
    BY <2>1 DEF Writers, Savers
  <2> QED
    BY <2>1, <2>2, <2>3 DEF Writers, Pairs, Linux, Windows, Savers
<1>21. CASE MakeCA
  <2>1. Moved("make") /\ Head(todo) = "make" /\ writes["installer"] = <<>>
    BY <1>21, Moves DEF Moved, At
  <2>2. outcome = "installing"
    BY <2>1, FirstUndoing DEF Moved, At, Plan, UndoSteps
  <2>3. /\ system # "macos" /\ Len(todo) > 1 /\ "trust" \notin Put /\ "browser" \notin Put
    BY <2>1, <2>2, Order
  <2>4. outcome' = "installing" /\ "make" \in Put' /\ "trust" \notin Put' /\ "browser" \notin Put'
    BY <1>21, <2>1, <2>2, <2>3 DEF MakeCA, Pass, Goes, Moved, InstallSteps
  <2>5. UNCHANGED <<system, cert, key, daemon, signs, enabled>>
    BY <1>21 DEF MakeCA, files, host, svc, fixed
  <2>6. CASE UNCHANGED saving
    <3>1. Linux => cert # None
      BY <1>21, <2>6 DEF MakeCA, Pairs, saving, Linux, Windows, Generate, Kept
    <3> QED
      BY <2>1, <2>5, <2>6, <3>1 DEF Writers, Pairs, saving, Linux, Windows
  <2>7. CASE Generate("installer") /\ (Windows \/ (cert = None /\ key = None))
    <3>1. /\ fresh'["installer"] = [n |-> made + 1, by |-> "installer"]
          /\ fresh'["daemon"] = fresh["daemon"]
          /\ writes'["installer"] = SaveSteps /\ writes'["daemon"] = writes["daemon"]
      BY <2>7 DEF Generate, Kept, Savers
    <3>2. fresh'["installer"] \in CA /\ fresh'["installer"].by = "installer"
      BY <3>1, Authorities DEF Kept, Savers
    <3>3. Linux => daemon = "off" /\ ~enabled
      BY <2>7 DEF Writers, Linux, Windows
    <3>4. writes["daemon"] = <<>>
      BY <2>3, <3>3 DEF Writers, Plan, AllSystems, Linux, Windows
    <3>5. SaveSteps \notin {<<"openKey", "key">>, <<"key">>}
      BY DEF SaveSteps
    <3>6. Writers'
      BY <2>3, <2>4, <2>5, <3>1, <3>2, <3>3, <3>4, <3>5 DEF Writers, Linux, Windows, Savers
    <3>7. ~Windows => key \notin CA /\ daemon = "off"
      BY <2>3, <2>7, <3>3, Authorities DEF Plan, AllSystems, Linux, Windows
    <3>8. Pairs'
      BY <2>3, <2>5, <3>7 DEF Pairs, Windows
    <3> QED
      BY <3>6, <3>8
  <2> QED
    BY <1>21, <2>6, <2>7 DEF MakeCA
<1>22. CASE Begin
  <2>1. todo = <<>> /\ UNCHANGED <<system, cert, key, fresh, writes, daemon, signs, enabled>>
    BY <1>22 DEF Begin, files, saving, host, svc
  <2>2. (outcome' = "installing" /\ Put' = {}) \/ outcome' = "uninstalling"
    BY <1>22, Beginning
  <2> QED
    BY <2>1, <2>2, OneSaves, Quiet
<1>23. CASE Vanish \/ UNCHANGED vars
  <2>1. UNCHANGED <<system, todo, outcome, cert, key, fresh, writes, daemon, signs, enabled>>
    BY <1>23 DEF Vanish, files, saving, run, svc, fixed, vars
  <2> QED
    BY <2>1, Rested, Quiet
<1>24. CASE Boot
  <2>1. UNCHANGED <<system, todo, outcome, cert, key, enabled>> /\ daemon = "due"
    BY <1>24 DEF Boot, files, host, run, fixed
  <2>2. Put' = Put
    BY <2>1, Rested
  <2>3. writes["daemon"] = <<>>
    BY <2>1 DEF Writers
  <2>4. CASE Loads \/ Windows
    <3>1. daemon' = "on" /\ signs' = (IF Loads THEN cert ELSE None) /\ UNCHANGED <<fresh, writes>>
      BY <1>24, <2>4 DEF Boot, saving
    <3> QED
      BY <2>1, <2>2, <2>4, <3>1 DEF Writers, Pairs, Loads, Linux, Windows
  <2>5. CASE ~Loads /\ ~Windows
    <3>1. /\ daemon' = "boot"
          /\ fresh'["daemon"] = [n |-> made + 1, by |-> "daemon"]
          /\ fresh'["installer"] = fresh["installer"]
          /\ writes'["daemon"] = SaveSteps /\ writes'["installer"] = writes["installer"]
      BY <1>24, <2>5 DEF Boot, Generate, Kept, Savers
    <3>2. fresh'["daemon"] \in CA /\ fresh'["daemon"].by = "daemon"
      BY <3>1, Authorities DEF Kept, Savers
    <3>3. writes["installer"] = <<>>
      BY <2>1, <2>5 DEF Writers, Plan, AllSystems, Linux, Windows
    <3>4. key \notin CA
      BY <2>5 DEF Pairs, Loads
    <3>5. SaveSteps \notin {<<"openKey", "key">>, <<"key">>} /\ SaveSteps # <<>>
      BY DEF SaveSteps
    <3>6. Writers'
      BY <2>1, <2>2, <2>5, <3>1, <3>2, <3>3, <3>5 DEF Writers, Linux, Windows, Savers
    <3>7. Pairs'
      BY <2>1, <3>1, <3>4, <3>5 DEF Pairs, Windows
    <3> QED
      BY <3>6, <3>7
  <2> QED
    BY <2>4, <2>5
<1>25. CASE Ready
  <2>1. UNCHANGED <<system, todo, outcome, cert, key, fresh, writes, enabled>>
        /\ daemon = "boot" /\ writes["daemon"] = <<>> /\ daemon' = "on" /\ signs' = fresh["daemon"]
    BY <1>25 DEF Ready, files, saving, host, run, fixed
  <2>2. Put' = Put
    BY <2>1, Rested
  <2> QED
    BY <2>1, <2>2 DEF Writers, Pairs, Linux, Windows
<1>26. CASE Halt
  <2>1. UNCHANGED <<system, cert, key, fresh, writes, enabled>> /\ todo = <<>>
        /\ daemon = "on" /\ daemon' = "off" /\ outcome' = "halted"
    BY <1>26 DEF Halt, files, saving, host, fixed
  <2> QED
    BY <2>1, OneSaves DEF Writers, Pairs, Linux, Windows
<1>27. CASE Interrupt \/ PowerCut
  <2>1. UNCHANGED <<system, cert, key, fresh, enabled>> /\ outcome' # "installing"
    BY <1>27 DEF Interrupt, PowerCut, Errors, Stops, Plan, files, host, run, fixed
  <2>2. writes'["installer"] = <<>> /\ writes'["daemon"] \in {writes["daemon"], <<>>}
    BY <1>27 DEF Interrupt, PowerCut, Kept, Savers
  <2>3. CASE Interrupt
    BY <2>1, <2>2, <2>3 DEF Writers, Pairs, Interrupt, svc, Linux, Windows, Savers, Kept
  <2>4. CASE PowerCut
    <3>1. writes'["daemon"] = <<>> /\ daemon' \in {"due", "off"}
          /\ (Linux /\ daemon' = "due" => enabled)
      BY <2>4 DEF PowerCut, Wanted, Savers
    <3> QED
      BY <2>1, <2>2, <3>1 DEF Writers, Pairs, Linux, Windows, Savers
  <2> QED
    BY <1>27, <2>3, <2>4
<1>28. ASSUME NEW p \in Savers, Save(p)
       PROVE  Writers' /\ Pairs'
  <2> DEFINE w == writes[p]
  <2>1. /\ UNCHANGED <<system, todo, outcome, fresh, daemon, signs, enabled>>
        /\ w # <<>> /\ writes' = [writes EXCEPT ![p] = Tail(w)]
        /\ cert' = CASE Head(w) = "openCert" -> Cut [] Head(w) = "cert" -> fresh[p] [] OTHER -> cert
        /\ key' = CASE Head(w) = "openKey" -> Cut [] Head(w) = "key" -> fresh[p] [] OTHER -> key
    BY <1>28 DEF Save, fixed, run, host, svc
  <2>2. Put' = Put
    BY <2>1, Rested
  <2>3. w \in Rests /\ fresh[p] \in CA /\ fresh[p].by = p
    BY <2>1 DEF Writers, Kept
  <2>4. writes'[p] = Tail(w) /\ \A q \in Savers \ {p} : writes'[q] = <<>> /\ writes[q] = <<>>
    BY <2>1, OneSaves DEF Kept, Savers
  <2> HIDE DEF w
  <2>5. /\ Tail(w) \in Rests /\ Tail(w) # SaveSteps
        /\ \/ Head(w) = "openCert" /\ w = SaveSteps
           \/ Head(w) = "cert" /\ Tail(w) = <<"openKey", "key">>
           \/ Head(w) = "openKey" /\ w = <<"openKey", "key">> /\ Tail(w) = <<"key">>
           \/ Head(w) = "key" /\ w = <<"key">> /\ Tail(w) = <<>>
    BY <2>1, <2>3, RestFacts
  <2>6. w = SaveSteps => Tail(w) = <<"cert", "openKey", "key">>
    BY DEF SaveSteps
  <2>7. /\ Tail(w) \in {<<"openKey", "key">>, <<"key">>} => cert' = fresh[p]
        /\ Tail(w) = <<>> => key' = fresh[p] /\ cert' = fresh[p]
        /\ cert' # None /\ (Tail(w) # <<>> => key' = Cut \/ key' = key)
        /\ cert' \in CA => cert' = fresh[p] \/ cert' = cert
    <3>1. w \in {<<"openKey", "key">>, <<"key">>} => cert = fresh[p]
      BY <1>28 DEF Writers, w
    <3>2. <<"cert", "openKey", "key">> \notin {<<"openKey", "key">>, <<"key">>, <<>>}
          /\ <<"openKey", "key">> # <<>> /\ <<"key">> # <<>>
      OBVIOUS
    <3>3. CASE Head(w) = "openCert"
      BY <2>1, <2>5, <2>6, <3>2, <3>3, Authorities
    <3>4. CASE Head(w) = "cert"
      BY <2>1, <2>3, <2>5, <3>2, <3>4, Authorities
    <3>5. CASE Head(w) = "openKey"
      BY <2>1, <2>3, <2>5, <3>1, <3>2, <3>5, Authorities
    <3>6. CASE Head(w) = "key"
      BY <2>1, <2>3, <2>5, <3>1, <3>2, <3>6, Authorities
    <3> QED
      BY <2>5, <3>3, <3>4, <3>5, <3>6
  <2>8. ~Windows => key \notin CA
    BY <1>28, <2>1 DEF Pairs, w
  <2>9. p = "installer" => writes'["daemon"] = <<>>
    BY <2>4 DEF Savers
  <2>10. p = "daemon" => writes'["installer"] = <<>> /\ daemon = "boot"
    BY <2>1, <2>4 DEF Savers, Writers, w
  <2>11. Writers'
    <3>1. \A q \in Savers : writes'[q] # <<>> => q = p /\ fresh'[q] \in CA /\ fresh'[q].by = q
      BY <2>1, <2>3, <2>4
    <3>2. \A q \in Savers : writes'[q] \in {<<"openKey", "key">>, <<"key">>} => cert' = fresh'[q]
      <4>1. <<>> \notin {<<"openKey", "key">>, <<"key">>}
        OBVIOUS
      <4> QED
        BY <2>1, <2>4, <2>7, <4>1
    <3>3. writes'["daemon"] # <<>> => daemon' = "boot"
      BY <2>1, <3>1, <2>10 DEF Savers
    <3>4. writes'["installer"] # <<>> => writes["installer"] # <<>>
      BY <3>1, <2>1 DEF Savers, w
    <3> QED
      BY <2>1, <2>2, <2>7, <3>1, <3>2, <3>3, <3>4 DEF Writers, Linux, Windows
  <2>12. Pairs'
    <3>1. ASSUME ~Windows
          PROVE  /\ key' \in CA => Tail(w) = <<>> /\ cert' = key'
                 /\ \A q \in Savers : writes'[q] # <<>> => key' \notin CA
                 /\ cert' # None
                 /\ Tail(w) = <<>> => key' \in CA /\ key' = fresh[p]
      BY <2>3, <2>4, <2>7, <2>8, <3>1, Authorities
    <3>2. daemon' = "boot" /\ writes'["daemon"] = <<>> /\ ~Windows => p = "daemon" /\ Tail(w) = <<>>
      <4>1. p = "installer" /\ ~Windows => daemon # "boot"
        BY <1>28, <2>1 DEF Writers, Plan, AllSystems, Linux, Windows, w
      <4> QED
        BY <2>1, <2>4, <4>1 DEF Savers
    <3>3. ~Windows => daemon' # "on"
      <4>1. p = "installer" /\ ~Windows => daemon = "off"
        BY <1>28, <2>1 DEF Writers, Plan, AllSystems, Linux, Windows, w
      <4> QED
        BY <2>1, <2>10, <4>1 DEF Savers
    <3>4. system = "macos" => p = "daemon"
      BY <1>28, <2>1 DEF Writers, Savers, w
    <3>5. system = "macos" /\ cert' \in CA => cert'.by = "daemon"
      BY <2>3, <2>7, <3>4 DEF Pairs, Windows
    <3> QED
      BY <2>1, <3>1, <3>2, <3>3, <3>5 DEF Pairs, Windows
  <2> QED
    BY <2>11, <2>12
<1>29. ASSUME NEW p \in Savers, SaveFails(p)
       PROVE  Writers' /\ Pairs'
  <2>1. /\ UNCHANGED <<system, cert, key, fresh, signs, enabled>>
        /\ writes[p] # <<>> /\ writes' = [writes EXCEPT ![p] = <<>>]
    BY <1>29 DEF SaveFails, fixed, files, host
  <2>2. \A q \in Savers : writes'[q] = <<>>
    BY <2>1, OneSaves DEF Kept, Savers
  <2>3. SaveSteps # <<>> /\ <<>> \notin {<<"openKey", "key">>, <<"key">>}
    BY DEF SaveSteps
  <2>4. CASE p = "daemon"
    <3>1. /\ UNCHANGED <<todo, outcome>> /\ daemon' = "due" /\ daemon = "boot"
          /\ writes["installer"] = <<>>
      BY <1>29, <2>1, <2>4, OneSaves DEF SaveFails, run, Writers, Savers
    <3>2. Put' = Put
      BY <2>1, <3>1, Rested
    <3>3. Writers'
      BY <2>1, <2>2, <2>3, <3>1, <3>2 DEF Writers, Linux, Windows, Savers
    <3>4. Pairs'
      BY <2>1, <2>2, <3>1 DEF Pairs, Windows
    <3> QED
      BY <3>3, <3>4
  <2>5. CASE p = "installer"
    <3>1. UNCHANGED daemon /\ (Windows \/ outcome' = "failed")
      BY <1>29, <2>5 DEF SaveFails, Stops
    <3>2. daemon # "boot" /\ (~Windows => daemon = "off")
      BY <2>1, <2>5 DEF Writers, Plan, AllSystems, Linux, Windows
    <3>3. ~(Linux /\ outcome' = "installing")
      BY <3>1 DEF Linux, Windows
    <3>4. Writers'
      BY <2>1, <2>2, <2>3, <3>1, <3>2, <3>3 DEF Writers, Linux, Windows, Savers
    <3>5. Pairs'
      BY <2>1, <2>2, <3>1, <3>2 DEF Pairs, Windows
    <3> QED
      BY <3>4, <3>5
  <2> QED
    BY <2>4, <2>5 DEF Savers
<1> QED
  BY <1>1, <1>2, <1>3, <1>4, <1>5, <1>6, <1>7, <1>8, <1>9, <1>10, <1>11, <1>12, <1>13, <1>14, <1>15, <1>16, <1>17, <1>18, <1>19, <1>20, <1>21, <1>22, <1>23, <1>24, <1>25, <1>26, <1>27, <1>28, <1>29
     DEF Next, Install, Uninstall, DaemonStep, Savers

-----------------------------------------------------------------------------
(* Which steps belong to an installation, and which to its undoing.        *)
LEMMA MovedInstall ==
    ASSUME Plan, NEW s \in InstallSteps \ {"rmCert", "rmKey"}, Moved(s)
    PROVE  /\ outcome = "installing" /\ Installs /\ ~Uninstalls'
           /\ Head(todo) = s /\ writes["installer"] = <<>>
           /\ Installs' /\ clean' =>
                clean /\ \A x \in InstallSteps \ {"rmCert", "rmKey"} : x \in Put' <=> x \in Put \/ x = s
<1>1. Head(todo) = s /\ writes["installer"] = <<>> /\ (clean' => clean)
  BY DEF Moved, At
<1>2. outcome \in {"installing", "uninstalling"} /\ s \notin UndoSteps
  BY DEF Moved, At, Plan, InstallSteps, UndoSteps
<1>3. outcome = "installing"
  BY <1>1, <1>2, FirstUndoing DEF UndoSteps
<1> QED
  BY <1>1, <1>3 DEF Moved, Installs, Uninstalls

LEMMA MovedUndo ==
    ASSUME Plan, NEW s \in UndoSteps \ {"rmCert", "rmKey"}, Moved(s)
    PROVE  /\ outcome = "uninstalling" /\ Uninstalls /\ ~Installs'
           /\ Head(todo) = s /\ writes["installer"] = <<>>
           /\ Uninstalls' /\ clean' =>
                clean /\ \A x \in UndoSteps \ {"rmCert", "rmKey"} : x \in Gone' <=> x \in Gone \/ x = s
<1>1. Head(todo) = s /\ writes["installer"] = <<>> /\ (clean' => clean)
  BY DEF Moved, At
<1>2. outcome \in {"installing", "uninstalling"} /\ s \notin InstallSteps
  BY DEF Moved, At, Plan, InstallSteps, UndoSteps
<1>3. outcome = "uninstalling"
  BY <1>1, <1>2, Order
<1> QED
  BY <1>1, <1>3 DEF Moved, Installs, Uninstalls

(* A removal of the two files changes neither list.                        *)
LEMMA RemovalQuiet ==
    ASSUME Plan, Kept, RemoveCert \/ RemoveKey
    PROVE  /\ Windows /\ writes["installer"] = <<>>
           /\ (clean' => clean)
           /\ outcome = "installing" => "make" \notin Put /\ "trust" \notin Put /\ "start" \notin Put
           /\ Installs' => outcome = "installing"
                            /\ \A x \in InstallSteps \ {"rmCert", "rmKey"} : x \in Put' <=> x \in Put
           /\ Uninstalls' => outcome = "uninstalling"
                              /\ \A x \in UndoSteps \ {"rmCert", "rmKey"} : x \in Gone' <=> x \in Gone
<1>1. PICK s \in {"rmCert", "rmKey"} :
           At(s) /\ (clean' => clean) /\ (Moved(s) \/ (UNCHANGED outcome /\ Put' = Put /\ Gone' = Gone))
  BY RemoveCertMoves, Moves DEF Moved
<1>2. /\ Head(todo) = s /\ writes["installer"] = <<>>
      /\ outcome \in {"installing", "uninstalling"}
  BY <1>1 DEF At, Plan
<1>3. Windows
  BY <1>2, Order, FirstUndoing
<1>4. outcome = "installing" => "make" \notin Put /\ "trust" \notin Put /\ "start" \notin Put
  BY <1>2, Order
<1>5. CASE Moved(s)
  BY <1>1, <1>2, <1>3, <1>4, <1>5 DEF Moved, Installs, Uninstalls
<1>6. CASE UNCHANGED outcome /\ Put' = Put /\ Gone' = Gone
  BY <1>1, <1>2, <1>3, <1>4, <1>6 DEF Installs, Uninstalls
<1> QED
  BY <1>1, <1>5, <1>6

(* What is behind when nothing is left.                                    *)
LEMMA AllPut ==
    ASSUME Plan, outcome = "installed"
    PROVE  /\ todo = <<>>
           /\ Windows => {"open", "make", "trust", "start"} \subseteq Put
           /\ Linux => {"make", "trust", "browser", "start"} \subseteq Put
<1>1. todo = <<>> /\ Len(todo) = 0
  BY DEF Plan
<1>2. Windows => {"open", "make", "trust", "start"} \subseteq Put
  BY <1>1, BehindWindows DEF Put
<1>3. Linux => {"make", "trust", "browser", "start"} \subseteq Put
  BY <1>1, BehindLinux DEF Put
<1> QED
  BY <1>1, <1>2, <1>3

LEMMA AllGone ==
    ASSUME Plan, outcome = "uninstalled"
    PROVE  /\ todo = <<>>
           /\ {"stop", "rmRoute", "untrust"} \subseteq Gone
           /\ Windows => "delete" \in Gone
           /\ ~Windows => {"rmUnit", "rmBinary"} \subseteq Gone
           /\ Linux => {"disable", "rmBrowser"} \subseteq Gone
<1>1. todo = <<>> /\ Len(todo) = 0
  BY DEF Plan
<1>2. Gone = {Uninstalling[i] : i \in 1..Len(Uninstalling)}
  BY <1>1, ListsTyped DEF Gone, Behind
<1>3. CASE Windows
  <2>1. Uninstalling = <<"rmRoute", "untrust", "rmCert", "find", "stop", "delete">>
    BY <1>3 DEF Uninstalling, Windows, Linux
  <2>2. /\ Len(Uninstalling) = 6 /\ Uninstalling[1] = "rmRoute" /\ Uninstalling[2] = "untrust"
        /\ Uninstalling[5] = "stop" /\ Uninstalling[6] = "delete"
    BY <2>1
  <2>3. ~Linux
    BY <1>3 DEF Linux, Windows
  <2> QED
    BY <1>1, <1>2, <1>3, <2>2, <2>3
<1>4. CASE Linux
  <2>1. Uninstalling = <<"stop", "disable", "rmUnit", "rmRoute", "untrust", "rmBrowser", "rmBinary">>
    BY <1>4 DEF Uninstalling, Windows, Linux
  <2>2. /\ Len(Uninstalling) = 7 /\ Uninstalling[1] = "stop" /\ Uninstalling[2] = "disable"
        /\ Uninstalling[3] = "rmUnit" /\ Uninstalling[4] = "rmRoute" /\ Uninstalling[5] = "untrust"
        /\ Uninstalling[6] = "rmBrowser" /\ Uninstalling[7] = "rmBinary"
    BY <2>1
  <2>3. ~Windows
    BY <1>4 DEF Linux, Windows
  <2> QED
    BY <1>1, <1>2, <2>2, <2>3
<1>5. CASE ~Windows /\ ~Linux
  <2>1. Uninstalling = <<"stop", "rmUnit", "rmRoute", "untrust", "rmBinary">>
    BY <1>5 DEF Uninstalling, Windows, Linux
  <2>2. /\ Len(Uninstalling) = 5 /\ Uninstalling[1] = "stop" /\ Uninstalling[2] = "rmUnit"
        /\ Uninstalling[3] = "rmRoute" /\ Uninstalling[4] = "untrust" /\ Uninstalling[5] = "rmBinary"
    BY <2>1
  <2> QED
    BY <1>1, <1>2, <1>5, <2>2
<1> QED
  BY <1>3, <1>4, <1>5

-----------------------------------------------------------------------------
(* The stores of Linux: what is trusted is the certificate of the file, and *)
(* only the daemon puts another one there afterwards.                      *)
LEMMA TrustRested ==
    ASSUME TrustedLinux, UNCHANGED <<system, nss, store, browser>>,
           cert' = cert \/ cert'.by # "installer",
           Installs' /\ clean' =>
              Installs /\ clean /\ ("trust" \in Put' => "trust" \in Put)
                                /\ ("browser" \in Put' => "browser" \in Put)
    PROVE  TrustedLinux'
BY DEF TrustedLinux, Linux

LEMMA TrustMoved ==
    ASSUME Plan, TrustedLinux, NEW s \in InstallSteps \ {"rmCert", "rmKey", "trust", "browser"},
           Moved(s), UNCHANGED <<system, nss, store, browser, cert>>
    PROVE  TrustedLinux'
<1>1. Installs' /\ clean' =>
         clean /\ \A x \in InstallSteps \ {"rmCert", "rmKey"} : x \in Put' <=> x \in Put \/ x = s
  BY MovedInstall
<1>2. Installs /\ s # "trust" /\ s # "browser"
      /\ "trust" \in InstallSteps \ {"rmCert", "rmKey"}
      /\ "browser" \in InstallSteps \ {"rmCert", "rmKey"}
  BY MovedInstall DEF InstallSteps
<1>3. Installs' /\ clean' =>
         Installs /\ clean /\ ("trust" \in Put' => "trust" \in Put)
                           /\ ("browser" \in Put' => "browser" \in Put)
  BY <1>1, <1>2, Zenon
<1> QED
  BY <1>3, TrustRested

LEMMA TrustUndone == ~Installs' => TrustedLinux'
BY DEF TrustedLinux

LEMMA NextTrustedLinux ==
    Plan /\ Kept /\ Writers /\ Pairs /\ TrustedLinux /\ [Next]_vars => TrustedLinux'
<1> SUFFICES ASSUME Plan, Kept, Writers, Pairs, TrustedLinux, [Next]_vars
             PROVE  TrustedLinux'
  OBVIOUS
<1>1. CASE Copy
  <2>1. UNCHANGED <<system, nss, store, browser, cert>>
    BY <1>1 DEF Copy, files, trust, fixed
  <2> QED
    BY <1>1, <2>1, Moves, TrustMoved DEF InstallSteps
<1>2. CASE WriteUnit
  <2>1. UNCHANGED <<system, nss, store, browser, cert>>
    BY <1>2 DEF WriteUnit, files, trust, fixed
  <2> QED
    BY <1>2, <2>1, Moves, TrustMoved DEF InstallSteps
<1>3. CASE OpenService
  <2>1. UNCHANGED <<system, nss, store, browser, cert>>
    BY <1>3 DEF OpenService, files, trust, fixed
  <2> QED
    BY <1>3, <2>1, Moves, TrustMoved DEF InstallSteps
<1>4. CASE CreateService
  <2>1. UNCHANGED <<system, nss, store, browser, cert>>
    BY <1>4 DEF CreateService, files, trust, fixed
  <2> QED
    BY <1>4, <2>1, Moves, TrustMoved DEF InstallSteps
<1>5. CASE CleanupOldCerts
  <2>1. ~Linux'
    <3>1. Head(todo) = "clear" /\ outcome = "installing"
      BY <1>5, Moves, MovedInstall DEF InstallSteps
    <3> QED
      BY <1>5, <3>1, Order, SameLists DEF CleanupOldCerts, fixed, Linux, Windows
  <2> QED
    BY <2>1 DEF TrustedLinux
<1>6. CASE MakeCA
  <2>1. UNCHANGED <<system, nss, store, browser, cert>>
    BY <1>6 DEF MakeCA, files, trust, fixed
  <2> QED
    BY <1>6, <2>1, Moves, TrustMoved DEF InstallSteps
<1>7. CASE AddRoute
  <2>1. UNCHANGED <<system, nss, store, browser, cert>>
    BY <1>7 DEF AddRoute, files, trust, fixed
  <2> QED
    BY <1>7, <2>1, Moves, TrustMoved DEF InstallSteps
<1>8. CASE Enable
  <2>1. UNCHANGED <<system, nss, store, browser, cert>>
    BY <1>8 DEF Enable, files, trust, fixed
  <2> QED
    BY <1>8, <2>1, Moves, TrustMoved DEF InstallSteps
<1>9. CASE StartService
  <2>1. UNCHANGED <<system, nss, store, browser, cert>>
    BY <1>9 DEF StartService, files, trust, host, fixed
  <2> QED
    BY <1>9, <2>1, Moves, TrustMoved DEF InstallSteps
<1>10. CASE RemoveCert \/ RemoveKey
  <2>1. ~Linux'
    BY <1>10, RemovalQuiet, SameLists DEF RemoveCert, RemoveKey, fixed, Linux, Windows
  <2> QED
    BY <2>1 DEF TrustedLinux
<1>11. CASE InstallCA
  <2>1. Moved("trust") /\ UNCHANGED <<system, nss, cert, browser>>
    BY <1>11, Moves DEF InstallCA, files, fixed
  <2>2. /\ Installs
        /\ Installs' /\ clean' => clean /\ ("browser" \in Put' => "browser" \in Put)
    BY <2>1, MovedInstall DEF InstallSteps
  <2>3. ASSUME Linux, Installs', clean', cert.by = "installer", system # "otherLinux"
        PROVE  cert \in store'
    <3>1. cert \in CA /\ cert # None
      BY <2>3, Authorities DEF Kept
    <3>2. ~Warns /\ ~Errors
      BY <2>3 DEF Warns, Goes, Errors, Stops, Installs
    <3>3. TrustLinux
      BY <1>11, <2>3 DEF InstallCA, TrustMac, InstallToStore, Linux, Windows
    <3> QED
      BY <3>1, <3>2, <3>3 DEF TrustLinux
  <2>4. (Linux' <=> Linux)
    BY <2>1, SameLists
  <2> QED
    BY <2>1, <2>2, <2>3, <2>4 DEF TrustedLinux
<1>12. CASE InstallNSSCert
  <2>1. Moved("browser") /\ UNCHANGED <<system, nss, cert, store>>
    BY <1>12, Moves DEF InstallNSSCert, files, fixed
  <2>2. /\ Installs
        /\ Installs' /\ clean' => clean /\ ("trust" \in Put' => "trust" \in Put)
    BY <2>1, MovedInstall DEF InstallSteps
  <2>3. ASSUME Installs', clean', cert.by = "installer", nss
        PROVE  cert \in browser'
    <3>1. cert \in CA /\ cert # None /\ cert # Cut
      BY <2>3, Authorities DEF Kept
    <3>2. ~Warns
      BY <2>3 DEF Warns, Goes
    <3> QED
      BY <1>12, <2>3, <3>1, <3>2 DEF InstallNSSCert
  <2>4. (Linux' <=> Linux)
    BY <2>1, SameLists
  <2> QED
    BY <2>1, <2>2, <2>3, <2>4 DEF TrustedLinux
<1>13. CASE Uninstall
  BY <1>13, Moves, MovedUndo, TrustUndone DEF Uninstall, UndoSteps
<1>14. CASE Begin
  <2>1. (outcome' = "installing" /\ Put' = {}) \/ ~Installs'
    BY <1>14, Beginning DEF Installs
  <2> QED
    BY <2>1 DEF TrustedLinux
<1>15. CASE Boot \/ Ready \/ Vanish \/ UNCHANGED vars
  <2>1. UNCHANGED <<system, nss, todo, outcome, clean, cert, store, browser>>
    BY <1>15 DEF Boot, Ready, Vanish, vars, files, trust, run, fixed
  <2> QED
    BY <2>1, Rested, TrustRested DEF Installs
<1>16. CASE Save("daemon")
  <2>1. UNCHANGED <<system, nss, todo, outcome, clean, store, browser>>
    BY <1>16 DEF Save, trust, run, fixed
  <2>2. fresh["daemon"].by = "daemon"
    BY <1>16 DEF Save, Writers, Savers
  <2>3. cert' = cert \/ cert' = Cut \/ cert' = fresh["daemon"]
    BY <1>16 DEF Save
  <2>4. cert' = cert \/ cert'.by # "installer"
    BY <2>2, <2>3, Authorities
  <2> QED
    BY <2>1, <2>4, Rested, TrustRested DEF Installs
<1>17. CASE Save("installer")
  <2>1. UNCHANGED <<system, todo, outcome>>
    BY <1>17 DEF Save, run, fixed
  <2>2. "trust" \notin Put /\ "browser" \notin Put
    BY <1>17 DEF Save, Writers
  <2> QED
    BY <2>1, <2>2, Rested DEF TrustedLinux
<1>18. ASSUME NEW p \in Savers, SaveFails(p)
       PROVE  TrustedLinux'
  <2>1. UNCHANGED <<system, nss, cert, store, browser>>
    BY <1>18 DEF SaveFails, files, trust, fixed
  <2>2. CASE UNCHANGED run
    BY <2>1, <2>2, Rested, TrustRested DEF run, Installs
  <2>3. CASE clean' = FALSE
    BY <2>3 DEF TrustedLinux
  <2> QED
    BY <1>18, <2>2, <2>3 DEF SaveFails, Stops
<1>19. CASE Halt
  BY <1>19, TrustUndone DEF Halt, Installs
<1>20. CASE Interrupt \/ PowerCut
  <2>1. UNCHANGED <<system, nss, cert, store, browser>>
    BY <1>20 DEF Interrupt, PowerCut, files, trust, fixed
  <2>2. CASE UNCHANGED run
    BY <2>1, <2>2, Rested, TrustRested DEF run, Installs
  <2>3. CASE outcome' = "failed"
    BY <2>3, TrustUndone DEF Installs
  <2> QED
    BY <1>20, <2>2, <2>3 DEF Interrupt, PowerCut, Errors, Stops
<1> QED
  BY <1>1, <1>2, <1>3, <1>4, <1>5, <1>6, <1>7, <1>8, <1>9, <1>10, <1>11, <1>12, <1>13, <1>14, <1>15, <1>16, <1>17, <1>18, <1>19, <1>20
     DEF Next, Install, DaemonStep, Savers

-----------------------------------------------------------------------------
(* Windows: the service is there once it is created, it is started after   *)
(* its certificate is trusted, and signs with what it finds in the file.   *)
LEMMA WindowsRested ==
    ASSUME TrustedWindows, UNCHANGED <<system, cert, key, store, signs, unit, daemon, writes>>,
           outcome' = "installing" /\ "create" \in Put' => outcome = "installing" /\ "create" \in Put,
           Installs' /\ clean' =>
              /\ Installs /\ clean
              /\ "make" \in Put' => "make" \in Put
              /\ "trust" \in Put' => "trust" \in Put
              /\ "open" \in Put' => "open" \in Put
              /\ "start" \in Put => "start" \in Put'
    PROVE  TrustedWindows'
BY DEF TrustedWindows, Windows

LEMMA WindowsMoved ==
    ASSUME Plan, TrustedWindows,
           NEW s \in InstallSteps \ {"rmCert", "rmKey", "open", "create", "make", "trust"},
           Moved(s), UNCHANGED <<system, cert, key, store, signs, unit, daemon, writes>>
    PROVE  TrustedWindows'
<1>1. /\ outcome = "installing" /\ Installs /\ ~Uninstalls'
      /\ Installs' /\ clean' =>
           clean /\ \A x \in InstallSteps \ {"rmCert", "rmKey"} : x \in Put' <=> x \in Put \/ x = s
  BY MovedInstall
<1>2. /\ s # "open" /\ s # "create" /\ s # "make" /\ s # "trust"
      /\ "open" \in InstallSteps \ {"rmCert", "rmKey"}
      /\ "create" \in InstallSteps \ {"rmCert", "rmKey"}
      /\ "make" \in InstallSteps \ {"rmCert", "rmKey"}
      /\ "trust" \in InstallSteps \ {"rmCert", "rmKey"}
      /\ "start" \in InstallSteps \ {"rmCert", "rmKey"}
  BY DEF InstallSteps
<1>3. outcome' = "installing" =>
         \A x \in InstallSteps \ {"rmCert", "rmKey"} : x \in Put' <=> x \in Put \/ x = s
  BY <1>1 DEF Moved
<1>4. outcome' = "installing" /\ "create" \in Put' => outcome = "installing" /\ "create" \in Put
  BY <1>1, <1>2, <1>3, Zenon
<1>5. Installs' /\ clean' =>
         /\ Installs /\ clean
         /\ "make" \in Put' => "make" \in Put
         /\ "trust" \in Put' => "trust" \in Put
         /\ "open" \in Put' => "open" \in Put
         /\ "start" \in Put => "start" \in Put'
  BY <1>1, <1>2, Zenon
<1> QED
  BY <1>4, <1>5, WindowsRested

LEMMA WindowsUndone ==
    ASSUME ~Installs', Windows' /\ unit' = "none" => daemon' = "off"
    PROVE  TrustedWindows'
BY DEF TrustedWindows, Installs

LEMMA ElsewhereTrusted ==
    ASSUME ~Windows, system' = system
    PROVE  TrustedWindows'
BY SameLists DEF TrustedWindows

(* The daemon of a clean installation comes after everything else.         *)
LEMMA DaemonLast ==
    ASSUME Plan, Writers, TrustedWindows, Windows, Installs, clean, "open" \in Put, daemon # "off"
    PROVE  /\ "start" \in Put /\ "trust" \in Put /\ "make" \in Put
           /\ writes["installer"] = <<>> /\ cert = key /\ Loads
<1>1. "start" \in Put /\ "trust" \in Put /\ "make" \in Put
  BY OrderWindows DEF TrustedWindows
<1>2. writes["installer"] = <<>>
  BY <1>1 DEF Writers
<1> QED
  BY <1>1, <1>2 DEF TrustedWindows, Loads

LEMMA WindowsInstall ==
    Plan /\ Kept /\ Writers /\ TrustedWindows /\ Install => TrustedWindows'
<1> SUFFICES ASSUME Plan, Kept, Writers, TrustedWindows, Install, Windows
             PROVE  TrustedWindows'
  <2>1. Install => system' = system
    BY DEF Install, Copy, WriteUnit, OpenService, CreateService, CleanupOldCerts, RemoveCert, RemoveKey,
           MakeCA, InstallCA, InstallNSSCert, AddRoute, Enable, StartService, fixed
  <2> QED
    BY <2>1, ElsewhereTrusted
<1>0. /\ "open" \in InstallSteps \ {"rmCert", "rmKey"}
      /\ "create" \in InstallSteps \ {"rmCert", "rmKey"}
      /\ "make" \in InstallSteps \ {"rmCert", "rmKey"}
      /\ "trust" \in InstallSteps \ {"rmCert", "rmKey"}
      /\ "start" \in InstallSteps \ {"rmCert", "rmKey"}
  BY DEF InstallSteps
<1>1. CASE Copy \/ WriteUnit \/ InstallNSSCert \/ Enable
  <2>1. PICK s \in {"copy", "unit", "browser", "enable"} : Moved(s)
    BY <1>1, Moves
  <2>2. Head(todo) = s /\ outcome = "installing"
    BY <2>1, MovedInstall DEF InstallSteps
  <2> QED
    BY <2>2, Order DEF Linux, Windows
<1>2. CASE AddRoute
  <2>1. UNCHANGED <<system, cert, key, store, signs, unit, daemon, writes>>
    BY <1>2 DEF AddRoute, files, saving, trust, svc, fixed
  <2> QED
    BY <1>2, <2>1, Moves, WindowsMoved DEF InstallSteps
<1>3. CASE OpenService
  <2>1. Moved("open") /\ Head(todo) = "open" /\ outcome = "installing" /\ Installs
    BY <1>3, Moves, MovedInstall, <1>0
  <2>2. UNCHANGED <<system, cert, key, store, signs, daemon, writes>>
    BY <1>3 DEF OpenService, files, saving, trust, svc, fixed
  <2>3. "open" \notin Put /\ "create" \notin Put /\ "make" \notin Put /\ "trust" \notin Put
    BY <2>1, Order
  <2>4. Installs' => "create" \notin Put'
    BY <1>0, <2>1, <2>3 DEF Moved, Installs
  <2>5. Installs' /\ clean' => "make" \notin Put' /\ "trust" \notin Put'
    BY <1>0, <2>1, <2>3, MovedInstall
  <2>6. unit' = "none" => daemon = "off"
    BY <1>3 DEF OpenService, TrustedWindows
  <2>7. Installs' => daemon = "off"
    BY <1>3, <2>6 DEF OpenService, Refuses, Errors, Stops, Installs, TrustedWindows
  <2> QED
    BY <2>2, <2>4, <2>5, <2>6, <2>7 DEF TrustedWindows, Installs
<1>4. CASE CreateService
  <2>1. Moved("create") /\ Head(todo) = "create" /\ outcome = "installing" /\ Installs
    BY <1>4, Moves, MovedInstall, <1>0
  <2>2. UNCHANGED <<system, cert, key, store, signs, daemon, writes>>
    BY <1>4 DEF CreateService, files, saving, trust, svc, fixed
  <2>3. "make" \notin Put /\ "trust" \notin Put
    BY <2>1, Order
  <2>4. Installs' => unit' = "there"
    BY <1>4 DEF CreateService, Refuses, Errors, Stops, Installs
  <2>5. unit' = "none" => daemon = "off"
    BY <1>4 DEF CreateService, TrustedWindows
  <2>6. Installs' /\ clean' =>
           /\ clean /\ "make" \notin Put' /\ "trust" \notin Put'
           /\ "open" \in Put' => "open" \in Put
           /\ "start" \in Put => "start" \in Put'
    BY <1>0, <2>1, <2>3, MovedInstall
  <2> QED
    BY <2>1, <2>2, <2>4, <2>5, <2>6 DEF TrustedWindows, Installs
<1>5. CASE CleanupOldCerts
  <2>1. Moved("clear") /\ Head(todo) = "clear" /\ outcome = "installing" /\ Installs
    BY <1>5, Moves, MovedInstall DEF InstallSteps
  <2>2. UNCHANGED <<system, cert, key, signs, unit, daemon, writes>>
    BY <1>5 DEF CleanupOldCerts, files, saving, host, svc, fixed
  <2>3. "make" \notin Put /\ "trust" \notin Put
    BY <2>1, Order
  <2>4. Installs' /\ clean' =>
           /\ clean /\ "make" \notin Put' /\ "trust" \notin Put'
           /\ "open" \in Put' => "open" \in Put
           /\ "start" \in Put => "start" \in Put'
    BY <1>0, <2>1, <2>3, MovedInstall DEF InstallSteps
  <2>5. outcome' = "installing" /\ "create" \in Put' => "create" \in Put
    BY <1>0, <2>1 DEF Moved
  <2> QED
    BY <2>1, <2>2, <2>4, <2>5 DEF TrustedWindows, Windows
<1>6. CASE RemoveCert \/ RemoveKey
  <2>1. UNCHANGED <<system, signs, unit, daemon, writes, store>>
    BY <1>6 DEF RemoveCert, RemoveKey, saving, trust, host, svc, fixed
  <2>2. /\ clean' => clean
        /\ outcome = "installing" => "make" \notin Put /\ "trust" \notin Put /\ "start" \notin Put
        /\ Installs' => outcome = "installing"
                         /\ \A x \in InstallSteps \ {"rmCert", "rmKey"} : x \in Put' <=> x \in Put
    BY <1>6, RemovalQuiet
  <2>3. Installs' => /\ Installs /\ outcome = "installing"
                     /\ "make" \notin Put' /\ "trust" \notin Put' /\ "start" \notin Put
                     /\ "create" \in Put' <=> "create" \in Put
                     /\ "open" \in Put' <=> "open" \in Put
    BY <1>0, <2>2 DEF Installs
  <2>4. Installs' /\ clean' /\ "open" \in Put' => daemon = "off"
    BY <2>2, <2>3 DEF TrustedWindows
  <2> QED
    BY <2>1, <2>2, <2>3, <2>4 DEF TrustedWindows, Windows, Installs
<1>7. CASE MakeCA
  <2>1. Moved("make") /\ Head(todo) = "make" /\ outcome = "installing" /\ Installs
    BY <1>7, Moves, MovedInstall, <1>0
  <2>2. UNCHANGED <<system, cert, key, store, signs, unit, daemon>>
    BY <1>7 DEF MakeCA, files, trust, host, svc, fixed
  <2>3. writes'["installer"] # <<>>
    BY <1>7 DEF MakeCA, Generate, Kept, Savers, SaveSteps
  <2>4. Installs' /\ clean' =>
           /\ clean /\ "trust" \notin Put'
           /\ "open" \in Put' => "open" \in Put
           /\ "start" \in Put => "start" \in Put'
    <3>1. "trust" \notin Put
      BY <2>1, Order
    <3> QED
      BY <1>0, <2>1, <3>1, MovedInstall
  <2>5. outcome' = "installing" /\ "create" \in Put' => "create" \in Put
    BY <1>0, <2>1 DEF Moved
  <2> QED
    BY <2>1, <2>2, <2>3, <2>4, <2>5 DEF TrustedWindows, Windows
<1>8. CASE InstallCA
  <2>1. /\ Moved("trust") /\ Head(todo) = "trust" /\ outcome = "installing" /\ Installs
        /\ writes["installer"] = <<>>
    BY <1>8, Moves, MovedInstall, <1>0
  <2>2. UNCHANGED <<system, cert, key, writes, signs, unit, daemon>>
    BY <1>8 DEF InstallCA, files, saving, host, svc, fixed
  <2>3. Installs' /\ clean' =>
           /\ clean
           /\ "make" \in Put' => "make" \in Put
           /\ "open" \in Put' => "open" \in Put
           /\ "start" \in Put => "start" \in Put'
    BY <1>0, <2>1, MovedInstall
  <2>4. outcome' = "installing" /\ "create" \in Put' => "create" \in Put
    BY <1>0, <2>1 DEF Moved
  <2>5. clean' => cert \in store'
    BY <1>8 DEF InstallCA, TrustLinux, TrustMac, InstallToStore, Warns, Goes, Windows
  <2> QED
    BY <2>1, <2>2, <2>3, <2>4, <2>5 DEF TrustedWindows, Windows
<1>9. CASE StartService
  <2>1. Moved("start") /\ Head(todo) = "start" /\ outcome = "installing" /\ Installs
    BY <1>9, Moves, MovedInstall, <1>0
  <2>2. UNCHANGED <<system, cert, key, store, signs, unit, writes>>
        /\ (daemon' = daemon \/ (daemon = "off" /\ daemon' = "due"))
    BY <1>9 DEF StartService, files, saving, trust, host, fixed
  <2>3. unit = "there"
    BY <2>1, Order DEF TrustedWindows
  <2>4. Installs' /\ clean' =>
           /\ clean /\ "start" \in Put'
           /\ "make" \in Put' => "make" \in Put
           /\ "trust" \in Put' => "trust" \in Put
           /\ "open" \in Put' => "open" \in Put
    BY <1>0, <2>1, MovedInstall
  <2> QED
    BY <2>1, <2>2, <2>3, <2>4 DEF TrustedWindows, Windows
<1> QED
  BY <1>1, <1>2, <1>3, <1>4, <1>5, <1>6, <1>7, <1>8, <1>9 DEF Install

LEMMA NextTrustedWindows ==
    Plan /\ Kept /\ Writers /\ Pairs /\ TrustedWindows /\ [Next]_vars => TrustedWindows'
<1> SUFFICES ASSUME Plan, Kept, Writers, Pairs, TrustedWindows, [Next]_vars
             PROVE  TrustedWindows'
  OBVIOUS
<1>1. CASE Install
  BY <1>1, WindowsInstall
<1>2. CASE Uninstall
  <2>1. ~Installs' /\ system' = system
    BY <1>2, Moves, MovedUndo DEF Uninstall, UndoSteps, StopService, Disable, RemoveUnit,
       RemoveRoute, UninstallCA, UninstallNSSCert, RemoveBinary, FindService, DeleteService, fixed
  <2>2. CASE StopService
    <3>1. unit' = unit /\ daemon' \in {"off", daemon}
      BY <2>2 DEF StopService, host, svc
    <3> QED
      BY <2>1, <3>1, WindowsUndone DEF TrustedWindows, Windows
  <2>3. CASE RemoveUnit
    <3>1. ~Windows
      BY <2>3, Moves, MovedUndo, FirstUndoing DEF UndoSteps
    <3> QED
      BY <2>1, <3>1, ElsewhereTrusted
  <2>4. CASE DeleteService
    <3>1. unit' = "marked" \/ (unit' = unit /\ daemon' = daemon)
      BY <2>4 DEF DeleteService, svc
    <3> QED
      BY <2>1, <3>1, WindowsUndone DEF TrustedWindows, Windows
  <2>5. CASE Disable \/ RemoveRoute \/ UninstallCA \/ UninstallNSSCert \/ RemoveBinary \/ FindService
    <3>1. unit' = unit /\ daemon' = daemon
      BY <2>5 DEF Disable, RemoveRoute, UninstallCA, UninstallNSSCert, RemoveBinary, FindService,
         host, svc
    <3> QED
      BY <2>1, <3>1, WindowsUndone DEF TrustedWindows, Windows
  <2> QED
    BY <1>2, <2>2, <2>3, <2>4, <2>5 DEF Uninstall
<1>3. CASE Begin
  <2>1. UNCHANGED <<system, cert, key, store, signs, unit, daemon, writes>>
    BY <1>3 DEF Begin, files, saving, trust, host, svc
  <2>2. (outcome' = "installing" /\ Put' = {}) \/ ~Installs'
    BY <1>3, Beginning DEF Installs
  <2> QED
    BY <2>1, <2>2 DEF TrustedWindows, Windows, Installs
<1>4. CASE Boot
  <2>1. UNCHANGED <<system, todo, outcome, clean, cert, key, store, unit>> /\ daemon = "due"
    BY <1>4 DEF Boot, files, trust, host, run, fixed
  <2>2. Windows => daemon' = "on" /\ signs' = (IF Loads THEN cert ELSE None) /\ writes' = writes
    BY <1>4 DEF Boot, saving
  <2>3. Put' = Put /\ Gone' = Gone
    BY <2>1, Rested
  <2>4. Windows /\ Installs /\ clean /\ "open" \in Put => "start" \in Put /\ Loads
    BY <2>1, DaemonLast
  <2> QED
    BY <2>1, <2>2, <2>3, <2>4 DEF TrustedWindows, Windows, Installs
<1>5. CASE Ready
  BY <1>5, ElsewhereTrusted DEF Ready, Writers, fixed
<1>6. CASE Save("daemon")
  BY <1>6, ElsewhereTrusted DEF Save, Writers, Savers, fixed
<1>7. CASE Save("installer")
  <2>1. UNCHANGED <<system, todo, outcome, clean, store, signs, unit, daemon>>
    BY <1>7 DEF Save, trust, host, svc, run, fixed
  <2>2. Put' = Put /\ "trust" \notin Put /\ outcome = "installing"
    BY <1>7, <2>1, Rested DEF Save, Writers
  <2>3. Windows /\ Installs /\ clean /\ "open" \in Put => daemon = "off"
    BY <2>2, DaemonLast
  <2>4. writes'["installer"] = <<>> => cert' = key' /\ cert' \in CA
    <3> DEFINE w == writes["installer"]
    <3>1. /\ w # <<>> /\ writes'["installer"] = Tail(w)
          /\ cert' = CASE Head(w) = "openCert" -> Cut
                       [] Head(w) = "cert" -> fresh["installer"] [] OTHER -> cert
          /\ key' = CASE Head(w) = "openKey" -> Cut
                      [] Head(w) = "key" -> fresh["installer"] [] OTHER -> key
      BY <1>7 DEF Save, Kept, Savers
    <3>2. /\ w \in Rests /\ fresh["installer"] \in CA
          /\ w = <<"key">> => cert = fresh["installer"]
      BY <3>1 DEF Kept, Writers, Savers
    <3>3. SaveSteps = <<"openCert", "cert", "openKey", "key">>
      BY DEF SaveSteps
    <3> HIDE DEF w
    <3>4. Tail(w) = <<>> => w = <<"key">> /\ Head(w) = "key"
      <4>1. \/ w = SaveSteps \/ w = <<"cert", "openKey", "key">>
            \/ w = <<"openKey", "key">> \/ w = <<"key">>
        BY <3>1, <3>2 DEF Rests
      <4>2. /\ Tail(SaveSteps) # <<>> /\ Tail(<<"cert", "openKey", "key">>) # <<>>
            /\ Tail(<<"openKey", "key">>) # <<>> /\ Head(<<"key">>) = "key"
        BY <3>3
      <4> QED
        BY <4>1, <4>2, Zenon
    <3> QED
      BY <3>1, <3>2, <3>4
  <2> QED
    BY <2>1, <2>2, <2>3, <2>4 DEF TrustedWindows, Windows, Installs
<1>8. ASSUME NEW p \in Savers, SaveFails(p)
      PROVE  TrustedWindows'
  <2>2. CASE p = "daemon"
    BY <1>8, <2>2, ElsewhereTrusted DEF SaveFails, Writers, Savers, fixed
  <2>3. CASE p = "installer" /\ Windows
    <3>1. UNCHANGED <<system, unit, daemon, todo, outcome>> /\ ~clean'
      BY <1>8, <2>3 DEF SaveFails, host, fixed
    <3>2. Put' = Put
      BY <3>1, Rested
    <3> QED
      BY <3>1, <3>2 DEF TrustedWindows, Windows
  <2>4. CASE ~Windows
    BY <1>8, <2>4, ElsewhereTrusted DEF SaveFails, fixed
  <2> QED
    BY <2>2, <2>3, <2>4 DEF Savers
<1>9. CASE Halt
  BY <1>9, WindowsUndone DEF Halt, Installs
<1>10. CASE Vanish
  <2>1. UNCHANGED <<system, todo, outcome, clean, cert, key, store, signs, daemon, writes>>
        /\ unit = "marked" /\ daemon = "off"
    BY <1>10 DEF Vanish, files, saving, trust, svc, run, fixed
  <2>2. Put' = Put
    BY <2>1, Rested
  <2> QED
    BY <2>1, <2>2 DEF TrustedWindows, Windows, Installs
<1>11. CASE Interrupt
  BY <1>11, WindowsUndone DEF Interrupt, Errors, Stops, Installs, TrustedWindows, Windows, host, svc, fixed
<1>12. CASE PowerCut
  <2>1. UNCHANGED <<system, cert, key, store>> /\ (Windows /\ unit' = "none" => daemon' = "off")
        /\ (Windows' <=> Windows)
    BY <1>12 DEF PowerCut, Wanted, files, trust, fixed, Windows
  <2>2. CASE outcome' = "failed"
    BY <2>1, <2>2, WindowsUndone DEF Installs
  <2>3. CASE todo = <<>> /\ UNCHANGED run
    <3>1. Put' = Put /\ outcome # "installing" /\ UNCHANGED <<outcome, clean>>
      BY <2>1, <2>3, Rested DEF run, Plan
    <3>2. Windows /\ Installs => "start" \in Put
      BY <3>1, AllPut DEF Installs
    <3>3. writes["installer"] = <<>> /\ daemon' # "on"
      BY <1>12, <2>3, OneSaves DEF PowerCut
    <3> QED
      BY <2>1, <3>1, <3>2, <3>3 DEF TrustedWindows, Installs
  <2> QED
    BY <1>12, <2>2, <2>3 DEF PowerCut, Stops
<1>13. CASE UNCHANGED vars
  <2>1. UNCHANGED <<system, todo, outcome, clean, cert, key, store, signs, unit, daemon, writes>>
    BY <1>13 DEF vars
  <2> QED
    BY <2>1, Rested, WindowsRested DEF Installs
<1> QED
  BY <1>1, <1>2, <1>3, <1>4, <1>5, <1>6, <1>7, <1>8, <1>9, <1>10, <1>11, <1>12, <1>13
     DEF Next, DaemonStep, Savers

-----------------------------------------------------------------------------
(* What has been undone stays undone: the service is neither started nor   *)
(* wanted any more, and nothing else is put back by an undoing.            *)
LEMMA UndoneRested ==
    ASSUME Undone, UNCHANGED <<enabled, binary, route, store, browser, nss>>,
           daemon' = daemon \/ daemon # "off",
           unit' = unit \/ unit' = "none",
           Uninstalls' /\ clean' =>
              Uninstalls /\ clean /\ \A x \in UndoSteps \ {"rmCert", "rmKey"} : x \in Gone' => x \in Gone
    PROVE  Undone'
<1>1. /\ "stop" \in UndoSteps \ {"rmCert", "rmKey"} /\ "disable" \in UndoSteps \ {"rmCert", "rmKey"}
      /\ "rmUnit" \in UndoSteps \ {"rmCert", "rmKey"} /\ "delete" \in UndoSteps \ {"rmCert", "rmKey"}
      /\ "rmBinary" \in UndoSteps \ {"rmCert", "rmKey"} /\ "rmRoute" \in UndoSteps \ {"rmCert", "rmKey"}
      /\ "untrust" \in UndoSteps \ {"rmCert", "rmKey"} /\ "rmBrowser" \in UndoSteps \ {"rmCert", "rmKey"}
  BY DEF UndoSteps
<1> QED
  BY <1>1 DEF Undone

LEMMA Failed == ~Uninstalls' => Undone'
BY DEF Undone

LEMMA NextUndone == Plan /\ Kept /\ Writers /\ Undone /\ [Next]_vars => Undone'
<1> SUFFICES ASSUME Plan, Kept, Writers, Undone, [Next]_vars
             PROVE  Undone'
  OBVIOUS
<1>1. CASE Install
  <2>1. CASE RemoveCert
    <3>1. UNCHANGED <<enabled, binary, route, store, browser, nss, daemon, unit>>
      BY <2>1 DEF RemoveCert, trust, host, svc, fixed
    <3> QED
      BY <2>1, <3>1, RemovalQuiet, UndoneRested DEF Uninstalls
  <2>2. CASE RemoveKey
    <3>1. UNCHANGED <<enabled, binary, route, store, browser, nss, daemon, unit>>
      BY <2>2 DEF RemoveKey, trust, host, svc, fixed
    <3> QED
      BY <2>2, <3>1, RemovalQuiet, UndoneRested DEF Uninstalls
  <2>3. CASE ~RemoveCert /\ ~RemoveKey
    BY <1>1, <2>3, Moves, MovedInstall, Failed DEF Install, InstallSteps
  <2> QED
    BY <2>1, <2>2, <2>3
<1>2. ASSUME NEW s \in UndoSteps \ {"rmCert", "rmKey"}, Moved(s)
      PROVE  Uninstalls' /\ clean' =>
                /\ Uninstalls /\ clean
                /\ "stop" \in Gone' <=> "stop" \in Gone \/ s = "stop"
                /\ "disable" \in Gone' <=> "disable" \in Gone \/ s = "disable"
                /\ "rmUnit" \in Gone' <=> "rmUnit" \in Gone \/ s = "rmUnit"
                /\ "delete" \in Gone' <=> "delete" \in Gone \/ s = "delete"
                /\ "rmBinary" \in Gone' <=> "rmBinary" \in Gone \/ s = "rmBinary"
                /\ "rmRoute" \in Gone' <=> "rmRoute" \in Gone \/ s = "rmRoute"
                /\ "untrust" \in Gone' <=> "untrust" \in Gone \/ s = "untrust"
                /\ "rmBrowser" \in Gone' <=> "rmBrowser" \in Gone \/ s = "rmBrowser"
  <2>1. Uninstalls /\ (Uninstalls' /\ clean' =>
           clean /\ \A x \in UndoSteps \ {"rmCert", "rmKey"} : x \in Gone' <=> x \in Gone \/ x = s)
    BY <1>2, MovedUndo
  <2>2. /\ "stop" \in UndoSteps \ {"rmCert", "rmKey"} /\ "disable" \in UndoSteps \ {"rmCert", "rmKey"}
        /\ "rmUnit" \in UndoSteps \ {"rmCert", "rmKey"} /\ "delete" \in UndoSteps \ {"rmCert", "rmKey"}
        /\ "rmBinary" \in UndoSteps \ {"rmCert", "rmKey"} /\ "rmRoute" \in UndoSteps \ {"rmCert", "rmKey"}
        /\ "untrust" \in UndoSteps \ {"rmCert", "rmKey"} /\ "rmBrowser" \in UndoSteps \ {"rmCert", "rmKey"}
    BY DEF UndoSteps
  <2> QED
    BY <2>1, <2>2
<1>3. CASE StopService
  <2>1. UNCHANGED <<enabled, binary, route, store, browser, nss, unit>>
        /\ (daemon' = "off" \/ ~clean')
    BY <1>3 DEF StopService, trust, host, fixed, Warns, Goes
  <2> QED
    BY <1>2, <1>3, <2>1, Moves DEF Undone, UndoSteps
<1>4. CASE Disable
  <2>1. UNCHANGED <<binary, route, store, browser, nss, unit, daemon>> /\ (~enabled' \/ ~clean')
    BY <1>4, Zenon DEF Disable, trust, svc, fixed, Warns, Goes
  <2> QED
    BY <1>2, <1>4, <2>1, Moves DEF Undone, UndoSteps
<1>5. CASE RemoveUnit
  <2>1. UNCHANGED <<enabled, binary, route, store, browser, nss, daemon>>
        /\ (unit' = "none" \/ ~clean')
    BY <1>5 DEF RemoveUnit, trust, svc, fixed, Warns, Goes
  <2> QED
    BY <1>2, <1>5, <2>1, Moves DEF Undone, UndoSteps
<1>6. CASE RemoveRoute
  <2>1. UNCHANGED <<enabled, binary, store, browser, nss, unit, daemon>> /\ (~route' \/ ~clean')
    BY <1>6, Zenon DEF RemoveRoute, trust, svc, fixed, Warns, Goes
  <2> QED
    BY <1>2, <1>6, <2>1, Moves DEF Undone, UndoSteps
<1>7. CASE UninstallCA
  <2>1. UNCHANGED <<enabled, binary, route, browser, nss, unit, daemon>>
        /\ (store' = {} \/ ~clean')
    BY <1>7, Zenon DEF UninstallCA, UntrustLinux, host, svc, fixed, Warns, Goes
  <2> QED
    BY <1>2, <1>7, <2>1, Moves DEF Undone, UndoSteps
<1>8. CASE UninstallNSSCert
  <2>1. UNCHANGED <<enabled, binary, route, store, nss, unit, daemon>>
        /\ (browser' = {} \/ (~nss /\ browser' = browser) \/ ~clean')
    BY <1>8, Zenon DEF UninstallNSSCert, host, svc, fixed, Warns, Goes
  <2> QED
    BY <1>2, <1>8, <2>1, Moves DEF Undone, UndoSteps
<1>9. CASE RemoveBinary
  <2>1. UNCHANGED <<enabled, route, store, browser, nss, unit, daemon>> /\ (~binary' \/ ~clean')
    BY <1>9, Zenon DEF RemoveBinary, trust, svc, fixed, Warns, Goes
  <2> QED
    BY <1>2, <1>9, <2>1, Moves DEF Undone, UndoSteps
<1>10. CASE FindService
  <2>1. UNCHANGED <<enabled, binary, route, store, browser, nss, unit, daemon>>
    BY <1>10 DEF FindService, trust, host, svc, fixed
  <2> QED
    BY <1>2, <1>10, <2>1, Moves DEF Undone, UndoSteps
<1>11. CASE DeleteService
  <2>1. UNCHANGED <<enabled, binary, route, store, browser, nss, daemon>>
        /\ (unit' = "marked" \/ ~clean')
    BY <1>11 DEF DeleteService, trust, svc, fixed, Refuses, Errors, Stops
  <2>2. Windows
    BY <1>11, Moves, MovedUndo, FirstUndoing DEF UndoSteps
  <2>3. "rmUnit" \notin Gone
    <3>1. Windows => Uninstalling = <<"rmRoute", "untrust", "rmCert", "find", "stop", "delete">>
      BY DEF Uninstalling, Windows, Linux
    <3>2. ASSUME "rmUnit" \in Gone
          PROVE  FALSE
      <4>1. PICK i \in 1..(Len(Uninstalling) - Len(todo)) : Uninstalling[i] = "rmUnit"
        BY <3>2 DEF Gone, Behind
      <4>2. Len(Uninstalling) = 6 /\ Len(todo) \in Nat
        BY <2>2, <3>1 DEF Plan
      <4>3. i \in 1..6
        BY <4>1, <4>2
      <4> QED
        BY <2>2, <3>1, <4>1, <4>3
    <3> QED
      BY <3>2
  <2> QED
    BY <1>2, <1>11, <2>1, <2>3, Moves DEF Undone, UndoSteps
<1>12. CASE Begin
  <2>1. (outcome' = "uninstalling" /\ Gone' = {}) \/ ~Uninstalls'
    BY <1>12, Beginning DEF Uninstalls
  <2> QED
    BY <2>1 DEF Undone
<1>13. CASE Boot \/ Ready \/ Vanish \/ (\E p \in Savers : Save(p)) \/ UNCHANGED vars
  <2>1. UNCHANGED <<system, todo, outcome, clean>>
    BY <1>13 DEF Boot, Ready, Vanish, Save, run, fixed, vars
  <2>2. UNCHANGED <<enabled, binary, route, store, browser, nss>>
    BY <1>13 DEF Boot, Ready, Vanish, Save, trust, host, fixed, vars
  <2>3. (daemon' = daemon \/ daemon # "off") /\ (unit' = unit \/ unit' = "none")
    BY <1>13 DEF Boot, Ready, Vanish, Save, host, svc, vars
  <2> QED
    BY <2>1, <2>2, <2>3, Rested, UndoneRested DEF Uninstalls
<1>14. ASSUME NEW p \in Savers, SaveFails(p)
       PROVE  Undone'
  <2>1. CASE p = "daemon"
    <3>1. UNCHANGED <<system, todo, outcome, clean, enabled, binary, route, store, browser, nss, unit>>
          /\ daemon # "off"
      BY <1>14, <2>1 DEF SaveFails, Writers, run, trust, host, fixed, Savers
    <3> QED
      BY <3>1, Rested, UndoneRested DEF Uninstalls
  <2>2. CASE p = "installer"
    <3>1. clean' = FALSE
      BY <1>14, <2>2 DEF SaveFails, Stops
    <3> QED
      BY <3>1 DEF Undone
  <2> QED
    BY <2>1, <2>2 DEF Savers
<1>15. CASE Halt
  BY <1>15, Failed DEF Halt, Uninstalls
<1>16. CASE Interrupt
  BY <1>16, Failed DEF Interrupt, Errors, Stops, Uninstalls
<1>17. CASE PowerCut
  <2>1. CASE outcome' = "failed"
    BY <2>1, Failed DEF Uninstalls
  <2>2. CASE todo = <<>> /\ UNCHANGED run
    <3>1. UNCHANGED <<system, todo, outcome, clean, enabled, binary, store, browser, nss>>
      BY <1>17, <2>2 DEF PowerCut, run, trust, fixed
    <3>2. Gone' = Gone /\ outcome # "uninstalling"
      BY <3>1, <2>2, Rested DEF Plan
    <3>3. Uninstalls /\ clean => ~Wanted
      <4>1. ASSUME Uninstalls, clean
            PROVE  ~Wanted
        <5>1. outcome = "uninstalled"
          BY <3>2, <4>1 DEF Uninstalls
        <5>2. (Windows => unit # "there") /\ (~Windows => unit = "none")
          BY <4>1, <5>1, AllGone DEF Undone
        <5> QED
          BY <5>2 DEF Wanted
      <4> QED
        BY <4>1
    <3>4. (~Wanted => daemon' = "off") /\ (unit' = unit \/ unit' = "none")
      BY <1>17 DEF PowerCut
    <3>5. ~route => ~route'
      BY <1>17, Zenon DEF PowerCut
    <3> QED
      BY <3>1, <3>2, <3>3, <3>4, <3>5 DEF Undone, Uninstalls
  <2> QED
    BY <1>17, <2>1, <2>2 DEF PowerCut, Stops
<1> QED
  BY <1>1, <1>3, <1>4, <1>5, <1>6, <1>7, <1>8, <1>9, <1>10, <1>11, <1>12, <1>13, <1>14, <1>15, <1>16, <1>17
     DEF Next, Uninstall, DaemonStep, Savers

-----------------------------------------------------------------------------
LEMMA InitIInv == Init => IInv
<1> SUFFICES ASSUME Init
             PROVE  IInv
  OBVIOUS
<1>1. /\ system \in AllSystems /\ todo = <<>> /\ outcome = "none" /\ clean = TRUE /\ nss = FALSE
      /\ \A p \in Savers : writes[p] = <<>>
      /\ daemon = "off" /\ unit = "none" /\ ~enabled /\ ~binary
  BY InstallationAssumption DEF Init
<1>2. cert \in CA \cup {None} /\ key = cert /\ made \in Nat /\ (cert \in CA => cert.by = "daemon")
  BY DEF Init, CA, None, Savers
<1>3. Plan
  BY <1>1 DEF Plan
<1>4. fresh \in [Savers -> CA \cup {None}] /\ writes \in [Savers -> Rests]
  BY RestFacts DEF Init
<1>5. Kept
  BY <1>1, <1>2, <1>4 DEF Kept
<1>6. <<>> \notin {<<"openKey", "key">>, <<"key">>}
  OBVIOUS
<1>7. Writers
  BY <1>1, <1>6 DEF Writers, Savers
<1>8. Pairs
  BY <1>1, <1>2 DEF Pairs
<1>9. TrustedLinux /\ TrustedWindows /\ Undone
  BY <1>1 DEF TrustedLinux, TrustedWindows, Undone, Installs, Uninstalls
<1> QED
  BY <1>3, <1>5, <1>7, <1>8, <1>9 DEF IInv

LEMMA NextIInv == IInv /\ [Next]_vars => IInv'
BY NextPlan, NextKept, NextWriters, NextTrustedLinux, NextTrustedWindows, NextUndone DEF IInv

(* The inductive invariant: the parts above, which no step of the          *)
(* installers (InstallService, UninstallService), of the daemon, and no    *)
(* failure, kill or power cut between them disturbs.                       *)
THEOREM Invariant == Spec => []IInv
BY InitIInv, NextIInv, PTL DEF Spec

(* The two files of the authority, written one after the other by two      *)
(* programs any of which may be cut short (generator.go, Save), are a pair *)
(* on Linux and macOS whenever Load accepts both.                          *)
THEOREM PairLoadsHolds == Spec => []PairLoads
<1>1. IInv => PairLoads
  BY DEF IInv, Pairs, PairLoads, Loads
<1> QED
  BY <1>1, Invariant, PTL

(* After an installation in which no command failed (InstallService of the *)
(* three systems), what the running daemon signs with is trusted, unless   *)
(* the daemon made its authority itself.                                   *)
THEOREM SignsTrustedHolds == Spec => []SignsTrusted
<1>1. IInv => SignsTrusted
  <2> SUFFICES ASSUME IInv, outcome = "installed", clean, daemon = "on",
                      system # "otherLinux", signs.by # "daemon"
               PROVE  signs \in store /\ (nss => signs \in browser)
    BY DEF SignsTrusted
  <2>1. Plan /\ Kept /\ Pairs /\ TrustedLinux /\ TrustedWindows /\ Installs
    BY DEF IInv, Installs
  <2>2. CASE Windows
    BY <2>1, <2>2, AllPut DEF TrustedWindows, Kept, Linux, Windows
  <2>3. CASE Linux
    <3>1. signs = cert /\ cert \in CA /\ "trust" \in Put /\ "browser" \in Put
      BY <2>1, <2>3, AllPut DEF Pairs, Linux, Windows
    <3>2. cert.by = "installer"
      BY <3>1, Authorities
    <3> QED
      BY <2>1, <2>3, <3>1, <3>2 DEF TrustedLinux
  <2>4. CASE system = "macos"
    BY <2>1, <2>4 DEF Pairs, Windows
  <2> QED
    BY <2>1, <2>2, <2>3, <2>4, Places
<1> QED
  BY <1>1, Invariant, PTL

(* UninstallService, if its own commands work, leaves nothing of the       *)
(* daemon that runs, starts or is trusted, whatever earlier runs left.     *)
THEOREM UninstallCleanHolds == Spec => []UninstallClean
<1>1. IInv => UninstallClean
  <2> SUFFICES ASSUME IInv, outcome = "uninstalled", clean
               PROVE  /\ daemon = "off" /\ unit # "there" /\ ~binary /\ ~enabled /\ ~route
                      /\ store = {} /\ (nss => browser = {})
    BY DEF UninstallClean
  <2>1. Plan /\ Kept /\ Undone /\ Uninstalls
    BY DEF IInv, Uninstalls
  <2>2. daemon = "off" /\ ~route /\ store = {}
    BY <2>1, AllGone DEF Undone
  <2>3. (Windows => unit # "there") /\ (~Windows => unit = "none" /\ ~binary)
    BY <2>1, AllGone DEF Undone
  <2>4. Linux => ~enabled /\ (nss => browser = {})
    BY <2>1, AllGone DEF Undone
  <2> QED
    BY <2>1, <2>2, <2>3, <2>4 DEF Kept
<1> QED
  BY <1>1, Invariant, PTL

(* Whoever writes or removes one of the two files does so where they do    *)
(* not load, or on Windows.                                                *)
LEMMA FilesChange ==
    Next => (\E p \in Savers : Save(p)) \/ RemoveCert \/ RemoveKey \/ UNCHANGED files
<1> SUFFICES ASSUME Next PROVE (\E p \in Savers : Save(p)) \/ RemoveCert \/ RemoveKey \/ UNCHANGED files
  OBVIOUS
<1>1. CASE Install
  BY <1>1 DEF Install, Copy, WriteUnit, OpenService, CreateService, CleanupOldCerts, MakeCA,
              InstallCA, InstallNSSCert, AddRoute, Enable, StartService
<1>2. CASE Uninstall
  BY <1>2 DEF Uninstall, StopService, Disable, RemoveUnit, RemoveRoute, UninstallCA,
              UninstallNSSCert, RemoveBinary, FindService, DeleteService
<1>3. CASE Begin \/ Boot \/ Ready \/ Halt \/ Vanish \/ Interrupt \/ PowerCut
             \/ \E p \in Savers : SaveFails(p)
  BY <1>3 DEF Begin, Boot, Ready, Halt, Vanish, Interrupt, PowerCut, SaveFails
<1> QED
  BY <1>1, <1>2, <1>3, Zenon DEF Next, DaemonStep, Savers

(* An authority that LoadOrGenerate accepts is never written over on Linux *)
(* and macOS (generator.go, Save), whatever boots and runs of the          *)
(* installers interleave and wherever they are cut short.                  *)
THEOREM AuthorityKeptHolds == Spec => AuthorityKept
<1>1. IInv /\ [Next]_vars => [~Windows /\ Loads => UNCHANGED files]_vars
  <2> SUFFICES ASSUME IInv, Next, ~Windows, Loads PROVE UNCHANGED files
    BY DEF vars, files
  <2>1. Plan /\ Kept /\ Pairs
    BY DEF IInv
  <2>2. ~RemoveCert /\ ~RemoveKey
    BY <2>1, RemovalQuiet
  <2>3. \A p \in Savers : ~Save(p)
    BY <2>1 DEF Pairs, Loads, Save
  <2> QED
    BY <2>2, <2>3, FilesChange
<1> QED
  BY <1>1, Invariant, PTL DEF Spec, AuthorityKept
-----------------------------------------------------------------------------
(* How many authorities are made.  What an action may spend and what it    *)
(* changes besides.                                                        *)
Outcomes == {"none", "installing", "uninstalling", "installed", "uninstalled", "failed", "halted"}

LEMMA Spent == Next => UNCHANGED faults \/ Fault
<1>1. Install => UNCHANGED faults \/ Fault
  BY DEF Install, Copy, WriteUnit, OpenService, CreateService, CleanupOldCerts, RemoveCert,
         RemoveKey, MakeCA, InstallCA, TrustLinux, TrustMac, InstallToStore, InstallNSSCert,
         AddRoute, Enable, StartService, Pass, Warns, Errors, Refuses
<1>2. Uninstall => UNCHANGED faults \/ Fault
  BY DEF Uninstall, StopService, Disable, RemoveUnit, RemoveRoute, UninstallCA, UntrustLinux,
         UninstallNSSCert, RemoveBinary, FindService, DeleteService, Pass, Warns, Errors, Refuses
<1>3. Begin \/ DaemonStep \/ Save("installer") \/ Halt \/ Vanish => UNCHANGED faults
  BY DEF Begin, DaemonStep, Save, Boot, Ready, Halt, Vanish
<1>4. (\E p \in Savers : SaveFails(p)) \/ Interrupt \/ PowerCut => Fault
  BY DEF SaveFails, Interrupt, Errors, PowerCut
<1> QED
  BY <1>1, <1>2, <1>3, <1>4 DEF Next

LEMMA RunsOnly == Next /\ ~Begin => UNCHANGED <<system, nss, runs>>
<1>1. Install => UNCHANGED fixed
  BY DEF Install, Copy, WriteUnit, OpenService, CreateService, CleanupOldCerts, RemoveCert,
         RemoveKey, MakeCA, InstallCA, InstallNSSCert, AddRoute, Enable, StartService
<1>2. Uninstall => UNCHANGED fixed
  BY DEF Uninstall, StopService, Disable, RemoveUnit, RemoveRoute, UninstallCA,
         UninstallNSSCert, RemoveBinary, FindService, DeleteService
<1>3. DaemonStep \/ Save("installer") \/ Halt \/ Vanish \/ (\E p \in Savers : SaveFails(p))
        \/ Interrupt \/ PowerCut => UNCHANGED fixed
  BY DEF DaemonStep, Save, Boot, Ready, Halt, Vanish, SaveFails, Interrupt, PowerCut
<1> QED
  BY <1>1, <1>2, <1>3 DEF Next, fixed

(* What a step makes of outcome and of the flags.                          *)
LEMMA Ended ==
    ASSUME Plan, Kept, outcome \in Outcomes, Next
    PROVE  outcome' \in Outcomes
<1>1. CASE Install \/ Uninstall
  BY <1>1, Moves, RemoveCertMoves DEF Install, Uninstall, Moved, Outcomes
<1>2. CASE Begin
  BY <1>2 DEF Begin, Outcomes
<1>3. CASE DaemonStep \/ Save("installer") \/ Vanish
  BY <1>3 DEF DaemonStep, Boot, Ready, Vanish, Save, run
<1>4. CASE (\E p \in Savers : SaveFails(p)) \/ Halt \/ Interrupt \/ PowerCut
  BY <1>4 DEF SaveFails, Halt, Interrupt, PowerCut, Errors, Stops, run, Outcomes
<1> QED
  BY <1>1, <1>2, <1>3, <1>4 DEF Next

LEMMA Flags ==
    ASSUME {binary, enabled, route} \subseteq BOOLEAN, Next
    PROVE  {binary', enabled', route'} \subseteq BOOLEAN
<1>1. binary \in BOOLEAN /\ enabled \in BOOLEAN /\ route \in BOOLEAN
  OBVIOUS
<1>2. binary' \in BOOLEAN
  <2>1. binary' \in {TRUE, FALSE} \/ UNCHANGED binary
    <3>1. Install => binary' = TRUE \/ UNCHANGED binary
      BY Zenon DEF Install, Copy, WriteUnit, OpenService, CreateService, CleanupOldCerts,
             RemoveCert, RemoveKey, MakeCA, InstallCA, InstallNSSCert, AddRoute, Enable,
             StartService, host
    <3>2. Uninstall => binary' = FALSE \/ UNCHANGED binary
      BY Zenon DEF Uninstall, StopService, Disable, RemoveUnit, RemoveRoute, UninstallCA,
             UninstallNSSCert, RemoveBinary, FindService, DeleteService, host
    <3>3. Begin \/ DaemonStep \/ Save("installer") \/ Halt \/ Vanish \/ Interrupt \/ PowerCut
            \/ (\E p \in Savers : SaveFails(p)) => UNCHANGED binary
      BY Zenon DEF Begin, DaemonStep, Save, Boot, Ready, Halt, Vanish, Interrupt, PowerCut,
             SaveFails, host
    <3> QED
      BY <3>1, <3>2, <3>3, Zenon DEF Next
  <2> QED
    BY <1>1, <2>1
<1>3. enabled' \in BOOLEAN
  <2>1. enabled' \in {TRUE, FALSE} \/ UNCHANGED enabled
    <3>1. Install => enabled' = TRUE \/ UNCHANGED enabled
      BY Zenon DEF Install, Copy, WriteUnit, OpenService, CreateService, CleanupOldCerts,
             RemoveCert, RemoveKey, MakeCA, InstallCA, InstallNSSCert, AddRoute, Enable,
             StartService, host
    <3>2. Uninstall => enabled' = FALSE \/ UNCHANGED enabled
      BY Zenon DEF Uninstall, StopService, Disable, RemoveUnit, RemoveRoute, UninstallCA,
             UninstallNSSCert, RemoveBinary, FindService, DeleteService, host
    <3>3. Begin \/ DaemonStep \/ Save("installer") \/ Halt \/ Vanish \/ Interrupt \/ PowerCut
            \/ (\E p \in Savers : SaveFails(p)) => UNCHANGED enabled
      BY Zenon DEF Begin, DaemonStep, Save, Boot, Ready, Halt, Vanish, Interrupt, PowerCut,
             SaveFails, host
    <3> QED
      BY <3>1, <3>2, <3>3, Zenon DEF Next
  <2> QED
    BY <1>1, <2>1
<1>4. route' \in BOOLEAN
  <2>1. Added \in BOOLEAN /\ (Windows /\ route) \in BOOLEAN
    BY Zenon DEF Added
  <2>2. route' \in {TRUE, FALSE, Added, Windows /\ route} \/ UNCHANGED route
    <3>1. Install => route' \in {FALSE, Added} \/ UNCHANGED route
      BY Zenon DEF Install, Copy, WriteUnit, OpenService, CreateService, CleanupOldCerts,
             RemoveCert, RemoveKey, MakeCA, InstallCA, InstallNSSCert, AddRoute, Enable,
             StartService, host
    <3>2. Uninstall => route' = FALSE \/ UNCHANGED route
      BY Zenon DEF Uninstall, StopService, Disable, RemoveUnit, RemoveRoute, UninstallCA,
             UninstallNSSCert, RemoveBinary, FindService, DeleteService, host
    <3>3. Begin \/ DaemonStep \/ Save("installer") \/ Halt \/ Vanish \/ Interrupt
            \/ (\E p \in Savers : SaveFails(p)) => UNCHANGED route
      BY Zenon DEF Begin, DaemonStep, Save, Boot, Ready, Halt, Vanish, Interrupt,
             SaveFails, host
    <3>4. PowerCut => route' = (Windows /\ route)
      BY Zenon DEF PowerCut
    <3> QED
      BY <3>1, <3>2, <3>3, <3>4, Zenon DEF Next
  <2> QED
    BY <1>1, <2>1, <2>2, Zenon
<1> QED
  BY <1>2, <1>3, <1>4

Ranges ==
    /\ system \in Systems
    /\ nss \in BOOLEAN /\ {binary, enabled, route} \subseteq BOOLEAN
    /\ outcome \in Outcomes
    /\ runs \in 0..MaxRuns /\ faults \in 0..MaxFaults

LEMMA NextRanges == Plan /\ Kept /\ Ranges /\ [Next]_vars => Ranges'
<1> SUFFICES ASSUME Plan, Kept, Ranges, [Next]_vars
             PROVE  Ranges'
  OBVIOUS
<1>0. MaxRuns \in Nat /\ MaxFaults \in Nat
  BY InstallationAssumption
<1>1. CASE UNCHANGED vars
  BY <1>1 DEF Ranges, vars
<1>2. CASE Next
  <2>1. outcome' \in Outcomes /\ {binary', enabled', route'} \subseteq BOOLEAN
    BY <1>2, Ended, Flags DEF Ranges
  <2>2. faults' \in 0..MaxFaults
    BY <1>0, <1>2, Spent DEF Ranges, Fault
  <2>3. system' = system /\ nss' \in BOOLEAN /\ runs' \in 0..MaxRuns
    <3>1. CASE Begin
      <4>1. system' = system /\ runs < MaxRuns /\ runs' = runs + 1
        BY <3>1 DEF Begin
      <4>2. nss' \in BOOLEAN
        BY <3>1, Zenon DEF Begin
      <4> QED
        BY <1>0, <4>1, <4>2 DEF Ranges
    <3>2. CASE ~Begin
      BY <1>2, <3>2, RunsOnly DEF Ranges
    <3> QED
      BY <3>1, <3>2
  <2> QED
    BY <2>1, <2>2, <2>3 DEF Ranges
<1> QED
  BY <1>1, <1>2

(* No authority is anywhere that has not been made.                        *)
MadeBy == [n : 1..made, by : Savers]

Numbered ==
    /\ cert \in MadeBy \cup {None, Cut} /\ key \in MadeBy \cup {None, Cut}
    /\ anchor \in MadeBy \cup {None, Cut}
    /\ store \subseteq MadeBy /\ browser \subseteq MadeBy
    /\ \A p \in Savers : fresh[p] \in MadeBy \cup {None}
    /\ signs \in MadeBy \cup {None}

LEMMA SameNumbers ==
    ASSUME Numbered, UNCHANGED made,
           cert' \in {cert, None, Cut} \cup MadeBy, key' \in {key, None, Cut} \cup MadeBy,
           anchor' \in {anchor, None} \cup {cert},
           store' \subseteq store \cup MadeBy, browser' \subseteq browser \cup MadeBy,
           UNCHANGED fresh, signs' \in {signs, None} \cup MadeBy
    PROVE  Numbered'
BY DEF Numbered, MadeBy

LEMMA NextNumbered ==
    Plan /\ Kept /\ Writers /\ Pairs /\ Numbered /\ [Next]_vars => Numbered'
<1> SUFFICES ASSUME Plan, Kept, Writers, Pairs, Numbered, [Next]_vars
             PROVE  Numbered'
  OBVIOUS
<1>0. \A c \in MadeBy \cup {None, Cut} : c \in CA => c \in MadeBy
  BY Authorities
<1>1. CASE UNCHANGED <<files, made, fresh, trust, signs>>
  BY <1>1, SameNumbers DEF files, trust
<1>2. ASSUME Install, ~RemoveCert, ~RemoveKey, ~MakeCA, ~CleanupOldCerts, ~InstallCA,
             ~InstallNSSCert
      PROVE  Numbered'
  <2>1. UNCHANGED <<files, made, fresh, trust, signs>>
    BY <1>2 DEF Install, Copy, WriteUnit, OpenService, CreateService, AddRoute, Enable,
                StartService, saving, svc
  <2> QED
    BY <1>1, <2>1
<1>3. CASE RemoveCert
  <2>1. UNCHANGED <<made, fresh, key, anchor, store, browser, signs>> /\ cert' \in {cert, None}
    BY <1>3 DEF RemoveCert, saving, trust, svc
  <2> QED
    BY <2>1, SameNumbers
<1>4. CASE RemoveKey
  <2>1. UNCHANGED <<made, fresh, cert, anchor, store, browser, signs>> /\ key' \in {key, None}
    BY <1>4 DEF RemoveKey, saving, trust, svc
  <2> QED
    BY <2>1, SameNumbers
<1>5. CASE CleanupOldCerts
  <2>1. UNCHANGED <<files, made, fresh, anchor, browser, signs>> /\ store' \in {{}, store}
    BY <1>5 DEF CleanupOldCerts, saving, svc
  <2> QED
    BY <2>1, SameNumbers DEF files
<1>6. CASE InstallCA
  <2>1. UNCHANGED <<files, made, fresh, browser, signs>> /\ anchor' \in {anchor, cert}
    BY <1>6 DEF InstallCA, TrustLinux, TrustMac, InstallToStore, saving, svc
  <2>2. anchor' \in MadeBy \cup {None, Cut} /\ cert \in MadeBy \cup {None, Cut}
    BY <2>1 DEF Numbered
  <2>3. store' \subseteq store \cup MadeBy
    <3>1. \/ store' = store
          \/ store' = store \cup {cert} /\ cert \in CA
          \/ store' = {c \in {anchor'} : c \in CA}
          \/ store' = {c \in {anchor} : c \in CA}
      BY <1>6 DEF InstallCA, TrustLinux, TrustMac, InstallToStore
    <3> QED
      BY <1>0, <2>1, <2>2, <3>1 DEF Numbered
  <2> QED
    BY <2>1, <2>3, SameNumbers DEF files
<1>7. CASE InstallNSSCert
  <2>1. UNCHANGED <<files, made, fresh, anchor, store, signs>>
    BY <1>7 DEF InstallNSSCert, saving, svc
  <2>2. browser' \in {{}, browser} \/ (browser' = {cert} /\ cert \in CA)
    BY <1>7 DEF InstallNSSCert
  <2>3. browser' \subseteq browser \cup MadeBy
    BY <1>0, <2>2 DEF Numbered
  <2> QED
    BY <2>1, <2>3, SameNumbers DEF files
<1>8. ASSUME NEW p \in Savers, Generate(p), UNCHANGED <<files, trust, signs>>
      PROVE  Numbered'
  <2>1. made' = made + 1 /\ made \in Nat
    BY <1>8 DEF Generate, Kept
  <2>2. MadeBy \subseteq MadeBy' /\ [n |-> made + 1, by |-> p] \in MadeBy'
    BY <1>8, <2>1 DEF MadeBy
  <2>3. \A q \in Savers : fresh'[q] \in {fresh[q], [n |-> made + 1, by |-> p]}
    BY <1>8 DEF Generate, Kept
  <2> QED
    BY <1>8, <2>2, <2>3 DEF Numbered, files, trust
<1>9. CASE MakeCA
  <2>1. UNCHANGED <<files, trust, signs>>
    BY <1>9 DEF MakeCA, svc
  <2>2. Generate("installer") \/ UNCHANGED saving
    BY <1>9 DEF MakeCA
  <2> QED
    BY <1>1, <1>8, <2>1, <2>2 DEF saving, Savers
<1>10. CASE Uninstall
  <2>1. UNCHANGED <<files, made, fresh>>
    BY <1>10 DEF Uninstall, StopService, Disable, RemoveUnit, RemoveRoute, UninstallCA,
                 UninstallNSSCert, RemoveBinary, FindService, DeleteService, saving
  <2>2. anchor' \in {anchor, None} /\ store' \in {{}, store}
    BY <1>10, Zenon DEF Uninstall, StopService, Disable, RemoveUnit, RemoveRoute, UninstallCA,
                 UntrustLinux, UninstallNSSCert, RemoveBinary, FindService, DeleteService, trust
  <2>3. browser' \in {{}, browser} /\ signs' \in {None, signs}
    BY <1>10, Zenon DEF Uninstall, StopService, Disable, RemoveUnit, RemoveRoute, UninstallCA,
                 UninstallNSSCert, RemoveBinary, FindService, DeleteService, trust, svc
  <2> QED
    BY <2>1, <2>2, <2>3, SameNumbers DEF files
<1>11. ASSUME NEW p \in Savers, Save(p)
       PROVE  Numbered'
  <2>1. fresh[p] \in MadeBy
    BY <1>0, <1>11 DEF Save, Writers, Numbered
  <2>2. cert' \in {cert, Cut, fresh[p]} /\ key' \in {key, Cut, fresh[p]}
    BY <1>11 DEF Save
  <2>3. UNCHANGED <<made, fresh, trust, signs>>
    BY <1>11 DEF Save, svc
  <2> QED
    BY <2>1, <2>2, <2>3, SameNumbers DEF trust
<1>12. CASE Boot
  <2>1. UNCHANGED <<files, trust>>
    BY <1>12 DEF Boot
  <2>2. CASE Generate("daemon") /\ UNCHANGED signs
    BY <1>8, <2>1, <2>2 DEF Savers
  <2>3. CASE signs' = (IF Loads THEN cert ELSE None) /\ UNCHANGED saving
    <3>1. signs' \in {None} \cup MadeBy
      BY <1>0, <2>3 DEF Loads, Numbered
    <3> QED
      BY <2>1, <2>3, <3>1, SameNumbers DEF files, trust, saving
  <2> QED
    BY <1>12, <2>2, <2>3 DEF Boot
<1>13. CASE Ready
  <2>1. UNCHANGED <<files, made, fresh, trust>> /\ signs' = fresh["daemon"]
    BY <1>13 DEF Ready, saving
  <2>2. signs' \in {None} \cup MadeBy
    BY <2>1 DEF Numbered, Savers
  <2> QED
    BY <2>1, <2>2, SameNumbers DEF files, trust
<1>14. CASE Halt \/ PowerCut
  <2>1. UNCHANGED <<files, made, fresh, trust>> /\ signs' = None
    BY <1>14 DEF Halt, PowerCut, saving
  <2> QED
    BY <2>1, SameNumbers DEF files, trust
<1>15. CASE Begin \/ Vanish \/ Interrupt \/ (\E p \in Savers : SaveFails(p)) \/ UNCHANGED vars
  <2>1. UNCHANGED <<files, made, fresh, trust, signs>>
    BY <1>15 DEF Begin, Vanish, Interrupt, SaveFails, vars, files, saving, trust, svc
  <2> QED
    BY <1>1, <2>1
<1> QED
  BY <1>2, <1>3, <1>4, <1>5, <1>6, <1>7, <1>9, <1>10, <1>11, <1>12, <1>13, <1>14, <1>15
     DEF Next, DaemonStep, Savers

(* A new authority costs two, a fault brings two and a run brings one: what *)
(* is spent when the next one is made has come in before.  An undoing that *)
(* stops the daemon while it saves leaves the machine without a pair, which *)
(* only the run after it makes good.                                       *)
Spare(k) == 2 * made + k <= 2 + 2 * faults + runs
Saving   == \E p \in Savers : writes[p] # <<>>

Paid ==
    ~Windows =>
        /\ Spare(0)
        /\ Saving /\ outcome = "uninstalling" => Spare(1)
        /\ ~Loads /\ ~Saving /\ daemon = "due" =>
              Spare(2) /\ (outcome = "uninstalling" => Spare(3))
        /\ ~Loads /\ ~Saving /\ daemon = "off" =>
              Spare(1) /\ (outcome = "installing" => Spare(2))

PaidWindows ==
    Windows => /\ made <= runs
               /\ outcome = "installing" /\ "make" \notin Put => made < runs

Counts == made \in Nat /\ runs \in Nat /\ faults \in Nat

(* No action but Begin enters a run, and no other step than its own makes  *)
(* the authority of an installation.                                       *)
LEMMA Onward ==
    ASSUME Plan, Kept, Next, ~Begin
    PROVE  /\ outcome' = "uninstalling" => outcome = "uninstalling"
           /\ outcome' = "installing" => outcome = "installing"
           /\ ~MakeCA /\ outcome' = "installing" /\ "make" \notin Put' => "make" \notin Put
<1>1. CASE Install \/ Uninstall
  <2>1. ASSUME NEW s, s # "make", Moved(s)
        PROVE  /\ outcome' = "uninstalling" => outcome = "uninstalling"
               /\ outcome' = "installing" =>
                    outcome = "installing" /\ ("make" \notin Put' => "make" \notin Put)
    BY <2>1 DEF Moved, InstallSteps
  <2>2. CASE MakeCA
    BY <2>2, Moves DEF Moved
  <2>3. CASE RemoveCert
    BY <2>1, <2>3, RemoveCertMoves
  <2> QED
    BY <1>1, <2>1, <2>2, <2>3, Moves DEF Install, Uninstall
<1>2. CASE DaemonStep \/ Vanish \/ Save("installer")
  <2>1. UNCHANGED <<system, todo, outcome>>
    BY <1>2 DEF DaemonStep, Boot, Ready, Vanish, Save, run, fixed
  <2> QED
    BY <2>1, Rested
<1>3. CASE (\E p \in Savers : SaveFails(p)) \/ Halt \/ Interrupt \/ PowerCut
  <2>1. CASE UNCHANGED <<todo, outcome>>
    <3>1. UNCHANGED <<system, todo, outcome>>
      BY <1>3, <2>1 DEF SaveFails, Halt, Interrupt, PowerCut, fixed
    <3> QED
      BY <3>1, Rested
  <2>2. CASE outcome' \in {"failed", "halted"}
    BY <2>2
  <2> QED
    BY <1>3, <2>1, <2>2 DEF SaveFails, Halt, Interrupt, PowerCut, Errors, Stops, run
<1> QED
  BY <1>1, <1>2, <1>3 DEF Next

LEMMA MadeHere == Next /\ ~MakeCA /\ ~Boot => UNCHANGED made
<1>1. Install /\ ~MakeCA => UNCHANGED made
  BY DEF Install, Copy, WriteUnit, OpenService, CreateService, CleanupOldCerts, RemoveCert,
         RemoveKey, InstallCA, InstallNSSCert, AddRoute, Enable, StartService, saving
<1>2. Uninstall => UNCHANGED made
  BY DEF Uninstall, StopService, Disable, RemoveUnit, RemoveRoute, UninstallCA,
         UninstallNSSCert, RemoveBinary, FindService, DeleteService, saving
<1>3. Begin \/ Ready \/ (\E p \in Savers : Save(p) \/ SaveFails(p)) \/ Halt \/ Vanish
        \/ Interrupt \/ PowerCut => UNCHANGED made
  BY DEF Begin, Ready, Save, SaveFails, Halt, Vanish, Interrupt, PowerCut, saving
<1> QED
  BY <1>1, <1>2, <1>3 DEF Next, DaemonStep, Savers

LEMMA NextPaidWindows ==
    Plan /\ Kept /\ Counts /\ PaidWindows /\ [Next]_vars => PaidWindows'
<1> SUFFICES ASSUME Plan, Kept, Counts, PaidWindows, [Next]_vars, Windows'
             PROVE  /\ made' <= runs'
                    /\ outcome' = "installing" /\ "make" \notin Put' => made' < runs'
  BY DEF PaidWindows
<1>0. system' = system /\ Windows
  BY RunsOnly DEF Begin, vars, Windows
<1>1. CASE Begin
  <2>1. UNCHANGED made /\ runs' = runs + 1
    BY <1>1 DEF Begin, saving
  <2> QED
    BY <1>0, <2>1 DEF PaidWindows, Counts
<1>2. CASE MakeCA
  <2>1. Moved("make") /\ writes["installer"] = <<>>
    BY <1>2, Moves DEF Moved, At
  <2>2. outcome = "installing" /\ "make" \notin Put /\ "make" \in Put'
    <3>1. outcome = "installing"
      BY <2>1, FirstUndoing DEF Moved, At, Plan
    <3>2. "make" \notin Put
      <4>1. Len(todo) = 4
        BY <1>0, <2>1, <3>1, FirstWindows DEF Moved, At
      <4> QED
        BY <1>0, <4>1, BehindWindows DEF Put
    <3>3. outcome' = "installing" \/ outcome' = "installed"
      BY <1>2, <3>1 DEF MakeCA, Pass, Goes
    <3> QED
      BY <2>1, <3>1, <3>2, <3>3 DEF Moved, InstallSteps
  <2>3. made' = made + 1 /\ runs' = runs
    BY <1>0, <1>2 DEF MakeCA, Generate, fixed
  <2> QED
    BY <1>0, <2>2, <2>3 DEF PaidWindows, Counts
<1>3. CASE Next /\ ~Begin /\ ~MakeCA
  <2>1. UNCHANGED <<made, runs>>
    BY <1>0, <1>3, RunsOnly, MadeHere DEF Boot, saving
  <2> QED
    BY <1>0, <1>3, <2>1, Onward DEF PaidWindows
<1>4. CASE UNCHANGED vars
  <2>1. UNCHANGED <<system, todo, outcome, made, runs>>
    BY <1>4 DEF vars
  <2> QED
    BY <1>0, <2>1, Rested DEF PaidWindows
<1> QED
  BY <1>1, <1>2, <1>3, <1>4

(* Who is up has a pair, or is saving one.                                 *)
LEMMA UpLoads ==
    Writers /\ Pairs /\ ~Windows /\ ~Saving /\ daemon \in {"boot", "on"} => Loads
BY DEF Pairs, Saving, Loads, Savers

LEMMA SamePaid ==
    ASSUME Counts, Paid, UNCHANGED <<system, cert, key, made, writes, daemon, runs>>,
           UNCHANGED faults \/ Fault,
           outcome' = "uninstalling" => outcome = "uninstalling",
           outcome' = "installing" => outcome = "installing"
    PROVE  Paid'
BY DEF Counts, Paid, Spare, Saving, Loads, Windows, Fault

LEMMA FaultPaid ==
    ASSUME Counts, Paid, UNCHANGED <<system, made, runs>>, Fault,
           outcome' \notin {"installing", "uninstalling"}
    PROVE  Paid'
BY DEF Counts, Paid, Spare, Windows, Fault

LEMMA NextPaid == Plan /\ Kept /\ Writers /\ Pairs /\ Counts /\ Paid /\ [Next]_vars => Paid'
<1> SUFFICES ASSUME Plan, Kept, Writers, Pairs, Counts, Paid, [Next]_vars, ~Windows
             PROVE  Paid'
  BY RunsOnly DEF Begin, vars, Windows, Paid
<1>1. CASE UNCHANGED vars
  <2>1. UNCHANGED <<system, cert, key, made, writes, daemon, runs, faults, outcome>>
    BY <1>1 DEF vars
  <2> QED
    BY <2>1, SamePaid
<1>2. CASE Begin
  <2>1. UNCHANGED <<system, cert, key, made, writes, daemon, faults>> /\ runs' = runs + 1
        /\ outcome \notin {"installing", "uninstalling"}
    BY <1>2 DEF Begin, Plan, files, saving, svc
  <2>2. \/ outcome' = "installing"
        \/ outcome' = "uninstalling"
    BY <1>2 DEF Begin
  <2> QED
    BY <2>1, <2>2 DEF Counts, Paid, Spare, Saving, Loads, Windows
<1>3. ASSUME Next, ~Begin, UNCHANGED <<system, cert, key, made, writes, daemon, runs>>
      PROVE  Paid'
  BY <1>3, Spent, Onward, SamePaid
<1>4. ASSUME Install, ~RemoveCert, ~RemoveKey, ~MakeCA, ~StartService
      PROVE  Paid'
  <2>1. UNCHANGED <<system, cert, key, made, writes, daemon, runs>>
    BY <1>4 DEF Install, Copy, WriteUnit, OpenService, CreateService, CleanupOldCerts,
                InstallCA, InstallNSSCert, AddRoute, Enable, files, saving, svc, fixed
  <2>2. Next /\ outcome' = "uninstalling" => outcome = "uninstalling"
    BY <1>4, Moves DEF Install, Moved
  <2>3. outcome' = "installing" => outcome = "installing"
    BY <1>4, Moves DEF Install, Moved
  <2> QED
    BY <1>4, <2>1, <2>2, <2>3, Spent, SamePaid DEF Next
<1>5. CASE RemoveCert \/ RemoveKey
  BY <1>5, Order, FirstUndoing DEF RemoveCert, RemoveKey, At, Plan
<1>6. CASE MakeCA
  <2>1. Moved("make") /\ writes["installer"] = <<>>
    BY <1>6, Moves DEF Moved, At
  <2>2. outcome = "installing" /\ Linux /\ outcome' # "uninstalling"
    <3>1. outcome = "installing"
      BY <2>1, FirstUndoing DEF Moved, At, Plan
    <3>2. system # "macos"
      BY <2>1, <3>1, Order DEF Moved, At
    <3> QED
      BY <2>1, <3>1, <3>2, Places DEF Moved
  <2>3. UNCHANGED <<system, cert, key, daemon, runs, faults>>
    BY <1>6 DEF MakeCA, Pass, files, svc, fixed
  <2>4. CASE UNCHANGED saving
    BY <2>2, <2>3, <2>4, SamePaid DEF saving
  <2>5. CASE cert = None /\ key = None /\ Generate("installer")
    <3>1. ~Loads /\ daemon = "off"
      BY <2>2, <2>5, Authorities DEF Loads, Writers
    <3>2. ~Saving
      BY <2>1, <3>1 DEF Saving, Writers, Savers
    <3>3. made' = made + 1 /\ writes'["installer"] # <<>>
      BY <2>5, RestFacts DEF Generate, Kept, Savers
    <3>4. Saving'
      BY <3>3 DEF Saving, Savers
    <3> QED
      BY <2>2, <2>3, <3>1, <3>2, <3>3, <3>4 DEF Counts, Paid, Spare, Windows
  <2> QED
    BY <1>6, <2>4, <2>5 DEF MakeCA
<1>7. CASE StartService
  <2>1. Moved("start")
    BY <1>7, Moves
  <2>2. outcome = "installing" /\ outcome' # "uninstalling"
    BY <2>1, FirstUndoing DEF Moved, At, Plan
  <2>3. UNCHANGED <<system, cert, key, made, writes, runs>>
        /\ (daemon' = daemon \/ (daemon = "off" /\ daemon' = "due"))
    BY <1>7 DEF StartService, files, saving, fixed
  <2>4. UNCHANGED faults \/ Fault
    BY <1>7, Spent DEF Next, Install
  <2>5. CASE daemon' = daemon
    BY <2>2, <2>3, <2>4, <2>5, SamePaid
  <2>6. CASE daemon = "off" /\ daemon' = "due"
    BY <2>2, <2>3, <2>4, <2>6 DEF Counts, Paid, Spare, Saving, Loads, Windows, Fault
  <2> QED
    BY <2>3, <2>5, <2>6
<1>8. CASE StopService
  <2>1. Moved("stop") /\ writes["installer"] = <<>>
    BY <1>8, Moves DEF Moved, At
  <2>2. outcome = "uninstalling" /\ outcome' # "installing"
    BY <2>1, Order DEF Moved, At, Plan, InstallSteps
  <2>3. UNCHANGED <<system, cert, key, made, runs>>
    BY <1>8 DEF StopService, files, fixed
  <2>4. CASE Warns /\ UNCHANGED <<svc, writes>>
    BY <2>2, <2>3, <2>4, SamePaid DEF Warns, svc
  <2>5. CASE daemon' = "off" /\ writes' = [writes EXCEPT !["daemon"] = <<>>] /\ UNCHANGED faults
    <3>0. ~Saving'
      BY <2>1, <2>5 DEF Saving, Savers, Kept
    <3>1. ~Loads /\ ~Saving => daemon \in {"off", "due"}
      BY UpLoads DEF Kept
    <3>2. ~Loads => Spare(1)
      BY <2>2, <3>1 DEF Counts, Paid, Spare
    <3> QED
      BY <2>2, <2>3, <2>5, <3>0, <3>2 DEF Counts, Paid, Spare, Loads, Windows
  <2> QED
    BY <1>8, <2>4, <2>5 DEF StopService, Pass
<1>9. ASSUME Uninstall, ~StopService
      PROVE  Paid'
  <2>1. UNCHANGED <<system, cert, key, made, writes, daemon, runs>>
    BY <1>9 DEF Uninstall, Disable, RemoveUnit, RemoveRoute, UninstallCA, UninstallNSSCert,
                RemoveBinary, FindService, DeleteService, files, saving, svc, fixed
  <2>2. /\ outcome' = "uninstalling" => outcome = "uninstalling"
        /\ outcome' = "installing" => outcome = "installing"
    BY <1>9, Moves DEF Uninstall, Moved
  <2> QED
    BY <1>9, <2>1, <2>2, Spent, SamePaid DEF Next
<1>10. CASE Boot
  <2>1. UNCHANGED <<system, outcome, runs, faults, cert, key>> /\ daemon = "due"
    BY <1>10 DEF Boot, run, fixed, files
  <2>2. CASE Loads /\ daemon' = "on" /\ UNCHANGED saving
    BY <2>1, <2>2 DEF Counts, Paid, Spare, Saving, Loads, Windows, saving
  <2>3. CASE ~Loads /\ Generate("daemon")
    <3>1. ~Saving
      <4>1. writes["daemon"] = <<>> /\ writes["installer"] = <<>>
        BY <2>1, Places DEF Writers, Savers
      <4> QED
        BY <4>1 DEF Saving, Savers
    <3>2. made' = made + 1 /\ writes'["daemon"] # <<>>
      BY <2>3, RestFacts DEF Generate, Kept, Savers
    <3>3. Saving'
      BY <3>2 DEF Saving, Savers
    <3> QED
      BY <2>1, <2>3, <3>1, <3>2, <3>3 DEF Counts, Paid, Spare, Windows
  <2> QED
    BY <1>10, <2>2, <2>3 DEF Boot
<1>11. CASE Ready
  <2>1. UNCHANGED <<system, outcome, runs, faults, cert, key, made, writes>> /\ daemon' = "on"
    BY <1>11 DEF Ready, run, fixed, files, saving
  <2> QED
    BY <2>1 DEF Counts, Paid, Spare, Saving, Loads, Windows
<1>12. ASSUME NEW p \in Savers, Save(p)
       PROVE  Paid'
  <2>1. UNCHANGED <<system, outcome, runs, faults, made, daemon>> /\ Saving
    BY <1>12 DEF Save, run, fixed, svc, Saving
  <2>2. writes[p] \in Rests /\ writes[p] # <<>> /\ writes' = [writes EXCEPT ![p] = Tail(@)]
    BY <1>12 DEF Save, Kept
  <2>3. ~Saving' => Loads'
    <3>1. ASSUME Tail(writes[p]) = <<>>
          PROVE  Loads'
      <4>0. Tail(SaveSteps) # <<>> /\ <<"openKey", "key">> # <<>> /\ <<"key">> # <<>>
        BY DEF SaveSteps
      <4>1. writes[p] = <<"key">> /\ Head(writes[p]) = "key"
        BY <2>2, <3>1, <4>0, RestFacts
      <4>2. cert = fresh[p] /\ fresh[p] \in CA
        BY <4>1, <2>2 DEF Writers
      <4>3. cert' = cert /\ key' = fresh[p]
        BY <1>12, <4>1 DEF Save
      <4> QED
        BY <4>2, <4>3 DEF Loads
    <3>2. writes'[p] = Tail(writes[p])
      BY <2>2 DEF Kept
    <3> QED
      BY <3>1, <3>2 DEF Saving
  <2> QED
    BY <2>1, <2>3 DEF Counts, Paid, Spare, Windows
<1>13. ASSUME NEW p \in Savers, SaveFails(p)
       PROVE  Paid'
  <2>1. UNCHANGED <<system, runs, made, cert, key>> /\ Fault /\ Saving
    BY <1>13 DEF SaveFails, fixed, files, Saving
  <2>2. CASE p = "daemon"
    <3>1. UNCHANGED outcome /\ daemon' = "due"
      BY <1>13, <2>2 DEF SaveFails, run
    <3> QED
      BY <2>1, <3>1 DEF Counts, Paid, Spare, Windows, Fault
  <2>3. CASE p = "installer"
    <3>1. outcome' = "failed"
      BY <1>13, <2>3 DEF SaveFails, Stops
    <3> QED
      BY <2>1, <3>1, FaultPaid
  <2> QED
    BY <2>2, <2>3 DEF Savers
<1>14. CASE Halt
  <2>1. UNCHANGED <<system, runs, faults, cert, key, made, writes>> /\ daemon = "on"
        /\ outcome' = "halted"
    BY <1>14 DEF Halt, fixed, files, saving
  <2>2. Loads
    BY <2>1 DEF Pairs, Loads
  <2> QED
    BY <2>1, <2>2 DEF Counts, Paid, Spare, Loads, Windows
<1>15. CASE Vanish
  <2>1. UNCHANGED <<system, cert, key, made, writes, daemon, runs, faults, outcome>>
    BY <1>15 DEF Vanish, fixed, run, files, saving, svc
  <2> QED
    BY <2>1, SamePaid
<1>16. CASE Interrupt
  <2>1. UNCHANGED <<system, made, runs>> /\ Fault /\ outcome' = "failed"
    BY <1>16 DEF Interrupt, Errors, Stops, fixed
  <2> QED
    BY <2>1, FaultPaid
<1>17. CASE PowerCut
  <2>1. UNCHANGED <<system, made, runs>> /\ Fault
    BY <1>17 DEF PowerCut, fixed
  <2>2. outcome' \notin {"installing", "uninstalling"}
    BY <1>17 DEF PowerCut, Stops, run, Plan
  <2> QED
    BY <2>1, <2>2, FaultPaid
<1> QED
  BY <1>1, <1>2, <1>4, <1>5, <1>6, <1>7, <1>8, <1>9, <1>10, <1>11, <1>12, <1>13, <1>14, <1>15,
     <1>16, <1>17 DEF Next, DaemonStep, Savers

-----------------------------------------------------------------------------
NInv == IInv /\ Ranges /\ Numbered /\ Paid /\ PaidWindows

LEMMA InitNInv == Init => NInv
<1> SUFFICES ASSUME Init
             PROVE  NInv
  OBVIOUS
<1>1. MaxRuns \in Nat /\ MaxFaults \in Nat
  BY InstallationAssumption
<1>2. Ranges
  <2>1. system \in Systems /\ outcome = "none" /\ runs = 0 /\ faults = 0
    BY DEF Init
  <2>2. nss \in BOOLEAN /\ {binary, enabled, route} \subseteq BOOLEAN
    BY Zenon DEF Init
  <2> QED
    BY <1>1, <2>1, <2>2 DEF Ranges, Outcomes
<1>3. /\ runs = 0 /\ faults = 0 /\ key = cert /\ daemon = "off" /\ outcome = "none"
      /\ \/ cert = None /\ made = 0
         \/ ~Windows /\ cert = [n |-> 1, by |-> "daemon"] /\ made = 1
      /\ \A p \in Savers : writes[p] = <<>> /\ fresh[p] = None
      /\ anchor = None /\ store = {} /\ browser = {} /\ signs = None
  BY DEF Init
<1>4. cert \in MadeBy \cup {None} /\ (made = 1 => cert \in CA)
  BY <1>3 DEF MadeBy, CA, Savers
<1>5. Numbered
  BY <1>3, <1>4 DEF Numbered
<1>6. Paid /\ PaidWindows
  BY <1>3, <1>4 DEF Paid, PaidWindows, Spare, Saving, Loads
<1> QED
  BY <1>2, <1>5, <1>6, InitIInv DEF NInv

LEMMA NextNInv == NInv /\ [Next]_vars => NInv'
<1> SUFFICES ASSUME NInv, [Next]_vars
             PROVE  NInv'
  OBVIOUS
<1>1. Counts
  BY InstallationAssumption DEF NInv, IInv, Ranges, Kept, Counts
<1> QED
  BY <1>1, NextIInv, NextRanges, NextNumbered, NextPaid, NextPaidWindows DEF NInv, IInv

LEMMA LeftSteps ==
    ASSUME Plan
    PROVE  todo \in Seq({Installing[i] : i \in DOMAIN Installing}
                        \cup {Uninstalling[i] : i \in DOMAIN Uninstalling} \cup {"rmKey"})
<1> DEFINE S == {Installing[i] : i \in DOMAIN Installing}
                \cup {Uninstalling[i] : i \in DOMAIN Uninstalling} \cup {"rmKey"}
<1>1. CASE todo = <<>>
  BY <1>1
<1>2. ASSUME todo # <<>>
      PROVE  todo \in Seq(S)
  <2>1. PICK P \in {Installing, Uninstalling} : Follows(todo, P)
    BY <1>2 DEF Plan
  <2>2. P \in Seq(Steps) /\ todo \in Seq(Steps) /\ Len(todo) \in 1..Len(P) /\ Len(P) \in Nat
        /\ DOMAIN P = 1..Len(P)
    BY <2>1, ListsTyped DEF Plan, Follows
  <2>3. \A i \in 1..Len(P) : P[i] \in S
    BY <2>2
  <2>4. ASSUME NEW i \in 1..Len(todo)
        PROVE  todo[i] \in S
    <3>1. Len(P) - Len(todo) + i \in 1..Len(P)
      BY <2>2
    <3>2. CASE i = 1
      BY <2>1, <2>3, <3>1, <3>2 DEF Follows
    <3>3. CASE i # 1
      BY <2>1, <2>2, <2>3, <3>1, <3>3 DEF Follows
    <3> QED
      BY <3>2, <3>3
  <2> HIDE DEF S
  <2> QED
    BY <2>2, <2>4
<1> QED
  BY <1>1, <1>2

(* However often the daemon boots (Boot of main, LoadOrGenerate) and the   *)
(* installers run, a new authority is made only after a failure, after a   *)
(* stop of every other run while one was being saved, or, on Windows, once *)
(* by each run; and no file, store or daemon holds one that was not made.  *)
THEOREM TypeCorrect == Spec => []TypeOK
<1>1. Spec => []NInv
  BY InitNInv, NextNInv, PTL DEF Spec
<1>2. NInv => TypeOK
  <2> SUFFICES ASSUME NInv
               PROVE  TypeOK
    OBVIOUS
  <2>1. Plan /\ Kept /\ Ranges /\ Numbered /\ Paid /\ PaidWindows
    BY DEF NInv, IInv
  <2>2. runs \in Nat /\ faults \in Nat /\ made \in Nat
    BY <2>1, InstallationAssumption DEF Ranges, Kept
  <2>3. made \in 0..(IF Windows THEN runs ELSE 1 + faults + runs \div 2)
    <3>1. CASE Windows
      BY <2>1, <2>2, <3>1 DEF PaidWindows
    <3>2. CASE ~Windows
      <4>1. 2 * made <= 2 + 2 * faults + runs
        BY <2>1, <2>2, <3>2 DEF Paid, Spare
      <4>2. runs \div 2 \in Nat /\ runs <= 2 * (runs \div 2) + 1
        BY <2>2
      <4> QED
        BY <2>2, <3>2, <4>1, <4>2
    <3> QED
      BY <3>1, <3>2
  <2>4. writes \in [Savers -> {SubSeq(SaveSteps, i, 4) : i \in 1..5}]
    <3>1. Rests \subseteq {SubSeq(SaveSteps, i, 4) : i \in 1..5}
      <4>1. /\ SaveSteps = SubSeq(SaveSteps, 1, 4)
            /\ <<"cert", "openKey", "key">> = SubSeq(SaveSteps, 2, 4)
            /\ <<"openKey", "key">> = SubSeq(SaveSteps, 3, 4)
            /\ <<"key">> = SubSeq(SaveSteps, 4, 4)
            /\ <<>> = SubSeq(SaveSteps, 5, 4)
        BY DEF SaveSteps
      <4> QED
        BY <4>1 DEF Rests
    <3> QED
      BY <2>1, <3>1 DEF Kept
  <2>5. /\ {clean, nss, binary, enabled, route} \subseteq BOOLEAN
        /\ (todo = <<>>) <=> outcome \notin {"installing", "uninstalling"}
        /\ unit \in {"none", "there", "marked"} /\ daemon \in {"off", "due", "boot", "on"}
    BY <2>1 DEF Kept, Ranges, Plan
  <2>6. LET Made == {c \in [n : 1..made, by : Savers] : TRUE} IN
           /\ {cert, key} \subseteq Made \cup {None, Cut}
           /\ anchor \in Made \cup {None, Cut}
           /\ store \subseteq Made /\ browser \subseteq Made
           /\ fresh \in [Savers -> Made \cup {None}]
           /\ signs \in Made \cup {None}
    <3>1. fresh \in [Savers -> MadeBy \cup {None}]
      BY <2>1 DEF Numbered, Kept
    <3>2. {c \in [n : 1..made, by : Savers] : TRUE} = MadeBy
      BY DEF MadeBy
    <3> QED
      BY <2>1, <3>1, <3>2 DEF Numbered
  <2> QED
    BY <2>1, <2>3, <2>4, <2>5, <2>6, LeftSteps DEF TypeOK, Ranges, Outcomes
<1> QED
  BY <1>1, <1>2, PTL
=============================================================================
