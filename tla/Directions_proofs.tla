---------------------------- MODULE Directions_proofs ----------------------------
(***************************************************************************)
(* Theorems about what is read off a line and about the directions of      *)
(* firewall rows: for any text a line is made of, any interfaces,          *)
(* addresses and packets, any settings and any number of changes, faults   *)
(* and restarts.  That new settings take effect at all (SettingsTakeEffect)*)
(* needs fairness and stays with the model checker.                        *)
(***************************************************************************)
EXTENDS Directions, Lines, TLAPS

-----------------------------------------------------------------------------
(* What is in a line: the words that are in its words.                     *)

LEMMA WordsInWords ==
  ASSUME NEW v, NEW w
  PROVE  w \in Inside(v) <=> \/ w = v
                             \/ v = "dnsmasq-dhcp" /\ w = "dnsmasq"
                             \/ v = "disassociated" /\ w = "associated"
                             \/ v = "deauthenticated" /\ w = "authenticated"
                             \/ v = "disconnected" /\ w = "connected"
BY DEF Inside

\* Any other word is only in itself.
LEMMA PlainWords ==
  ASSUME NEW v, NEW w, w # "dnsmasq", w # "associated", w # "authenticated", w # "connected", w \in Inside(v)
  PROVE  w = v
BY WordsInWords

\* A month without a year belongs to the year that puts it nearest: up to
\* five months back, and one ahead unless that is next year's January.
LEMMA YearIsRight ==
  ASSUME month \in Nat, NEW stamp \in Nat
  PROVE  LET t == 12 * YearOf(stamp) + (stamp % 12)
         IN /\ month - stamp \in 0..5 => t = stamp
            /\ month - stamp = -1 => t = (IF stamp % 12 = 0 THEN stamp - 12 ELSE stamp)
<1> DEFINE y == month \div 12
           r == month % 12
           z == stamp \div 12
           q == stamp % 12
<1>1. /\ y \in Nat /\ r \in 0..11 /\ month = 12 * y + r
      /\ z \in Nat /\ q \in 0..11 /\ stamp = 12 * z + q
  OBVIOUS
<1>2. YearOf(stamp) = IF q - r > 6 THEN y - 1 ELSE y
  BY DEF YearOf
<1> HIDE DEF y, r, z, q
<1>3. ASSUME month - stamp \in 0..5 PROVE 12 * YearOf(stamp) + q = stamp
  <2>1. y = z \/ y = z + 1
    BY <1>1, <1>3
  <2>2. CASE y = z
    BY <1>1, <1>2, <1>3, <2>2
  <2>3. CASE y = z + 1
    BY <1>1, <1>2, <1>3, <2>3
  <2> QED
    BY <2>1, <2>2, <2>3
<1>4. ASSUME month - stamp = -1
      PROVE  12 * YearOf(stamp) + q = (IF q = 0 THEN stamp - 12 ELSE stamp)
  <2>1. (q # 0 /\ y = z /\ r = q - 1) \/ (q = 0 /\ y = z - 1 /\ r = 11)
    BY <1>1, <1>4
  <2> QED
    BY <1>1, <1>2, <2>1
<1> QED
  BY <1>3, <1>4 DEF q

-----------------------------------------------------------------------------
(* One kind of line at a time.                                             *)

\* What the record keeps of what its parser found: all of it, but no MAC
\* that is none.
Keeps(log, p) ==
  /\ log.type = p.type /\ log.action = p.action /\ log.event = p.event /\ log.query = p.query
  /\ log.src = p.src /\ log.host = p.host
  /\ log.mac = (IF p.mac = "damaged" THEN None ELSE p.mac)

\* The check of the MAC takes nothing else away.
LEMMA CheckedKeeps ==
  ASSUME NEW r, DOMAIN r = DOMAIN NoLog
  PROVE  Keeps(Checked(r), r)
<1>1. \A k \in {"type", "action", "event", "query", "src", "host", "mac"} : k \in DOMAIN NoLog
  BY DEF NoLog
<1>2. CASE r.mac # None /\ r.mac = "damaged"
  <2> DEFINE c == [r EXCEPT !.mac = None]
  <2>1. Checked(r) = c
    BY <1>2 DEF Checked, valid_mac
  <2>2. /\ c.type = r.type /\ c.action = r.action /\ c.event = r.event /\ c.query = r.query
        /\ c.src = r.src /\ c.host = r.host /\ c.mac = None
    BY <1>1
  <2> HIDE DEF c
  <2> QED
    BY <1>2, <2>1, <2>2 DEF Keeps
<1>3. CASE ~(r.mac # None /\ r.mac = "damaged")
  BY <1>3 DEF Checked, valid_mac, Keeps
<1> QED
  BY <1>2, <1>3

\* The header only adds the program and the severity.
LEMMA RecordKeeps ==
  ASSUME NEW b, NEW priority, b.program # "CEF", NEW p, DOMAIN p = DOMAIN NoLog,
         p = parse_body(b, detect_log_type(b))
  PROVE  Keeps(Checked(Parsed(b, priority)), p)
<1> DEFINE r == [p EXCEPT !.program = b.program, !.severity = severity_of(priority)]
<1>1. Parsed(b, priority) = r
  BY DEF Parsed
<1>2. /\ DOMAIN r = DOMAIN NoLog
      /\ r.type = p.type /\ r.action = p.action /\ r.event = p.event /\ r.query = p.query
      /\ r.src = p.src /\ r.host = p.host /\ r.mac = p.mac
  BY DEF NoLog
<1> HIDE DEF r
<1>3. Keeps(Checked(r), r)
  BY <1>2, CheckedKeeps
<1> QED
  BY <1>1, <1>2, <1>3 DEF Keeps

\* The last letter among the segments is that of the rule.
LEMMA LastLetter ==
  ASSUME NEW before \in Seq(Text), NEW after \in Seq(Text \ Letters), NEW letter \in Letters
  PROVE  LetterSegment(before \o <<letter>> \o after) = letter
<1> DEFINE name == before \o <<letter>> \o after
           at == {i \in 1..Len(name) : name[i] \in Letters}
           k == Len(before) + 1
<1>1. letter \in Text
  BY LinesAssumption
<1>2. name \in Seq(Text) /\ Len(name) = k + Len(after) /\ k \in Nat
  BY <1>1
<1>3. name[k] = letter /\ k \in at
  BY <1>1, <1>2
<1>4. \A i \in at : i <= k
  <2> SUFFICES ASSUME NEW i \in at, i > k PROVE FALSE
    BY <1>2
  <2>1. i - k \in DOMAIN after /\ name[i] = after[i - k]
    BY <1>1, <1>2
  <2> QED
    BY <2>1
<1>5. Max(at) = k
  <2> HIDE DEF at
  <2>1. at \subseteq Nat
    BY DEF at
  <2>2. k \in at /\ \A y \in at : k >= y
    BY <1>2, <1>3, <1>4, <2>1
  <2>3. \A x \in at : (\A y \in at : x >= y) => x = k
    BY <1>2, <2>1, <2>2
  <2> HIDE DEF k
  <2>4. \E x \in at : \A y \in at : x >= y
    BY <2>2
  <2> QED
    BY <2>3, <2>4 DEF Max
<1>6. LetterSegment(name) = Word(name, k)
  BY <1>3, <1>5 DEF LetterSegment, SelectLastInSeq
<1> QED
  BY <1>2, <1>3, <1>6 DEF Word

\* A name without a letter says nothing; the description does.
LEMMA NoLetter ==
  ASSUME NEW name \in Seq(Text \ Letters)
  PROVE  LetterSegment(name) = None
BY DEF LetterSegment, SelectLastInSeq, Word

\* A rule that blocks blocks, and one that allows allows, however its name
\* is built.
LEMMA Firewalls ==
  ASSUME NEW m \in Meanings, m.kind = "firewall", NEW priority
  PROVE  LET log == Checked(Parsed(LineOf(m), priority))
         IN log.type = "firewall" /\ log.action = m.action /\ log.mac = "from"
<1> DEFINE b == LineOf(m)
           name == RuleOf(m)
           lettered == /\ m.style = "letter" /\ m.before \in Seq(Text) /\ m.after \in Seq(Text \ Letters)
                       /\ m.action \in {"allow", "block", "redirect"}
           described == /\ m.style = "descr" /\ m.before \in Seq(Text \ Letters)
                        /\ m.action \in {"allow", "block"}
<1>1. /\ m.long \in BOOLEAN /\ (lettered \/ described)
      /\ None \notin Text /\ None \notin Seq(Text)
  <2>1. IsMeaning(m)
    BY LinesAssumption
  <2> QED
    BY <2>1, LinesAssumption DEF IsMeaning
<1>2. /\ b.program = "kernel" /\ b.rule = name
      /\ b.mac = (IF m.long THEN <<"to", "from">> ELSE <<"from">>)
      /\ b.words = {"SRC=", "DST=", "PROTO="} \cup (IF m.style = "descr" THEN {"DESCR="} ELSE {})
      /\ b.descr = (IF m.style = "descr" THEN <<"[WAN_LOCAL]", m.action>> ELSE None)
  BY <1>1 DEF LineOf, Blank
<1>3. detect_log_type(b) = "firewall"
  <2>1. \A w \in {"SRC=", "DST=", "PROTO="} : Says(b, w)
    BY <1>2, WordsInWords DEF Says
  <2> QED
    BY <2>1 DEF detect_log_type
<1>4. extract_src_mac(b.mac) = "from"
  BY <1>1, <1>2 DEF extract_src_mac
<1>5. derive_action(name, b.descr) = m.action
  <2>1. CASE lettered
    <3>1. name = m.before \o <<Letter(m.action)>> \o m.after
      BY <2>1 DEF RuleOf
    <3>2. /\ Letter(m.action) \in Letters
          /\ Letter(m.action) = (CASE m.action = "allow" -> "A" [] m.action = "block" -> "D" [] OTHER -> "R")
      BY <2>1 DEF Letter, Letters
    <3>3. LetterSegment(name) = Letter(m.action)
      BY <2>1, <3>1, <3>2, LastLetter
    <3>4. name # None
      <4>1. Letter(m.action) \in Text
        BY <3>2, LinesAssumption
      <4>2. name \in Seq(Text)
        BY <2>1, <3>1, <4>1
      <4> QED
        BY <1>1, <4>2
    <3> HIDE DEF name
    <3> QED
      BY <2>1, <3>2, <3>3, <3>4 DEF derive_action
  <2>2. CASE described
    <3>1. name = m.before /\ name \in Seq(Text)
      BY <2>2 DEF RuleOf
    <3>2. LetterSegment(name) = None /\ name # None
      BY <1>1, <2>2, <3>1, NoLetter
    <3>3. b.descr # None /\ Last(b.descr) = m.action
      <4>1. b.descr = <<"[WAN_LOCAL]", m.action>>
        BY <1>2, <2>2
      <4> HIDE DEF b
      <4>2. m.action \in Text /\ "[WAN_LOCAL]" \in Text
        BY <2>2, LinesAssumption
      <4>3. b.descr \in Seq(Text) /\ Len(b.descr) = 2
        BY <4>1, <4>2
      <4>4. b.descr[2] = m.action
        BY <4>1
      <4> QED
        BY <1>1, <4>3, <4>4 DEF Last
    <3>4. (m.action = "allow" \/ m.action = "block") /\ None \notin Letters
      BY <2>2, LinesAssumption
    <3> HIDE DEF name, b
    <3>5. CASE m.action = "allow"
      BY <3>2, <3>3, <3>4, <3>5 DEF derive_action, Letters
    <3>6. CASE m.action = "block"
      BY <3>2, <3>3, <3>4, <3>6 DEF derive_action, Letters
    <3> QED
      BY <3>4, <3>5, <3>6
  <2> QED
    BY <1>1, <2>1, <2>2
<1> DEFINE p == parse_body(b, detect_log_type(b))
<1>6. DOMAIN p = DOMAIN NoLog /\ p.type = "firewall" /\ p.action = m.action /\ p.mac = "from"
  <2> HIDE DEF b
  <2>1. p = parse_firewall(b)
    BY <1>3 DEF parse_body
  <2> QED
    BY <1>2, <1>4, <1>5, <2>1 DEF parse_firewall, NoLog
<1> HIDE DEF b, p
<1>7. Keeps(Checked(Parsed(b, priority)), p)
  BY <1>2, <1>6, RecordKeeps DEF p
<1> QED
  BY <1>6, <1>7 DEF Keeps, b

LEMMA DhcpWords ==
  \A w : w \in Range(DHCP_EVENTS) <=>
          \/ w = "DHCPACK" \/ w = "DHCPREQUEST" \/ w = "DHCPOFFER" \/ w = "DHCPDISCOVER"
          \/ w = "DHCPRELEASE" \/ w = "DHCPNAK" \/ w = "DHCPDECLINE" \/ w = "DHCPINFORM"
<1>1. DOMAIN DHCP_EVENTS = 1..8
  BY DEF DHCP_EVENTS
<1> QED
  BY <1>1 DEF DHCP_EVENTS, Range

\* The kind of a line that is not the firewall's is what its words say.
LEMMA KindOfWords ==
  ASSUME NEW b, ~b.bracket, ~Says(b, "SRC=") \/ ~Says(b, "DST=")
  PROVE  LET any(S) == \E w \in S : Says(b, w)
         IN detect_log_type(b) =
              IF any({"dnsmasq-dhcp"} \cup Range(DHCP_EVENTS)) THEN "dhcp"
              ELSE IF Says(b, "dnsmasq") /\ any({"query[", "reply ", "forwarded ", "cached "}) THEN "dns"
              ELSE IF \/ any({"stamgr", "hostapd", "stahtd"})
                      \/ Says(b, "STA ") /\ any({"associated", "authenticated"}) THEN "wifi"
              ELSE "system"
BY DEF detect_log_type

\* Where the words of a line are that was put together of several parts.
LEMMA TwoParts ==
  ASSUME NEW T, NEW s \in Seq(T), NEW t \in Seq(T)
  PROVE  /\ s \o t \in Seq(T) /\ Len(s \o t) = Len(s) + Len(t)
         /\ \A j \in 1..Len(s) : (s \o t)[j] = s[j]
         /\ t # <<>> => Len(t) >= 1 /\ (s \o t)[Len(s) + 1] = t[1]
<1>1. s \o t \in Seq(T) /\ Len(s \o t) = Len(s) + Len(t)
  OBVIOUS
<1>2. \A j \in 1..Len(s) : (s \o t)[j] = s[j]
  OBVIOUS
<1>3. t # <<>> => Len(t) >= 1 /\ (s \o t)[Len(s) + 1] = t[1]
  OBVIOUS
<1> QED
  BY <1>1, <1>2, <1>3

IsChain(all, T, s, w, t, u) ==
  /\ all \in Seq(T) /\ Len(all) = Len(s) + 1 + Len(t) + Len(u)
  /\ \A j \in 1..Len(s) : all[j] = s[j]
  /\ all[Len(s) + 1] = w
  /\ t # <<>> => Len(t) >= 1 /\ all[Len(s) + 2] = t[1]

LEMMA FourParts ==
  ASSUME NEW T, NEW s \in Seq(T), NEW w \in T, NEW t \in Seq(T), NEW u \in Seq(T),
         NEW all, all = s \o <<w>> \o t \o u
  PROVE  IsChain(all, T, s, w, t, u)
<1> DEFINE v == s \o <<w>>
           x == v \o t
<1>1. /\ v \in Seq(T) /\ Len(v) = Len(s) + 1 /\ v[Len(s) + 1] = w
      /\ \A j \in 1..Len(s) : v[j] = s[j]
  OBVIOUS
<1> HIDE DEF v
<1>2. /\ v \o t \in Seq(T) /\ Len(v \o t) = Len(v) + Len(t)
      /\ \A j \in 1..Len(v) : (v \o t)[j] = v[j]
      /\ t # <<>> => Len(t) >= 1 /\ (v \o t)[Len(v) + 1] = t[1]
  <2>1. v \in Seq(T)
    BY <1>1
  <2> QED
    BY <2>1, TwoParts, Zenon
<1>3. /\ x \o u \in Seq(T) /\ Len(x \o u) = Len(x) + Len(u)
      /\ \A j \in 1..Len(x) : (x \o u)[j] = x[j]
  <2>1. x \in Seq(T)
    BY <1>2
  <2> HIDE DEF x
  <2> QED
    BY <2>1, TwoParts, Zenon
<1> HIDE DEF x
<1>4. Len(s) \in Nat /\ Len(t) \in Nat
  OBVIOUS
<1> QED
  BY <1>1, <1>2, <1>3, <1>4 DEF x, v, IsChain

IsRead(args, ip, host, reason, i) ==
  /\ Word(ip, 1) = (IF Word(args, 1) = "address" THEN "address" ELSE None)
  /\ Word(args, i) = "from"
  /\ host # <<>> \/ reason = <<>> => Word(args, i + 1) = Word(host, 1)

\* The word after the address is the MAC's, and the one after that a name's.
LEMMA LeaseWords ==
  ASSUME NEW ip \in {<<>>, <<"address">>}, NEW host \in Seq(Text), NEW reason \in Seq(Text),
         NEW args, args = ip \o <<"from">> \o host \o reason
  PROVE  IsRead(args, ip, host, reason, IF Word(args, 1) = "address" THEN 2 ELSE 1)
<1> DEFINE n == Len(ip)
<1>1. "from" \in Text /\ "address" \in Text
  BY LinesAssumption
<1>2. ip \in Seq(Text)
  <2>1. <<>> \in Seq(Text)
    OBVIOUS
  <2>2. <<"address">> \in Seq(Text)
    BY <1>1
  <2> QED
    BY <2>1, <2>2
<1>3. /\ args \in Seq(Text) /\ Len(args) = n + 1 + Len(host) + Len(reason)
      /\ \A j \in 1..n : args[j] = ip[j]
      /\ args[n + 1] = "from"
      /\ host # <<>> => Len(host) >= 1 /\ args[n + 2] = host[1]
  <2>1. IsChain(args, Text, ip, "from", host, reason)
    BY <1>1, <1>2, FourParts
  <2> QED
    BY <2>1 DEF IsChain
<1>4. /\ Len(host) \in Nat /\ Len(reason) \in Nat /\ DOMAIN host = 1..Len(host)
      /\ (host = <<>> => Len(host) = 0) /\ (reason = <<>> => Len(reason) = 0)
  OBVIOUS
<1>5. DOMAIN args = 1..Len(args)
  BY <1>3
<1>6. \/ n = 0 /\ Word(ip, 1) = None
      \/ n = 1 /\ Word(ip, 1) = "address" /\ ip[1] = "address"
  BY DEF Word
<1>7. Word(args, n + 1) = "from"
  BY <1>3, <1>4, <1>5, <1>6 DEF Word
<1>8. Word(args, 1) = (IF n = 0 THEN "from" ELSE "address")
  BY <1>3, <1>4, <1>5, <1>6, <1>7 DEF Word
<1>9. host # <<>> \/ reason = <<>> => Word(args, n + 2) = Word(host, 1)
  <2>1. CASE host # <<>>
    <3>1. n + 2 \in DOMAIN args /\ 1 \in DOMAIN host
      BY <1>3, <1>4, <1>5, <1>6, <2>1
    <3> QED
      BY <1>3, <2>1, <3>1 DEF Word
  <2>2. CASE host = <<>> /\ reason = <<>>
    <3>1. n + 2 \notin DOMAIN args /\ 1 \notin DOMAIN host
      BY <1>3, <1>4, <1>5, <1>6, <2>2
    <3> QED
      BY <3>1 DEF Word
  <2> QED
    BY <2>1, <2>2
<1> HIDE DEF n
<1> QED
  BY <1>6, <1>7, <1>8, <1>9 DEF IsRead

\* A lease is read with its address, its MAC and the name, if any of them is
\* there.
LEMMA Leases ==
  ASSUME NEW m \in Meanings, m.kind = "dhcp", NEW priority
  PROVE  LET log == Checked(Parsed(LineOf(m), priority))
         IN /\ log.type = "dhcp" /\ log.event = m.event /\ log.mac = "from" /\ log.src = Word(m.ip, 1)
            /\ m.host # <<>> \/ m.reason = <<>> => log.host = Word(m.host, 1)
<1> DEFINE b == LineOf(m)
           p == parse_body(b, detect_log_type(b))
<1>1. /\ m.event \in Text /\ m.ip \in {<<>>, <<"address">>}
      /\ m.host \in Seq(Text \ {"<none>"}) /\ m.reason \in Seq(Text)
      /\ None \notin Text
  <2>1. IsMeaning(m)
    BY LinesAssumption
  <2> QED
    BY <2>1, LinesAssumption DEF IsMeaning
<1>2. /\ b.program = "dnsmasq-dhcp" /\ b.words = {"dnsmasq-dhcp", m.event} /\ b.bracket = FALSE
      /\ b.event = m.event /\ b.args = m.ip \o <<"from">> \o m.host \o m.reason
  BY DEF LineOf, Blank
<1>3. detect_log_type(b) = "dhcp"
  <2>1. Says(b, "dnsmasq-dhcp") /\ (~Says(b, "SRC=") \/ ~Says(b, "DST="))
    BY <1>2, WordsInWords DEF Says
  <2> HIDE DEF b
  <2> QED
    BY <1>2, <2>1, KindOfWords
<1>4. p = parse_dhcp(b)
  BY <1>3 DEF parse_body
<1> HIDE DEF b
<1>5. /\ DOMAIN p = DOMAIN NoLog /\ p.type = "dhcp" /\ p.event = m.event
      /\ p.src = Word(m.ip, 1) /\ p.mac = "from"
      /\ m.host # <<>> \/ m.reason = <<>> => p.host = Word(m.host, 1)
  <2> DEFINE i == IF Word(b.args, 1) = "address" THEN 2 ELSE 1
  <2>1. m.event # None
    BY <1>1
  <2>2. p = [NoLog EXCEPT !.type = "dhcp", !.event = b.event,
               !.src = IF Word(b.args, 1) = "address" THEN "address" ELSE None, !.mac = Word(b.args, i),
               !.host = IF Word(b.args, i + 1) = "<none>" THEN None ELSE Word(b.args, i + 1)]
    BY <1>2, <1>4, <2>1 DEF parse_dhcp
  <2>3. /\ Word(m.ip, 1) = (IF Word(b.args, 1) = "address" THEN "address" ELSE None)
        /\ Word(b.args, i) = "from"
        /\ m.host # <<>> \/ m.reason = <<>> => Word(b.args, i + 1) = Word(m.host, 1)
    <3>1. m.host \in Seq(Text)
      BY <1>1
    <3>2. IsRead(b.args, m.ip, m.host, m.reason, i)
      BY <1>1, <1>2, <3>1, LeaseWords
    <3> HIDE DEF i
    <3> QED
      BY <3>2 DEF IsRead
  <2>4. Word(m.host, 1) = None \/ Word(m.host, 1) # "<none>"
    BY <1>1 DEF Word
  <2>5. /\ DOMAIN p = DOMAIN NoLog /\ p.type = "dhcp" /\ p.event = b.event
        /\ p.src = (IF Word(b.args, 1) = "address" THEN "address" ELSE None) /\ p.mac = Word(b.args, i)
        /\ p.host = (IF Word(b.args, i + 1) = "<none>" THEN None ELSE Word(b.args, i + 1))
    <3> HIDE DEF p, i
    <3> QED
      BY <2>2 DEF NoLog
  <2> HIDE DEF p, i
  <2> QED
    BY <1>2, <2>3, <2>4, <2>5
<1>6. Keeps(Checked(Parsed(b, priority)), p)
  <2> HIDE DEF p
  <2> QED
  BY <1>2, <1>5, RecordKeeps DEF p
<1> QED
  BY <1>5, <1>6 DEF Keeps, b

\* A line of the resolver is read with the name it asks for.
LEMMA Names ==
  ASSUME NEW m \in Meanings, m.kind = "dns", NEW priority
  PROVE  LET log == Checked(Parsed(LineOf(m), priority))
         IN IF m.event = "config " THEN log.type = "system" ELSE log.type = "dns" /\ log.query = "name"
<1> DEFINE b == LineOf(m)
           p == parse_body(b, detect_log_type(b))
<1>1. m.event \in {"query[", "reply ", "cached ", "forwarded ", "config "}
  <2>1. IsMeaning(m)
    BY LinesAssumption
  <2> QED
    BY <2>1 DEF IsMeaning
<1>2. /\ b.program = "dnsmasq" /\ b.words = {"dnsmasq", m.event} /\ b.bracket = FALSE /\ b.event = m.event
      /\ b.args = (CASE m.event = "query["     -> <<"name", "from", "asker">>
                      [] m.event = "forwarded " -> <<"name", "to", "server">>
                      [] m.event \in {"reply ", "cached "} -> <<"name", "is", "answer">>
                      [] OTHER -> <<>>)
  BY DEF LineOf, Blank
<1> HIDE DEF b
<1>3. \A w : Says(b, w) <=> w = "dnsmasq" \/ w = m.event
  BY <1>1, <1>2, WordsInWords DEF Says
<1>4. detect_log_type(b) = IF m.event = "config " THEN "system" ELSE "dns"
  <2>1. ~Says(b, "SRC=") /\ \A w \in {"dnsmasq-dhcp"} \cup Range(DHCP_EVENTS) : ~Says(b, w)
    BY <1>1, <1>3, DhcpWords
  <2>2. Says(b, "dnsmasq") /\ ~Says(b, "STA ") /\ \A w \in {"stamgr", "hostapd", "stahtd"} : ~Says(b, w)
    BY <1>1, <1>3
  <2>3. CASE m.event = "config "
    <3>1. \A w \in {"query[", "reply ", "forwarded ", "cached "} : ~Says(b, w)
      BY <1>3, <2>3
    <3> QED
      BY <1>2, <2>1, <2>2, <2>3, <3>1, KindOfWords
  <2>4. CASE m.event # "config "
    <3>1. \E w \in {"query[", "reply ", "forwarded ", "cached "} : Says(b, w)
      BY <1>1, <1>3, <2>4
    <3> QED
      BY <1>2, <2>1, <2>2, <2>4, <3>1, KindOfWords
  <2> QED
    BY <2>3, <2>4
<1>5. CASE m.event = "config "
  <2>1. p = NoLog
    BY <1>4, <1>5 DEF parse_body
  <2>2. DOMAIN p = DOMAIN NoLog /\ p.type = "system"
    BY <2>1 DEF NoLog
  <2>3. Keeps(Checked(Parsed(b, priority)), p)
    BY <1>2, <2>2, RecordKeeps DEF p
  <2>4. Checked(Parsed(b, priority)).type = "system"
    <3> HIDE DEF p
    <3> QED
      BY <2>2, <2>3 DEF Keeps
  <2> QED
    BY <1>5, <2>4 DEF b
<1>6. CASE m.event # "config "
  <2>1. p = parse_dns(b)
    BY <1>4, <1>6 DEF parse_body
  <2>2. DOMAIN p = DOMAIN NoLog /\ p.type = "dns" /\ p.query = "name"
    <3>1. CASE m.event = "query["
      <4>1. Word(b.args, 1) = "name"
        BY <1>2, <3>1 DEF Word
      <4> QED
        BY <1>2, <2>1, <3>1, <4>1 DEF parse_dns, NoLog
    <3>2. CASE m.event # "query["
      <4>1. /\ Word(b.args, 2) = (IF m.event = "forwarded " THEN "to" ELSE "is")
            /\ Len(b.args) > 2 /\ b.args[1] = "name"
        <5>1. CASE m.event = "forwarded "
          <6>1. b.args = <<"name", "to", "server">>
            BY <1>2, <5>1
          <6>2. /\ Len(b.args) > 2 /\ b.args[1] = "name"
                /\ 2 \in DOMAIN b.args /\ b.args[2] = "to"
            BY <6>1
          <6>3. Word(b.args, 2) = "to"
            BY <6>2 DEF Word
          <6> QED
            BY <5>1, <6>2, <6>3
        <5>2. CASE m.event \in {"reply ", "cached "}
          <6>1. b.args = <<"name", "is", "answer">>
            BY <1>2, <5>2
          <6>2. /\ Len(b.args) > 2 /\ b.args[1] = "name"
                /\ 2 \in DOMAIN b.args /\ b.args[2] = "is"
            BY <6>1
          <6>3. Word(b.args, 2) = "is"
            BY <6>2 DEF Word
          <6> QED
            BY <5>2, <6>2, <6>3
        <5> QED
          BY <1>1, <1>6, <3>2, <5>1, <5>2
      <4> DEFINE linked == Word(b.args, 2) = (IF m.event = "forwarded " THEN "to" ELSE "is") /\ Len(b.args) > 2
      <4>2. linked
        BY <4>1
      <4>3. p = [NoLog EXCEPT !.type = "dns", !.query = IF linked THEN b.args[1] ELSE None,
                   !.answer = IF linked /\ m.event # "forwarded " THEN b.args[3] ELSE None,
                   !.dst = IF linked /\ m.event = "forwarded " THEN b.args[3] ELSE None]
        BY <1>2, <2>1, <3>2 DEF parse_dns
      <4> HIDE DEF p, linked
      <4> QED
        BY <4>1, <4>2, <4>3 DEF NoLog
    <3> QED
      BY <3>1, <3>2
  <2> HIDE DEF p
  <2>3. Keeps(Checked(Parsed(b, priority)), p)
    BY <1>2, <2>2, RecordKeeps DEF p
  <2> QED
    BY <1>6, <2>2, <2>3 DEF Keeps, b
<1> QED
  BY <1>5, <1>6

EventsAre(E) ==
  /\ Len(E) = 8 /\ DOMAIN E = 1..8
  /\ E[1] = "disassociated" /\ E[2] = "deauthenticated" /\ E[3] = "associated" /\ E[4] = "authenticated"
  /\ E[5] = "disconnected" /\ E[6] = "connected" /\ E[7] = "key handshake completed" /\ E[8] = "roamed"
  /\ \A i \in 1..8 : E[i] # "hostapd" /\ E[i] # "STA " /\ E[i] # "dnsmasq" /\ E[i] # "dnsmasq-dhcp"
  /\ \A i, k \in 1..8 : E[i] = E[k] => i = k
  /\ \A i \in 1..8 : /\ E[i] = "disassociated" => i = 1
                     /\ E[i] = "deauthenticated" => i = 2
                     /\ E[i] = "associated" => i = 3
                     /\ E[i] = "authenticated" => i = 4
                     /\ E[i] = "disconnected" => i = 5
                     /\ E[i] = "connected" => i = 6

LEMMA EventList == EventsAre(WIFI_EVENTS)
<1> DEFINE E == WIFI_EVENTS
<1>1. Len(E) = 8 /\ DOMAIN E = 1..8
  BY DEF WIFI_EVENTS
<1>2. /\ E[1] = "disassociated" /\ E[2] = "deauthenticated" /\ E[3] = "associated" /\ E[4] = "authenticated"
      /\ E[5] = "disconnected" /\ E[6] = "connected" /\ E[7] = "key handshake completed" /\ E[8] = "roamed"
  BY DEF WIFI_EVENTS
<1> HIDE DEF E
<1>3. \A i \in 1..8 : i = 1 \/ i = 2 \/ i = 3 \/ i = 4 \/ i = 5 \/ i = 6 \/ i = 7 \/ i = 8
  OBVIOUS
<1>4. \A i \in 1..8 : E[i] # "hostapd" /\ E[i] # "STA " /\ E[i] # "dnsmasq" /\ E[i] # "dnsmasq-dhcp"
  BY <1>2, <1>3
<1>5. \A i, k \in 1..8 : E[i] = E[k] => i = k
  BY <1>2, <1>3
<1>6. \A i \in 1..8 : /\ E[i] = "disassociated" => i = 1
                      /\ E[i] = "deauthenticated" => i = 2
                      /\ E[i] = "associated" => i = 3
                      /\ E[i] = "authenticated" => i = 4
                      /\ E[i] = "disconnected" => i = 5
                      /\ E[i] = "connected" => i = 6
  BY <1>2, <1>3
<1>7. EventsAre(E)
  BY <1>1, <1>2, <1>4, <1>5, <1>6 DEF EventsAre
<1> QED
  BY <1>7 DEF E

\* A word is looked for before the words it is in are.
LEMMA LongerFirst ==
  \A i, k \in 1..8 : WIFI_EVENTS[i] \in Inside(WIFI_EVENTS[k]) => k <= i
<1> SUFFICES ASSUME NEW i \in 1..8, NEW k \in 1..8, WIFI_EVENTS[i] \in Inside(WIFI_EVENTS[k]) PROVE k <= i
  OBVIOUS
<1> DEFINE E == WIFI_EVENTS
<1> HIDE DEF E
<1>1. CASE E[i] = E[k]
  <2>1. EventsAre(E)
    BY EventList DEF E
  <2>2. i = k
    BY <1>1, <2>1 DEF EventsAre
  <2> QED
    BY <2>2
<1>2. CASE E[i] # E[k]
  <2>1. \/ E[k] = "disassociated" /\ E[i] = "associated"
        \/ E[k] = "deauthenticated" /\ E[i] = "authenticated"
        \/ E[k] = "disconnected" /\ E[i] = "connected"
    <3>1. E[k] # "dnsmasq-dhcp" /\ E[i] \in Inside(E[k])
      BY EventList DEF E, EventsAre
    <3> QED
      BY <1>2, <3>1, WordsInWords
  <2>2. (k = 1 /\ i = 3) \/ (k = 2 /\ i = 4) \/ (k = 5 /\ i = 6)
    BY <2>1, EventList DEF E, EventsAre
  <2> QED
    BY <2>2
<1> QED
  BY <1>1, <1>2

\* What SelectInSeq looks for.
LEMMA FirstIsMin ==
  ASSUME NEW I, I \subseteq Nat, NEW k \in I, \A i \in I : k <= i
  PROVE  Min(I) = k
<1>1. \A x \in I : (\A y \in I : x <= y) => x = k
  OBVIOUS
<1>2. \E x \in I : \A y \in I : x <= y
  OBVIOUS
<1> QED
  BY <1>1, <1>2 DEF Min

\* An end is never read as a beginning, although the one word is in the other.
LEMMA FirstEvent ==
  ASSUME NEW b, NEW event, \A i \in 1..8 : Says(b, WIFI_EVENTS[i]) <=> WIFI_EVENTS[i] \in Inside(event)
  PROVE  /\ event \in Range(WIFI_EVENTS) => FirstContained(b, WIFI_EVENTS) = event
         /\ event \notin Range(WIFI_EVENTS) => FirstContained(b, WIFI_EVENTS) = None
<1> DEFINE E == WIFI_EVENTS
           at == {i \in 1..Len(E) : Says(b, E[i])}
<1> HIDE DEF E
<1>1. Len(E) = 8 /\ DOMAIN E = 1..8
  BY EventList DEF E, EventsAre
<1>2. at = {i \in 1..8 : E[i] \in Inside(event)}
  BY <1>1 DEF E
<1>3. FirstContained(b, E) = Word(E, IF at # {} THEN Min(at) ELSE 0)
  BY DEF FirstContained, SelectInSeq
<1> HIDE DEF at
<1>4. CASE event \in Range(E)
  <2>1. PICK k \in 1..8 : event = E[k]
    BY <1>1, <1>4 DEF Range
  <2>2. k \in at
    BY <1>2, <2>1, WordsInWords
  <2>3. \A i \in at : k <= i
    BY <1>2, <2>1, LongerFirst DEF E
  <2>4. Min(at) = k
    <3>1. at \subseteq Nat
      BY <1>2
    <3> QED
      BY <2>2, <2>3, <3>1, FirstIsMin
  <2>5. k \in DOMAIN E /\ at # {}
    BY <1>1, <2>2
  <2> QED
    BY <1>3, <1>4, <2>1, <2>4, <2>5 DEF Word, E
<1>5. CASE event \notin Range(E)
  <2>1. \A i \in 1..8 : E[i] # event
    BY <1>1, <1>5 DEF Range
  <2>2. at = {}
    <3> SUFFICES ASSUME NEW i \in 1..8, E[i] \in Inside(event) PROVE FALSE
      BY <1>2
    <3>1. event = "disassociated" \/ event = "deauthenticated" \/ event = "disconnected" \/ E[i] = "dnsmasq"
      BY <2>1, WordsInWords
    <3>2. E[1] # event /\ E[2] # event /\ E[5] # event
      BY <2>1
    <3> QED
      BY <3>1, <3>2, EventList DEF E, EventsAre
  <2>3. 0 \notin DOMAIN E
    BY <1>1
  <2> QED
    BY <1>3, <1>5, <2>2, <2>3 DEF Word, E
<1> QED
  BY <1>4, <1>5 DEF E

\* What happens to a station is stored under the word that was written.
LEMMA Stations ==
  ASSUME NEW m \in Meanings, m.kind = "wifi", NEW priority
  PROVE  LET log == Checked(Parsed(LineOf(m), priority))
         IN log.type = "wifi" /\ log.event = m.event /\ log.mac = "from"
<1> DEFINE b == LineOf(m)
           p == parse_body(b, detect_log_type(b))
<1>1. m.event \in Text \ Keywords /\ None \notin Text
  <2>1. IsMeaning(m)
    BY LinesAssumption
  <2> QED
    BY <2>1, LinesAssumption DEF IsMeaning
<1>2. /\ b.program = "hostapd" /\ b.words = {"hostapd", "STA ", m.event} /\ b.bracket = FALSE
      /\ b.tail = m.event /\ b.mac = <<"from">>
  BY DEF LineOf, Blank
<1> HIDE DEF b
<1>3. \A w : Says(b, w) <=> \E v \in {"hostapd", "STA ", m.event} : w \in Inside(v)
  BY <1>2 DEF Says
<1>4. /\ m.event \notin {"dnsmasq-dhcp", "stahtd"} \cup Range(DHCP_EVENTS)
      /\ \A w \in {"dnsmasq-dhcp", "stahtd", "SRC=", "DST="} \cup Range(DHCP_EVENTS) :
           Says(b, w) => w = m.event
      /\ Says(b, "dnsmasq") => m.event = "dnsmasq"
      /\ Says(b, "hostapd") /\ Says(b, "STA ")
  <2>1. m.event \notin {"dnsmasq-dhcp", "stahtd"} \cup Range(DHCP_EVENTS)
    BY <1>1 DEF Keywords
  <2>2. \A v, w : w \in {"dnsmasq-dhcp", "stahtd", "SRC=", "DST="} \cup Range(DHCP_EVENTS) /\ w \in Inside(v) => w = v
    BY WordsInWords, DhcpWords
  <2>3. \A w \in {"dnsmasq-dhcp", "stahtd", "SRC=", "DST="} \cup Range(DHCP_EVENTS) : w # "hostapd" /\ w # "STA "
    BY DhcpWords
  <2>4. Says(b, "hostapd") /\ Says(b, "STA ")
    BY <1>3, WordsInWords
  <2>5. ~Says(b, "dnsmasq") \/ m.event = "dnsmasq"
    <3>1. \A v : "dnsmasq" \in Inside(v) => v = "dnsmasq" \/ v = "dnsmasq-dhcp"
      BY WordsInWords
    <3> QED
      BY <1>3, <2>1, <3>1
  <2> QED
    BY <1>3, <2>1, <2>2, <2>3, <2>4, <2>5
<1>5. detect_log_type(b) = "wifi"
  <2>1. ~Says(b, "SRC=") \/ ~Says(b, "DST=")
    BY <1>4
  <2>2. ~\E w \in {"dnsmasq-dhcp"} \cup Range(DHCP_EVENTS) : Says(b, w)
    BY <1>4
  <2>3. ~(Says(b, "dnsmasq") /\ \E w \in {"query[", "reply ", "forwarded ", "cached "} : Says(b, w))
    BY <1>3, <1>4, WordsInWords
  <2> QED
    BY <1>2, <1>4, <2>1, <2>2, <2>3, KindOfWords
<1>6. p = parse_wifi(b)
  BY <1>5 DEF parse_body
<1>7. DOMAIN p = DOMAIN NoLog /\ p.type = "wifi" /\ p.event = m.event /\ p.mac = "from"
  <2> DEFINE known == FirstContained(b, WIFI_EVENTS)
  <2>1. ~Says(b, "stahtd")
    BY <1>4
  <2>2. m.event = (IF known # None THEN known ELSE b.tail)
    <3>1. \A i \in 1..8 : Says(b, WIFI_EVENTS[i]) <=> WIFI_EVENTS[i] \in Inside(m.event)
      <4> TAKE i \in 1..8
      <4>1. WIFI_EVENTS[i] # "hostapd" /\ WIFI_EVENTS[i] # "STA "
        BY EventList DEF EventsAre
      <4>2. WIFI_EVENTS[i] \notin Inside("hostapd") /\ WIFI_EVENTS[i] \notin Inside("STA ")
        BY <4>1, WordsInWords
      <4> QED
        BY <1>3, <4>2
    <3> QED
      BY <1>1, <1>2, <3>1, FirstEvent
  <2>3. p = [NoLog EXCEPT !.type = "wifi", !.mac = "from", !.event = m.event]
    <3>1. b.mac[1] = "from"
      <4>1. b.mac = <<"from">>
        BY <1>2
      <4> QED
        BY <4>1
    <3> HIDE DEF p
    <3> QED
      BY <1>4, <1>6, <2>1, <2>2, <3>1 DEF parse_wifi
  <2> HIDE DEF p
  <2> QED
    BY <2>3 DEF NoLog
<1> HIDE DEF p
<1>8. Keeps(Checked(Parsed(b, priority)), p)
  BY <1>2, <1>7, RecordKeeps DEF p
<1> QED
  BY <1>7, <1>8 DEF Keeps, b

\* A station that moves keeps its MAC, unless it is damaged.
LEMMA Roams ==
  ASSUME NEW m \in Meanings, m.kind = "roaming", NEW priority
  PROVE  LET log == Checked(Parsed(LineOf(m), priority))
         IN log.type = "wifi" /\ log.mac = (IF m.json.mac = "damaged" THEN None ELSE m.json.mac)
<1> DEFINE b == LineOf(m)
           p == parse_body(b, detect_log_type(b))
<1>1. m.json # None
  <2>1. IsMeaning(m)
    BY LinesAssumption
  <2> QED
    BY <2>1, LinesAssumption DEF IsMeaning
<1>2. /\ b.program = "stahtd" /\ b.words = {"stahtd"} /\ b.bracket = FALSE /\ b.json = m.json
  BY DEF LineOf, Blank
<1> HIDE DEF b
<1>3. \A w : Says(b, w) <=> w = "stahtd"
  BY <1>2, WordsInWords DEF Says
<1>4. detect_log_type(b) = "wifi"
  BY <1>2, <1>3, KindOfWords, DhcpWords
<1>5. p = parse_wifi(b)
  BY <1>4 DEF parse_body
<1>6. DOMAIN p = DOMAIN NoLog /\ p.type = "wifi" /\ p.mac = m.json.mac
  <2>1. Says(b, "stahtd") /\ b.json = m.json
    BY <1>2, <1>3
  <2>2. m.json # None
    BY <1>1
  <2>3. \E ev : p = [NoLog EXCEPT !.type = "wifi", !.event = ev, !.mac = m.json.mac]
    BY <1>5, <2>1, <2>2 DEF parse_wifi
  <2> HIDE DEF p
  <2> QED
    BY <2>3 DEF NoLog
<1> HIDE DEF p
<1> QED
  BY <1>2, <1>6, RecordKeeps DEF p, Keeps, b

\* What no parser knows is the system's.
LEMMA Others ==
  ASSUME NEW m \in Meanings, m.kind = "other", NEW priority
  PROVE  Checked(Parsed(LineOf(m), priority)).type = "system"
<1> DEFINE b == LineOf(m)
           p == parse_body(b, detect_log_type(b))
<1>1. m.event \notin Keywords
  <2>1. IsMeaning(m)
    BY LinesAssumption
  <2> QED
    BY <2>1 DEF IsMeaning
<1>2. b.program = "systemd" /\ b.words = {m.event} /\ b.bracket = FALSE
  BY DEF LineOf, Blank
<1> HIDE DEF b
<1>3. \A w : Says(b, w) <=> w \in Inside(m.event)
  BY <1>2 DEF Says
<1>4. \A w \in Keywords : ~Says(b, w)
  BY <1>1, <1>3, WordsInWords, DhcpWords DEF Keywords
<1>5. detect_log_type(b) = "system"
  <2>1. ~Says(b, "SRC=") \/ ~Says(b, "DST=")
    BY <1>3, WordsInWords
  <2>2. ~Says(b, "dnsmasq") \/ ~\E w \in {"query[", "reply ", "forwarded ", "cached "} : Says(b, w)
    <3>1. Says(b, "dnsmasq") => m.event \in {"dnsmasq", "dnsmasq-dhcp"}
      BY <1>3, WordsInWords
    <3>2. \A w \in {"query[", "reply ", "forwarded ", "cached "} : Says(b, w) => m.event = w
      <4>1. \A v, w : w \in Inside(v) /\ (w = "query[" \/ w = "reply " \/ w = "forwarded " \/ w = "cached ") => v = w
        BY PlainWords
      <4> QED
        BY <1>3, <4>1
    <3> QED
      BY <3>1, <3>2
  <2>3. ~Says(b, "STA ") \/ ~\E w \in {"associated", "authenticated"} : Says(b, w)
    <3>1. Says(b, "STA ") => m.event = "STA "
      <4>1. \A v, w : w = "STA " /\ w \in Inside(v) => v = w
        BY PlainWords
      <4> QED
        BY <1>3, <4>1
    <3>2. \A w \in {"associated", "authenticated"} :
            Says(b, w) => m.event \in {w, "disassociated", "deauthenticated"}
      BY <1>3, WordsInWords
    <3> QED
      BY <3>1, <3>2
  <2> QED
    BY <1>2, <1>4, <2>1, <2>2, <2>3, KindOfWords DEF Keywords
<1>6. DOMAIN p = DOMAIN NoLog /\ p.type = "system"
  BY <1>5 DEF parse_body, NoLog
<1> HIDE DEF p
<1>7. Keeps(Checked(Parsed(b, priority)), p)
  BY <1>2, <1>6, RecordKeeps DEF p
<1> QED
  BY <1>6, <1>7 DEF Keeps, b

-----------------------------------------------------------------------------
(* The events of the controller.                                           *)

\* Keys count in the order in which they are named.
FirstOf(f, s) == Word(s, SelectInSeq(s, LAMBDA w : w \in DOMAIN f))

\* The first key there is of three.
LEMMA FirstGiven ==
  ASSUME NEW f, NEW x, NEW y, NEW z, x # None, y # None, z # None
  PROVE  FirstOf(f, <<x, y, z>>) =
           IF x \in DOMAIN f THEN x ELSE IF y \in DOMAIN f THEN y
           ELSE IF z \in DOMAIN f THEN z ELSE None
<1> DEFINE s == <<x, y, z>>
           I == {i \in 1..Len(s) : s[i] \in DOMAIN f}
<1>1. /\ Len(s) = 3 /\ 1 \in DOMAIN s /\ 2 \in DOMAIN s /\ 3 \in DOMAIN s /\ 0 \notin DOMAIN s
      /\ s[1] = x /\ s[2] = y /\ s[3] = z
  OBVIOUS
<1>2. FirstOf(f, s) = Word(s, IF I # {} THEN Min(I) ELSE 0)
  BY DEF FirstOf, SelectInSeq
<1> HIDE DEF s
<1>3. I \subseteq Nat /\ \A i \in I : i = 1 \/ i = 2 \/ i = 3
  BY <1>1
<1>4. CASE x \in DOMAIN f
  <2>1. 1 \in I /\ \A i \in I : 1 <= i
    BY <1>1, <1>3, <1>4
  <2>2. Min(I) = 1
    BY <1>3, <2>1, FirstIsMin
  <2> QED
    BY <1>1, <1>2, <1>4, <2>1, <2>2 DEF Word, s
<1>5. CASE x \notin DOMAIN f /\ y \in DOMAIN f
  <2>1. 2 \in I /\ \A i \in I : 2 <= i
    BY <1>1, <1>3, <1>5
  <2>2. Min(I) = 2
    BY <1>3, <2>1, FirstIsMin
  <2> QED
    BY <1>1, <1>2, <1>5, <2>1, <2>2 DEF Word, s
<1>6. CASE x \notin DOMAIN f /\ y \notin DOMAIN f /\ z \in DOMAIN f
  <2>1. 3 \in I /\ \A i \in I : 3 <= i
    BY <1>1, <1>3, <1>6
  <2>2. Min(I) = 3
    BY <1>3, <2>1, FirstIsMin
  <2> QED
    BY <1>1, <1>2, <1>6, <2>1, <2>2 DEF Word, s
<1>7. CASE x \notin DOMAIN f /\ y \notin DOMAIN f /\ z \notin DOMAIN f
  <2>1. I = {}
    BY <1>1, <1>3, <1>7
  <2> QED
    BY <1>1, <1>2, <1>7, <2>1 DEF Word, s
<1> QED
  BY <1>4, <1>5, <1>6, <1>7

\* An event of the controller names whom it concerns, by whichever key.
LEMMA Events ==
  ASSUME NEW m \in Meanings, m.kind = "cef", NEW priority
  PROVE  LET log == Checked(Parsed(LineOf(m), priority))
         IN /\ log.type = (IF m.signature \in {"400", "401", "402"} THEN "wifi" ELSE "system")
            /\ log.src = m.client
            /\ log.action = (IF m.signature = "203" THEN "block" ELSE None)
<1> DEFINE f == extension(m.fields)
           p == parse_cef(m)
<1>1. m.client = Concerned(m.fields)
  <2>1. IsMeaning(m)
    BY LinesAssumption
  <2> QED
    BY <2>1 DEF IsMeaning
<1>2. /\ \A k : k \in DOMAIN f <=> Given(m.fields, k)
      /\ \A k \in DOMAIN f : f[k] = m.fields[k]
  BY DEF extension, Given
<1>3. Parsed(LineOf(m), priority) = p
  BY DEF Parsed, LineOf, Blank
<1>4. /\ DOMAIN p = DOMAIN NoLog
      /\ p.type = (IF m.signature \in {"400", "401", "402"} THEN "wifi" ELSE "system")
      /\ p.action = (IF m.signature = "203" THEN "block" ELSE None)
      /\ p.src = m.client
  <2> DEFINE first(keys) == LET k == Word(keys, SelectInSeq(keys, LAMBDA x : x \in DOMAIN f))
                            IN IF k = None THEN None ELSE f[k]
             src  == first(<<"clientIp", "srcClientIp", "src">>)
             dst  == first(<<"dst", "dstClientIp">>)
             mac  == first(<<"clientMac", "srcClientMac">>)
             host == first(<<"clientAlias", "clientHostname">>)
             q == [NoLog EXCEPT !.severity = severity_from_cef(m.severity), !.program = "unifi",
                     !.src = src, !.dst = dst, !.mac = mac, !.host = host]
  <2>1. p = CASE m.signature \in {"400", "401", "402"} ->
                   [q EXCEPT !.type = "wifi", !.event = CASE m.signature = "400" -> "connected"
                               [] m.signature = "401" -> "disconnected" [] OTHER -> "roamed"]
              [] m.signature = "203" -> [q EXCEPT !.action = "block"]
              [] OTHER -> q
    BY DEF parse_cef
  <2>2. src = m.client
    <3> DEFINE k == Word(<<"clientIp", "srcClientIp", "src">>,
                         SelectInSeq(<<"clientIp", "srcClientIp", "src">>, LAMBDA x : x \in DOMAIN f))
    <3>1. None # "clientIp" /\ None # "srcClientIp" /\ None # "src"
      BY LinesAssumption
    <3>2. k = IF "clientIp" \in DOMAIN f THEN "clientIp" ELSE IF "srcClientIp" \in DOMAIN f THEN "srcClientIp"
              ELSE IF "src" \in DOMAIN f THEN "src" ELSE None
      <4>1. k = FirstOf(f, <<"clientIp", "srcClientIp", "src">>)
        BY DEF FirstOf, SelectInSeq
      <4> HIDE DEF k
      <4> QED
        BY <3>1, <4>1, FirstGiven
    <3>3. src = IF k = None THEN None ELSE f[k]
      OBVIOUS
    <3> HIDE DEF src, k, f
    <3> QED
      BY <1>1, <1>2, <3>1, <3>2, <3>3 DEF Concerned
  <2> HIDE DEF src, dst, mac, host, first
  <2>3. DOMAIN q = DOMAIN NoLog /\ q.type = "system" /\ q.action = None /\ q.src = src
    BY DEF NoLog
  <2>4. "type" \in DOMAIN q /\ "action" \in DOMAIN q /\ "event" \in DOMAIN q
    BY <2>3 DEF NoLog
  <2> HIDE DEF p, q
  <2>5. CASE m.signature \in {"400", "401", "402"}
    <3>1. m.signature # "203"
      BY <2>5
    <3> QED
      BY <2>1, <2>2, <2>3, <2>4, <2>5, <3>1
  <2>6. CASE m.signature \notin {"400", "401", "402"} /\ m.signature = "203"
    <3>1. p = [q EXCEPT !.action = "block"]
      BY <2>1, <2>6
    <3> QED
      BY <2>2, <2>3, <2>4, <2>6, <3>1
  <2>7. CASE m.signature \notin {"400", "401", "402"} /\ m.signature # "203"
    BY <2>1, <2>2, <2>3, <2>4, <2>7
  <2> QED
    BY <2>5, <2>6, <2>7
<1> HIDE DEF p
<1>5. Keeps(Checked(p), p)
  BY <1>4, CheckedKeeps
<1> QED
  BY <1>3, <1>4, <1>5 DEF Keeps

-----------------------------------------------------------------------------
(* The clock runs only between two lines, and what is read is what the     *)
(* parsers make of the line at its arrival.                                *)

LineOk(line) == line.meaning \in Meanings /\ line.stamp \in Nat /\ line.priority \in {None, 4, 30}

LinesInv ==
  /\ month \in Nat
  /\ wire # None => LineOk(wire)
  /\ entry # None => LineOk(entry.line) /\ entry.received = month /\ entry.read = parse_log(entry.line)

LEMMA KindsOfLines ==
  ASSUME NEW m \in Meanings
  PROVE  m.kind \in {"firewall", "dhcp", "dns", "wifi", "roaming", "cef", "other"}
BY LinesAssumption DEF IsMeaning

\* All kinds of lines.
LEMMA ReadAsMeant ==
  ASSUME NEW m \in Meanings, NEW priority
  PROVE  LET log == Checked(Parsed(LineOf(m), priority))
         IN /\ \A k \in DOMAIN Meant(m) : log[k] = Meant(m)[k]
            /\ m.kind = "dhcp" /\ (m.host # <<>> \/ m.reason = <<>>) => log.host = Word(m.host, 1)
<1> DEFINE log == Checked(Parsed(LineOf(m), priority))
<1>1. CASE m.kind = "firewall"
  BY <1>1, Firewalls DEF Meant
<1>2. CASE m.kind = "dhcp"
  BY <1>2, Leases DEF Meant
<1>3. CASE m.kind = "dns"
  <2>1. Meant(m) = IF m.event = "config " THEN [type |-> "system"] ELSE [type |-> "dns", query |-> "name"]
    BY <1>3 DEF Meant
  <2>2. IF m.event = "config " THEN log.type = "system" ELSE log.type = "dns" /\ log.query = "name"
    BY <1>3, Names
  <2> HIDE DEF log
  <2>3. \A k \in DOMAIN Meant(m) : log[k] = Meant(m)[k]
    <3>1. CASE m.event = "config "
      <4>1. Meant(m) = [type |-> "system"] /\ log.type = "system"
        BY <2>1, <2>2, <3>1
      <4> QED
        BY <4>1
    <3>2. CASE m.event # "config "
      <4>1. Meant(m) = [type |-> "dns", query |-> "name"]
        BY <2>1, <3>2
      <4>2. log.type = "dns" /\ log.query = "name"
        BY <2>2, <3>2
      <4> QED
        BY <4>1, <4>2
    <3> QED
      BY <3>1, <3>2
  <2> QED
    BY <1>3, <2>3 DEF log
<1>4. CASE m.kind = "wifi"
  BY <1>4, Stations DEF Meant
<1>5. CASE m.kind = "roaming"
  BY <1>5, Roams DEF Meant
<1>6. CASE m.kind = "cef"
  <2>1. Meant(m) = [type |-> IF m.signature \in {"400", "401", "402"} THEN "wifi" ELSE "system",
                    src |-> m.client, action |-> IF m.signature = "203" THEN "block" ELSE None]
    BY <1>6 DEF Meant
  <2>2. /\ log.type = (IF m.signature \in {"400", "401", "402"} THEN "wifi" ELSE "system")
        /\ log.src = m.client
        /\ log.action = (IF m.signature = "203" THEN "block" ELSE None)
    BY <1>6, Events
  <2> HIDE DEF log
  <2>3. \A k \in DOMAIN Meant(m) : log[k] = Meant(m)[k]
    BY <2>1, <2>2
  <2> QED
    BY <1>6, <2>3 DEF log
<1>7. CASE m.kind = "other"
  BY <1>7, Others DEF Meant
<1> QED
  BY <1>1, <1>2, <1>3, <1>4, <1>5, <1>6, <1>7, KindsOfLines

LEMMA LinesFromInv == LinesInv => LinesAreReadRight
<1> SUFFICES ASSUME LinesInv, entry # None, ~entry.line.gap
             PROVE  LET m     == entry.line.meaning
                        stamp == entry.line.stamp
                        late  == entry.received - stamp
                        read  == entry.read
                    IN /\ \A k \in DOMAIN Meant(m) : read.log[k] = Meant(m)[k]
                       /\ m.kind = "dhcp" /\ (m.host # <<>> \/ m.reason = <<>>) => read.log.host = Word(m.host, 1)
                       /\ late \in 0..5 => read.timestamp = stamp
                       /\ late = -1 => read.timestamp = (IF stamp % 12 = 0 THEN stamp - 12 ELSE stamp)
  BY DEF LinesAreReadRight
<1> DEFINE line == entry.line
           m == line.meaning
           t == 12 * YearOf(line.stamp) + (line.stamp % 12)
<1>1. LineOk(line) /\ entry.received = month /\ entry.read = parse_log(line) /\ month \in Nat
  BY DEF LinesInv
<1>2. t \in Int
  BY <1>1 DEF LineOk, YearOf
<1>3. parse_header(line) = [timestamp |-> t, priority |-> line.priority] /\ parse_header(line) # None
  BY <1>1, <1>2, LinesAssumption DEF parse_header, LineOk
<1>4. /\ entry.read.log = Checked(Parsed(LineOf(m), line.priority))
      /\ entry.read.timestamp = t
  BY <1>1, <1>3 DEF parse_log
<1>5. /\ month - line.stamp \in 0..5 => t = line.stamp
      /\ month - line.stamp = -1 => t = (IF line.stamp % 12 = 0 THEN line.stamp - 12 ELSE line.stamp)
  BY <1>1, YearIsRight DEF LineOk
<1>6. m \in Meanings
  BY <1>1 DEF LineOk
<1> HIDE DEF t, line, m
<1> QED
  BY <1>1, <1>4, <1>5, <1>6, ReadAsMeant DEF line, m

LEMMA LinesStep == LinesInv /\ [LinesNext]_lines_vars => LinesInv'
<1> SUFFICES ASSUME LinesInv, [LinesNext]_lines_vars PROVE LinesInv'
  OBVIOUS
<1> USE DEF LinesInv
<1>1. CASE NextMonth
  BY <1>1 DEF NextMonth
<1>2. CASE Arrive
  <2>1. entry' = [line |-> wire, read |-> parse_log(wire), received |-> month] /\ LineOk(wire) /\ wire' = None
    BY <1>2 DEF Arrive
  <2>2. month' = month
    BY <1>2 DEF Arrive
  <2>3. parse_log(entry.line)' = parse_log(wire)
    BY <2>1, <2>2 DEF parse_log, parse_header, YearOf
  <2> QED
    BY <2>1, <2>2, <2>3
<1>3. CASE PassOn
  BY <1>3 DEF PassOn
<1>4. ASSUME NEW m \in Meanings, NEW ahead \in 0..1, NEW gap \in BOOLEAN, NEW priority \in {None, 4, 30},
             Write(m, ahead, gap, priority)
      PROVE  LinesInv'
  BY <1>4 DEF Write, LineOk
<1>5. CASE UNCHANGED lines_vars
  <2>1. parse_log(entry.line)' = parse_log(entry.line)
    BY <1>5 DEF lines_vars, parse_log, parse_header, YearOf
  <2> QED
    BY <1>5, <2>1 DEF lines_vars
<1> QED
  BY <1>1, <1>2, <1>3, <1>4, <1>5 DEF LinesNext

(* Every line that gets through is read as it was meant, whatever the      *)
(* names of rules, hosts and reasons are and however long, whichever keys  *)
(* an event has, and at any time of any year (parsers.rs, firewall.rs,     *)
(* cef.rs, syslog.rs:59-63).                                               *)
THEOREM LinesReadRight == LinesSpec => []LinesAreReadRight
<1>1. LinesInit => LinesInv
  BY DEF LinesInit, LinesInv
<1> QED
  BY <1>1, LinesStep, LinesFromInv, PTL DEF LinesSpec

-----------------------------------------------------------------------------
(* Directions.                                                             *)

USE DirectionsAssumption

(* A row crosses the WAN if exactly one of its sides is there.             *)
Crosses(p, wan) == WanIn(p, wan) # WanOut(p, wan)

-----------------------------------------------------------------------------
(* The two rules, the parser's and the UPDATE's.                           *)

LEMMA DerivedIsDirection ==
  ASSUME NEW p, NEW wan, NEW addrs
  PROVE  DeriveDirection(p, wan, addrs) \in Direction
BY DEF DeriveDirection, Direction

\* What the parser says of a row nothing but the interfaces decides.
LEMMA CrossingDerived ==
  ASSUME NEW p \in Packets, Plain(p), NEW wan \in SUBSET Ifaces, NEW addrs \in SUBSET Addrs,
         Crosses(p, wan)
  PROVE  DeriveDirection(p, wan, addrs) = IF WanIn(p, wan) THEN "inbound" ELSE "outbound"
<1>1. (p.in \in wan /\ p.out \notin wan) \/ (p.in \notin wan /\ p.out \in wan)
  BY DEF Crosses, WanIn, WanOut
<1>2. /\ ~(p.in = NoIface /\ p.out = NoIface) /\ p.src \notin addrs
      /\ p.multicast = FALSE /\ p.nat = FALSE
  BY <1>1 DEF Plain
<1>3. CASE p.in \in wan /\ p.out \notin wan
  BY <1>2, <1>3 DEF DeriveDirection, WanIn, WanOut
<1>4. CASE p.in \notin wan /\ p.out \in wan
  BY <1>2, <1>4 DEF DeriveDirection, WanIn, WanOut
<1> QED
  BY <1>1, <1>3, <1>4

\* What the UPDATE makes of a stored direction.
LEMMA CorrectedEffect ==
  ASSUME NEW p, NEW dir, NEW wan
  PROVE  /\ Corrected(p, dir, wan) # dir =>
              /\ dir \in {"local", "inter_vlan"} /\ Crosses(p, wan)
              /\ Corrected(p, dir, wan) = IF WanIn(p, wan) THEN "inbound" ELSE "outbound"
         /\ Crosses(p, wan) => Corrected(p, dir, wan) \notin {"local", "inter_vlan"}
         /\ dir = Absent => Corrected(p, dir, wan) = Absent
         /\ dir \in Direction => Corrected(p, dir, wan) \in Direction
BY DEF Corrected, Correctable, Crosses, Direction, Absent

\* What the two tasks of the settings leave in force are sets of names.
LEMMA InForceTyped ==
  ASSUME NEW typed, NEW reported, NEW fallback, NEW S,
         typed \in SUBSET S, reported \in SUBSET S, fallback \in SUBSET S,
         NEW next, InForce(typed, reported, fallback, next), faults \in Nat
  PROVE  next \in SUBSET S /\ faults' \in Nat
BY DEF InForce, Effective, Faulty

-----------------------------------------------------------------------------
LEMMA TypeInit == Init => TypeOK
BY DEF Init, TypeOK, Absent

LEMMA TypeStep == TypeOK /\ [Next]_vars => TypeOK'
<1> SUFFICES ASSUME TypeOK, [Next]_vars
             PROVE  TypeOK'
  OBVIOUS
<1> USE DEF TypeOK
<1>1. ASSUME NEW ifaces \in IfaceChoices, NEW addrs \in AddrChoices,
             SetManual(ifaces, addrs) \/ Detect(ifaces, addrs)
      PROVE  TypeOK'
  BY <1>1 DEF SetManual, Detect, rows
<1>2. ASSUME NEW p \in Packets, Parse(p) PROVE TypeOK'
  BY <1>2, DerivedIsDirection DEF Parse, settings
<1>3. ASSUME NEW p \in Packets, Store(p) PROVE TypeOK'
  BY <1>3 DEF Store, settings
<1>4. CASE ReadAddrs
  <2>1. ctx' \in [ifaces : SUBSET Ifaces, addrs : SUBSET Addrs] /\ faults' \in Nat
    BY <1>4, InForceTyped DEF ReadAddrs
  <2> QED
    BY <1>4, <2>1 DEF ReadAddrs, settings, rows
<1>5. CASE ReadIfaces
  <2>1. ctx' \in [ifaces : SUBSET Ifaces, addrs : SUBSET Addrs] /\ faults' \in Nat
    BY <1>5, InForceTyped DEF ReadIfaces
  <2> QED
    BY <1>5, <2>1 DEF ReadIfaces, settings, rows
<1>6. CASE Correct
  <2>1. \A p \in Packets : /\ stored'[p] \in Direction \cup {Absent}
                           /\ stored[p] = Absent => stored'[p] = Absent
    BY <1>6, CorrectedEffect DEF Correct
  <2> QED
    BY <1>6, <2>1 DEF Correct, settings
<1>7. CASE CorrectFails
  BY <1>7 DEF CorrectFails, Faulty, settings, rows
<1>8. CASE NextRound
  BY <1>8 DEF NextRound, settings, rows
<1>9. CASE Restart
  BY <1>9 DEF Restart, settings
<1>10. CASE UNCHANGED vars
  BY <1>10 DEF vars, settings, rows
<1> QED
  BY <1>1, <1>2, <1>3, <1>4, <1>5, <1>6, <1>7, <1>8, <1>9, <1>10 DEF Next, Bookkeeping

(* The task, the settings and the rows keep their types, and a row is never *)
(* on its way and stored at once (collector.rs:60-220).                     *)
THEOREM Typing == Spec => []TypeOK
BY TypeInit, TypeStep, PTL DEF Spec

-----------------------------------------------------------------------------
(* Between two corrections no direction, stored or on its way, contradicts *)
(* the interfaces, but for the rows a correction could not reach.  It says *)
(* nothing while a correction is due, and must speak of the rows on their  *)
(* way: they are stored later, with the direction they have.               *)
Internal(p, dir) == Plain(p) /\ Crosses(p, ctx.ifaces) /\ dir \in {"local", "inter_vlan"}

RowsInv ==
  pc # "correct" =>
    \A p \in Packets \ stale : ~Internal(p, way[p]) /\ ~Internal(p, stored[p])

LEMMA RowsInit == Init => RowsInv
BY DEF Init, RowsInv, Internal, Absent

LEMMA RowsStep == TypeOK /\ RowsInv /\ [Next]_vars => RowsInv'
<1> SUFFICES ASSUME TypeOK, RowsInv, [Next]_vars
             PROVE  RowsInv'
  OBVIOUS
<1>1. ASSUME NEW ifaces \in IfaceChoices, NEW addrs \in AddrChoices,
             SetManual(ifaces, addrs) \/ Detect(ifaces, addrs)
      PROVE  RowsInv'
  BY <1>1 DEF SetManual, Detect, rows, RowsInv, Internal
<1>2. ASSUME NEW p \in Packets, Parse(p) PROVE RowsInv'
  <2>1. ~Internal(p, way'[p])
    <3> SUFFICES ASSUME Plain(p), Crosses(p, ctx.ifaces)
                 PROVE  way'[p] \notin {"local", "inter_vlan"}
      BY DEF Internal
    <3>1. way'[p] = DeriveDirection(p, ctx.ifaces, ctx.addrs)
      BY <1>2 DEF Parse, TypeOK
    <3> QED
      BY <3>1, CrossingDerived DEF TypeOK
  <2>2. \A q \in Packets : q # p => way'[q] = way[q]
    BY <1>2 DEF Parse, TypeOK
  <2>3. pc' = pc /\ stale' = stale /\ stored' = stored /\ ctx' = ctx
    BY <1>2 DEF Parse
  <2> QED
    BY <2>1, <2>2, <2>3 DEF RowsInv, Internal
<1>3. ASSUME NEW p \in Packets, Store(p) PROVE RowsInv'
  <2>1. /\ pc' = pc /\ stale' = stale /\ ctx' = ctx
        /\ stored'[p] = way[p] /\ way'[p] = Absent
        /\ \A q \in Packets : q # p => stored'[q] = stored[q] /\ way'[q] = way[q]
    BY <1>3 DEF Store, TypeOK
  <2> QED
    BY <2>1 DEF RowsInv, Internal, Absent
<1>4. CASE ReadAddrs
  <2>1. ctx'.ifaces = ctx.ifaces /\ pc = "addrs"
    BY <1>4 DEF ReadAddrs, TypeOK
  <2> QED
    BY <1>4, <2>1 DEF ReadAddrs, rows, RowsInv, Internal
<1>5. CASE ReadIfaces
  <2>1. pc' # "correct" => ctx'.ifaces = ctx.ifaces
    BY <1>5 DEF ReadIfaces, TypeOK
  <2> QED
    BY <1>5, <2>1 DEF ReadIfaces, rows, RowsInv, Internal
<1>6. CASE Correct
  <2>1. ASSUME NEW p \in Packets, p \notin stale'
        PROVE  ~Internal(p, way[p]) /\ ~Internal(p, stored'[p])
    <3>1. way[p] = Absent /\ stored'[p] = Corrected(p, stored[p], ctx.ifaces)
      BY <1>6, <2>1 DEF Correct
    <3> QED
      BY <3>1, CorrectedEffect DEF Internal, Absent
  <2> QED
    BY <1>6, <2>1 DEF Correct, RowsInv, Internal
<1>7. CASE CorrectFails
  BY <1>7 DEF CorrectFails, rows, RowsInv, Internal, Absent
<1>8. CASE NextRound
  BY <1>8 DEF NextRound, rows, RowsInv, Internal
<1>9. CASE Restart
  <2>1. \A p \in Packets : way'[p] = Absent
    BY <1>9 DEF Restart
  <2>2. CASE pc = "correct" \/ ctx.ifaces # StartIfaces
    BY <1>9, <2>1, <2>2 DEF Restart, RowsInv, Internal, Absent
  <2>3. CASE ~(pc = "correct" \/ ctx.ifaces # StartIfaces)
    <3>1. ctx'.ifaces = ctx.ifaces /\ stale' = stale /\ stored' = stored
      BY <1>9, <2>3 DEF Restart
    <3> QED
      BY <2>1, <2>3, <3>1 DEF RowsInv, Internal, Absent
  <2> QED
    BY <2>2, <2>3
<1>10. CASE UNCHANGED vars
  BY <1>10 DEF vars, settings, rows, RowsInv, Internal
<1> QED
  BY <1>1, <1>2, <1>3, <1>4, <1>5, <1>6, <1>7, <1>8, <1>9, <1>10 DEF Next, Bookkeeping

LEMMA RowsInvImplies == RowsInv => NoWanRowLooksInternal
BY DEF RowsInv, NoWanRowLooksInternal, LooksInternal, Internal, Crosses, WanIn, WanOut

-----------------------------------------------------------------------------
(* A stored direction changes only in the UPDATE.                          *)
LEMMA StoredMoves ==
  ASSUME TypeOK, [Next]_vars, NEW p \in Packets, stored[p] # Absent, stored'[p] # stored[p]
  PROVE  /\ Correct
         /\ stored'[p] = Corrected(p, stored[p], ctx.ifaces)
<1>1. Correct \/ UNCHANGED stored \/ \E q \in Packets : Store(q)
  BY DEF Next, Bookkeeping, SetManual, Detect, Parse, ReadAddrs, ReadIfaces, CorrectFails,
         NextRound, Restart, vars, rows
<1>2. ASSUME NEW q \in Packets, Store(q) PROVE FALSE
  BY <1>2 DEF Store, TypeOK
<1> QED
  BY <1>1, <1>2 DEF Correct

LEMMA StepRederives ==
  ASSUME TypeOK, [Next]_vars, NEW p \in Packets, Plain(p), stored[p] # Absent,
         stored'[p] # stored[p]
  PROVE  stored'[p] = DeriveDirection(p, ctx.ifaces, ctx.addrs)
<1>1. stored'[p] = Corrected(p, stored[p], ctx.ifaces)
  BY StoredMoves
<1>2. /\ Crosses(p, ctx.ifaces)
      /\ stored'[p] = IF WanIn(p, ctx.ifaces) THEN "inbound" ELSE "outbound"
  BY <1>1, CorrectedEffect
<1> QED
  BY <1>2, CrossingDerived DEF TypeOK

LEMMA StepKeepsReasons ==
  ASSUME TypeOK, [Next]_vars, NEW p \in Packets, stored[p] \in {"nat", "vpn"}
  PROVE  stored'[p] = stored[p]
<1> SUFFICES ASSUME stored'[p] # stored[p]
             PROVE  FALSE
  OBVIOUS
<1>1. stored'[p] = Corrected(p, stored[p], ctx.ifaces)
  BY StoredMoves DEF Absent
<1> QED
  BY <1>1, CorrectedEffect

(* The table follows the interfaces.  Between two rounds no stored row      *)
(* looks internal that crosses the WAN, but for those a correction could    *)
(* not reach; the UPDATE gives a row the direction the parser would give it *)
(* today; nat and vpn rows never move (collector.rs:173-220).               *)
THEOREM TableFollowsWan == Spec => DirectionsFollowWan
<1>1. TypeOK /\ [Next]_vars =>
        [\A p \in Packets :
           /\ Plain(p)
           /\ stored[p] # Absent /\ stored'[p] # stored[p]
           => stored'[p] = DeriveDirection(p, ctx.ifaces, ctx.addrs)]_vars
  BY StepRederives
<1>2. TypeOK /\ [Next]_vars =>
        [\A p \in Packets : stored[p] \in {"nat", "vpn"} => stored'[p] = stored[p]]_vars
  BY StepKeepsReasons
<1> QED
  BY <1>1, <1>2, Typing, RowsInit, RowsStep, RowsInvImplies, PTL
  DEF Spec, DirectionsFollowWan, CorrectionRederives, ReasonedStay
=============================================================================
