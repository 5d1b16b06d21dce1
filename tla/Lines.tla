--------------------------------- MODULE Lines ---------------------------------
(***************************************************************************)
(* What becomes of one line of text (syslog.rs, parsers.rs, firewall.rs,   *)
(* cef.rs).  A gateway means something, writes it down in the words of one *)
(* of its programs, with a month and a day but no year; the line arrives   *)
(* months later at worst, and the parsers read a record of it.             *)
(*                                                                         *)
(* A body is the words it contains and the tokens the parsers take out.    *)
(***************************************************************************)
EXTENDS Null, Integers, Sequences, SequencesExt

CONSTANTS
  Text,       \* the words of lines and their fields
  Meanings,   \* what gateways mean to say
  MaxMonth    \* bound: the last month, counted from a January

VARIABLES
  month,      \* the receiver's clock
  wire,       \* the line under way: None or [meaning, stamp, gap, priority]
  entry       \* what the line became: None or [line, read, received]

lines_vars == <<month, wire, entry>>

-----------------------------------------------------------------------------
(* What gateways write (external).                                         *)

Blank ==
  [program |-> "kernel", words |-> {}, bracket |-> FALSE, rule |-> None, descr |-> None,
   event |-> None, args |-> <<>>, json |-> None, tail |-> None, mac |-> None, fields |-> None]

Letters == {"A", "D", "R"}
Letter(action) == CASE action = "allow" -> "A" [] action = "block" -> "D" [] OTHER -> "R"

\* The name of a rule, a sequence of segments, has a letter somewhere; or it
\* has none, and the description says what the rule does.
RuleOf(m) ==
  IF m.style = "descr" THEN m.before ELSE m.before \o <<Letter(m.action)>> \o m.after

LineOf(m) ==
  CASE m.kind = "firewall" ->
         [Blank EXCEPT !.words = {"SRC=", "DST=", "PROTO="} \cup (IF m.style = "descr" THEN {"DESCR="} ELSE {}),
            !.bracket = TRUE, !.rule = RuleOf(m),
            !.descr = IF m.style = "descr" THEN <<"[WAN_LOCAL]", m.action>> ELSE None,
            !.mac = IF m.long THEN <<"to", "from">> ELSE <<"from">>]
    [] m.kind = "dhcp" ->
         [Blank EXCEPT !.program = "dnsmasq-dhcp", !.words = {"dnsmasq-dhcp", m.event}, !.event = m.event,
            !.args = m.ip \o <<"from">> \o m.host \o m.reason]
    [] m.kind = "dns" ->
         [Blank EXCEPT !.program = "dnsmasq", !.words = {"dnsmasq", m.event}, !.event = m.event,
            !.args = CASE m.event = "query["     -> <<"name", "from", "asker">>
                       [] m.event = "forwarded " -> <<"name", "to", "server">>
                       [] m.event \in {"reply ", "cached "} -> <<"name", "is", "answer">>
                       [] OTHER -> <<>>]
    [] m.kind = "wifi" ->
         [Blank EXCEPT !.program = "hostapd", !.words = {"hostapd", "STA ", m.event}, !.tail = m.event,
            !.mac = <<"from">>]
    [] m.kind = "roaming" ->
         [Blank EXCEPT !.program = "stahtd", !.words = {"stahtd"}, !.json = m.json]
    [] m.kind = "cef" ->
         [Blank EXCEPT !.program = "CEF", !.words = {"CEF:", m.name}, !.fields = m]
    [] OTHER -> [Blank EXCEPT !.program = "systemd", !.words = {m.event}]

\* Words that other words contain.
Inside(w) ==
  {w} \cup (CASE w = "dnsmasq-dhcp" -> {"dnsmasq"} [] w = "disassociated" -> {"associated"}
              [] w = "deauthenticated" -> {"authenticated"} [] w = "disconnected" -> {"connected"}
              [] OTHER -> {})
Says(body, w) == \E v \in body.words : w \in Inside(v)

-----------------------------------------------------------------------------
(* syslog.rs                                                               *)

severity_of(priority) == IF priority = None THEN None ELSE priority % 8

\* Mutant of YearOf: the year in which the line arrives.
YearOfArrival(stamp) == month \div 12

YearOf(stamp) == IF (stamp % 12) - (month % 12) > 6 THEN month \div 12 - 1 ELSE month \div 12

\* parse_header(): a time that does not exist where the receiver is, is none.
parse_header(line) ==
  IF line.gap THEN None ELSE [timestamp |-> 12 * YearOf(line.stamp) + (line.stamp % 12),
                              priority |-> line.priority]

-----------------------------------------------------------------------------
(* parsers.rs and firewall.rs                                              *)

DHCP_EVENTS == <<"DHCPACK", "DHCPREQUEST", "DHCPOFFER", "DHCPDISCOVER",
                 "DHCPRELEASE", "DHCPNAK", "DHCPDECLINE", "DHCPINFORM">>
WIFI_EVENTS == <<"disassociated", "deauthenticated", "associated", "authenticated",
                 "disconnected", "connected", "key handshake completed", "roamed">>

detect_log_type(b) ==
  LET any(S) == \E w \in S : Says(b, w)
  IN IF \/ \A w \in {"SRC=", "DST=", "PROTO="} : Says(b, w)
        \/ b.bracket /\ Says(b, "DESCR=") THEN "firewall"
     ELSE IF any({"dnsmasq-dhcp"} \cup Range(DHCP_EVENTS)) THEN "dhcp"
     ELSE IF Says(b, "dnsmasq") /\ any({"query[", "reply ", "forwarded ", "cached "}) THEN "dns"
     ELSE IF \/ any({"stamgr", "hostapd", "stahtd"})
             \/ Says(b, "STA ") /\ any({"associated", "authenticated"}) THEN "wifi"
     ELSE "system"

NoLog == [type |-> "system", action |-> None, event |-> None, query |-> None, answer |-> None,
          src |-> None, dst |-> None, mac |-> None, host |-> None, severity |-> None,
          program |-> None]

Word(seq, i) == IF i \in DOMAIN seq THEN seq[i] ELSE None

\* extract_src_mac(): the second of the addresses in the field of iptables.
extract_src_mac(mac) == IF Len(mac) >= 2 THEN mac[2] ELSE mac[1]

\* The last of the segments that are a letter, read from the right.
LetterSegment(name) == Word(name, SelectLastInSeq(name, LAMBDA seg : seg \in Letters))

derive_action(name, descr) ==
  IF name = None THEN None ELSE
  CASE LetterSegment(name) = "A"  -> "allow"
    [] LetterSegment(name) = "D"  -> "block"
    [] LetterSegment(name) = "R"  -> "redirect"
    [] OTHER -> IF descr # None /\ Last(descr) \in {"block", "deny", "drop"} THEN "block" ELSE "allow"

parse_firewall(b) ==
  [NoLog EXCEPT !.type = "firewall", !.src = "src", !.dst = "dst", !.mac = extract_src_mac(b.mac),
     !.action = derive_action(b.rule, b.descr)]

parse_dns(b) ==
  LET linked == Word(b.args, 2) = (IF b.event = "forwarded " THEN "to" ELSE "is") /\ Len(b.args) > 2
  IN IF b.event = "query["
     THEN [NoLog EXCEPT !.type = "dns", !.query = Word(b.args, 1),
             !.src = IF Word(b.args, 2) = "from" THEN Word(b.args, 3) ELSE None]
     ELSE [NoLog EXCEPT !.type = "dns", !.query = IF linked THEN b.args[1] ELSE None,
             !.answer = IF linked /\ b.event # "forwarded " THEN b.args[3] ELSE None,
             !.dst = IF linked /\ b.event = "forwarded " THEN b.args[3] ELSE None]

\* An address if there is one, then the MAC, then the name of the device.
parse_dhcp(b) ==
  LET ip == Word(b.args, 1) = "address"
      i  == IF ip THEN 2 ELSE 1
  IN IF b.event = None THEN [NoLog EXCEPT !.type = "dhcp"]
     ELSE [NoLog EXCEPT !.type = "dhcp", !.event = b.event, !.src = IF ip THEN "address" ELSE None,
             !.mac = Word(b.args, i), !.host = IF Word(b.args, i + 1) = "<none>" THEN None ELSE Word(b.args, i + 1)]

FirstContained(b, events) == Word(events, SelectInSeq(events, LAMBDA ev : Says(b, ev)))

parse_wifi(b) ==
  IF Says(b, "stahtd")
  THEN [NoLog EXCEPT !.type = "wifi", !.event = IF b.json = None \/ b.json.event = None THEN "stahtd" ELSE b.json.event,
          !.mac = IF b.json = None THEN None ELSE b.json.mac]
  ELSE LET known == FirstContained(b, WIFI_EVENTS)
       IN [NoLog EXCEPT !.type = "wifi", !.mac = IF Says(b, "STA ") THEN b.mac[1] ELSE None,
             !.event = IF known # None THEN known ELSE b.tail]

(* cef.rs *)
severity_from_cef(n) == IF n <= 3 THEN 6 ELSE IF n <= 6 THEN 4 ELSE IF n <= 8 THEN 3 ELSE 2

\* extension(): what is empty or "null" is no field.
extension(f) == [k \in {k \in DOMAIN f : f[k] \notin {"", "null"}} |-> f[k]]

parse_cef(c) ==
  LET f == extension(c.fields)
      first(keys) == LET k == Word(keys, SelectInSeq(keys, LAMBDA x : x \in DOMAIN f))
                     IN IF k = None THEN None ELSE f[k]
      p == [NoLog EXCEPT !.severity = severity_from_cef(c.severity), !.program = "unifi",
              !.src = first(<<"clientIp", "srcClientIp", "src">>), !.dst = first(<<"dst", "dstClientIp">>),
              !.mac = first(<<"clientMac", "srcClientMac">>), !.host = first(<<"clientAlias", "clientHostname">>)]
  IN CASE c.signature \in {"400", "401", "402"} ->
            [p EXCEPT !.type = "wifi", !.event = CASE c.signature = "400" -> "connected"
                        [] c.signature = "401" -> "disconnected" [] OTHER -> "roamed"]
       [] c.signature = "203" -> [p EXCEPT !.action = "block"]
       [] OTHER -> p

valid_mac(mac) == mac # "damaged"

parse_body(b, type) ==
  CASE type = "firewall" -> parse_firewall(b) [] type = "dns" -> parse_dns(b)
    [] type = "dhcp" -> parse_dhcp(b) [] type = "wifi" -> parse_wifi(b)
    [] OTHER -> NoLog

\* The record before its MAC is looked at.
Parsed(b, priority) ==
  IF b.program = "CEF" THEN parse_cef(b.fields)
  ELSE [parse_body(b, detect_log_type(b)) EXCEPT !.program = b.program, !.severity = severity_of(priority)]

Checked(p) == IF p.mac # None /\ ~valid_mac(p.mac) THEN [p EXCEPT !.mac = None] ELSE p

\* parse_log(): and what run_udp() makes of a line without a header.
parse_log(line) ==
  LET h == parse_header(line)
  IN IF h = None THEN [log |-> NoLog, timestamp |-> month]
     ELSE [log |-> Checked(Parsed(LineOf(line.meaning), h.priority)), timestamp |-> h.timestamp]

-----------------------------------------------------------------------------
(* What a gateway may mean, and write down so that it can be read.         *)

Given(f, k) == k \in DOMAIN f /\ f[k] \notin {"", "null"}

\* Whom an event of the controller concerns.
Concerned(f) ==
  CASE Given(f, "clientIp") -> f["clientIp"]
    [] ~Given(f, "clientIp") /\ Given(f, "srcClientIp") -> f["srcClientIp"]
    [] ~Given(f, "clientIp") /\ ~Given(f, "srcClientIp") /\ Given(f, "src") -> f["src"]
    [] OTHER -> None

\* Words that say which program writes.
Keywords == {"dnsmasq-dhcp", "stamgr", "hostapd", "stahtd"} \cup Range(DHCP_EVENTS)

IsMeaning(m) ==
  \/ m \in [kind : {"firewall"}, style : {"letter"}, before : Seq(Text), after : Seq(Text \ Letters),
            action : {"allow", "block", "redirect"}, long : BOOLEAN]
  \/ m \in [kind : {"firewall"}, style : {"descr"}, before : Seq(Text \ Letters),
            action : {"allow", "block"}, long : BOOLEAN]
  \/ m \in [kind : {"dhcp"}, event : Text, ip : {<<>>, <<"address">>},
            host : Seq(Text \ {"<none>"}), reason : Seq(Text)]
  \/ m \in [kind : {"dns"}, event : {"query[", "reply ", "cached ", "forwarded ", "config "}]
  \/ m \in [kind : {"wifi", "other"}, event : Text \ Keywords]
  \/ m \in [kind : {"roaming"}, json : [mac : Text \cup {None}, event : Text \cup {None}]]
  \/ m.kind = "cef" /\ m.client = Concerned(m.fields)

ASSUME LinesAssumption ==
  /\ {"[WAN_LOCAL]", "allow", "block", "address", "from", "clientIp", "srcClientIp", "src"} \subseteq Text
  /\ Letters \cup Range(WIFI_EVENTS) \subseteq Text
  /\ None \notin Text
  /\ None \notin Seq(Text)
  /\ None \notin [mac : Text \cup {None}, event : Text \cup {None}]
  /\ None \notin [timestamp : Int, priority : {None, 4, 30}]
  /\ \A m \in Meanings : IsMeaning(m)

-----------------------------------------------------------------------------
\* The sender's clock may be ahead of the receiver's, and on summer time.
Write(m, ahead, gap, priority) ==
  /\ wire = None /\ entry = None
  /\ wire' = [meaning |-> m, stamp |-> month + ahead, gap |-> gap, priority |-> priority]
  /\ UNCHANGED <<month, entry>>

Arrive ==
  /\ wire # None /\ wire' = None
  /\ entry' = [line |-> wire, read |-> parse_log(wire), received |-> month]
  /\ UNCHANGED month

\* run_udp() passes it on to the writer.
PassOn ==
  /\ entry # None /\ entry' = None
  /\ UNCHANGED <<month, wire>>

NextMonth ==
  /\ month < MaxMonth /\ month' = month + 1
  /\ entry = None
  /\ UNCHANGED <<wire, entry>>

LinesInit == month = 0 /\ wire = None /\ entry = None

LinesNext ==
  \/ NextMonth \/ Arrive \/ PassOn
  \/ \E m \in Meanings, ahead \in 0..1, gap \in BOOLEAN, priority \in {None, 4, 30} :
       Write(m, ahead, gap, priority)

LinesSpec == LinesInit /\ [][LinesNext]_lines_vars

-----------------------------------------------------------------------------
\* What a reader of the line would say.
Meant(m) ==
  CASE m.kind = "firewall" -> [type |-> "firewall", action |-> m.action, mac |-> "from"]
    [] m.kind = "dhcp"     -> [type |-> "dhcp", event |-> m.event, mac |-> "from", src |-> Word(m.ip, 1)]
    [] m.kind = "dns"      -> IF m.event = "config " THEN [type |-> "system"] ELSE [type |-> "dns", query |-> "name"]
    [] m.kind = "wifi"     -> [type |-> "wifi", event |-> m.event, mac |-> "from"]
    [] m.kind = "roaming"  -> [type |-> "wifi", mac |-> IF m.json.mac = "damaged" THEN None ELSE m.json.mac]
    [] m.kind = "cef"      -> [type |-> IF m.signature \in {"400", "401", "402"} THEN "wifi" ELSE "system",
                               src |-> m.client, action |-> IF m.signature = "203" THEN "block" ELSE None]
    [] OTHER               -> [type |-> "system"]

(* A line is read as it was meant: a rule that blocks is never stored as   *)
(* one that allows, however its name is built, an end of a connection      *)
(* never as its beginning, and the month is put into the right year if the *)
(* line is at most five months late.  A sender whose clock is ahead over   *)
(* New Year is dated a year back (syslog.rs:59-63, firewall.rs:61-88,      *)
(* parsers.rs:127-131); the words of a refused DHCP request are taken for  *)
(* a name, and no name is compared there.                                  *)
LinesAreReadRight ==
  entry # None /\ ~entry.line.gap =>
    LET m     == entry.line.meaning
        stamp == entry.line.stamp
        late  == entry.received - stamp
        read  == entry.read
    IN /\ \A k \in DOMAIN Meant(m) : read.log[k] = Meant(m)[k]
       /\ m.kind = "dhcp" /\ (m.host # <<>> \/ m.reason = <<>>) => read.log.host = Word(m.host, 1)
       /\ late \in 0..5 => read.timestamp = stamp
       /\ late = -1 => read.timestamp = (IF stamp % 12 = 0 THEN stamp - 12 ELSE stamp)
=============================================================================
