------------------------------ MODULE Resolver ------------------------------
(***************************************************************************)
(* gethostbyname (src/src/libbrkc/net/resolv.c, inet.c): one UDP query,    *)
(* one answer, five seconds.  Processes share the name server and the      *)
(* local ports, which the kernel uses again once a socket is closed; each  *)
(* counts its identifiers from 1.  The name server is external: it answers *)
(* late, twice, not at all, with an error or with a reply cut short.       *)
(*                                                                         *)
(* Names and messages are sequences of byte values; the 12 bytes of a      *)
(* message's header are the fields id, rcode, qd and an.                   *)
(***************************************************************************)
EXTENDS Integers, Sequences, SequencesExt, FiniteSets

CONSTANTS
  Resolvers,   \* processes
  Ports,       \* local ports
  HostNames,   \* names looked up
  MaxLookups,  \* bound: lookups
  MaxLabel,    \* longest label (63 in the code)
  MaxName      \* longest name (253 in the code)

VARIABLES
  resolver,    \* per process: [pc, name, next_id, port, addr]
  sent,        \* the queries the server has, in order: [port, id, name]
  asked        \* lookups so far

vars == <<resolver, sent, asked>>

Dot == 46
Fail == << >>

-----------------------------------------------------------------------------
(* inet.c *)

Digits(s) == s # << >> /\ \A i \in DOMAIN s : s[i] \in 48 .. 57
parse_octet(s) == FoldLeft(LAMBDA v, c : v * 10 + (c - 48), 0, s)

Labels(name) ==
  FoldLeft(LAMBDA a, c : IF c = Dot THEN Append(a, << >>)
                         ELSE [a EXCEPT ![Len(a)] = Append(@, c)], << << >> >>, name)

inet_aton(s) ==
  LET p == Labels(s)
  IN IF Len(p) = 4 /\ (\A i \in 1 .. 4 : Digits(p[i])) /\ (\A i \in 1 .. 4 : parse_octet(p[i]) <= 255)
     THEN [i \in 1 .. 4 |-> parse_octet(p[i])] ELSE Fail

-----------------------------------------------------------------------------
(* resolv.c: messages *)

put16(v) == <<v \div 256, v % 256>>
get16(buf, off) == buf[off] * 256 + buf[off + 1]

(* The question for a name: its labels, each after its length.  A name may *)
(* end with a dot; an empty or too long label is refused.                  *)
Encode(name) ==
  LET l == Labels(name)
      labels == IF name # << >> /\ Last(l) = << >> THEN Front(l) ELSE l
  IN IF \E i \in DOMAIN labels : Len(labels[i]) \notin 1 .. MaxLabel THEN Fail
     ELSE FlattenSeq([i \in DOMAIN labels |-> <<Len(labels[i])>> \o labels[i]]) \o <<0>>

dns_build(name) ==
  IF Len(name) > MaxName \/ Encode(name) = Fail THEN Fail ELSE Encode(name) \o put16(1) \o put16(1)

(* The place after the name that begins at off; 0 when it does not end.    *)
skip_name(buf, off) ==
  LET skip[o \in 1 .. 400] ==
        IF o > Len(buf) THEN 0
        ELSE IF buf[o] = 0 THEN o + 1
        ELSE IF buf[o] >= 192 THEN IF o + 1 > Len(buf) THEN 0 ELSE o + 2
        ELSE IF buf[o] > 63 THEN 0
        ELSE skip[o + buf[o] + 1]
  IN skip[off]

(* The place after n questions, 0 when the message is too short.           *)
SkipQuestions(buf, n) ==
  LET q[i \in 0 .. n] ==
        IF i = 0 THEN 1
        ELSE IF q[i - 1] = 0 THEN 0
        ELSE LET o == skip_name(buf, q[i - 1])
             IN IF o = 0 \/ o + 4 > Len(buf) + 1 THEN 0 ELSE o + 4
  IN q[n]

(* The first address among n answers from off on.                          *)
FirstAddress(buf, off, n) ==
  LET a[i \in 0 .. n, start \in 1 .. 400] ==
        LET o == skip_name(buf, start)
            rdlen == get16(buf, o + 8)
        IN IF i = 0 \/ o = 0 THEN Fail
           ELSE IF o + 10 > Len(buf) + 1 THEN Fail
           ELSE IF o + 10 + rdlen > Len(buf) + 1 THEN Fail
           ELSE IF get16(buf, o) = 1 /\ get16(buf, o + 2) = 1 /\ rdlen = 4
                THEN SubSeq(buf, o + 10, o + 13)
           ELSE a[i - 1, o + 10 + rdlen]
  IN a[n, off]

(* mutant: the identifier is not compared *)
MutParse(msg, id) ==
  IF msg.rcode # 0 \/ SkipQuestions(msg.buf, msg.qd) = 0 THEN Fail
  ELSE FirstAddress(msg.buf, SkipQuestions(msg.buf, msg.qd), msg.an)

dns_parse(msg, id) ==
  IF msg.id # id \/ msg.rcode # 0 THEN Fail
  ELSE LET off == SkipQuestions(msg.buf, msg.qd)
       IN IF off = 0 THEN Fail ELSE FirstAddress(msg.buf, off, msg.an)

-----------------------------------------------------------------------------
(* The name server (external) *)

AddressOf(name) == <<10, Len(name), name[1], 4>>

Record(owner, type, data) == owner \o put16(type) \o put16(1) \o <<0, 0, 0, 9>> \o put16(Len(data)) \o data
Pointer == <<192, 12>>

(* An alias and then the address, named by a pointer or in full.           *)
Answers(q) ==
  {Record(Pointer, 5, <<1, 97, 0>>) \o Record(own, 1, AddressOf(q.name)) : own \in {Pointer, Encode(q.name)}}

Replies(q) ==
  LET full == {dns_build(q.name) \o a : a \in Answers(q)}
      cut == {SubSeq(m, 1, n) : m \in full, n \in {0, 3, 12, 20, 30}}
  IN {[id |-> q.id, rcode |-> r, qd |-> 1, an |-> 2, buf |-> b] : r \in {0, 3}, b \in full \cup cut}

-----------------------------------------------------------------------------
(* dns_lookup and gethostbyname *)

Init ==
  /\ resolver = [p \in Resolvers |-> [pc |-> "idle", name |-> << >>, next_id |-> 0, port |-> 0,
                                      addr |-> Fail]]
  /\ sent = << >> /\ asked = 0

Done(p, addr) ==
  resolver' = [resolver EXCEPT ![p].pc = "idle", ![p].addr = addr, ![p].port = 0]

Localhost == <<108, 111, 99, 97, 108>>
Known(name) == IF name = Localhost THEN <<127, 0, 0, 1>> ELSE inet_aton(name)

(* localhost and numbers need no query; a name that cannot be encoded fails.  *)
gethostbyname(p) ==
  /\ resolver[p].pc = "idle" /\ asked < MaxLookups
  /\ asked' = asked + 1
  /\ \E name \in HostNames :
       LET id == (resolver[p].next_id + 1) % 65536
           started == [resolver[p] EXCEPT !.name = name, !.addr = Fail]
       IN IF Known(name) # Fail
          THEN /\ resolver' = [resolver EXCEPT ![p] = [started EXCEPT !.addr = Known(name)]]
               /\ UNCHANGED sent
          ELSE IF dns_build(name) = Fail
          THEN /\ resolver' = [resolver EXCEPT ![p] = [started EXCEPT !.next_id = id]]
               /\ UNCHANGED sent
          ELSE \E port \in Ports \ {resolver[q].port : q \in Resolvers} :
                 /\ resolver' = [resolver EXCEPT ![p] = [started EXCEPT !.pc = "poll", !.next_id = id,
                                                                        !.port = port]]
                 /\ sent' = Append(sent, [port |-> port, id |-> id, name |-> name])

(* The first datagram that comes to the port decides, whatever it answers. *)
Answer(p) ==
  /\ resolver[p].pc = "poll"
  /\ \E i \in DOMAIN sent :
       /\ sent[i].port = resolver[p].port
       /\ \E msg \in Replies(sent[i]) : Done(p, dns_parse(msg, resolver[p].next_id))
  /\ UNCHANGED <<sent, asked>>

Timeout(p) == resolver[p].pc = "poll" /\ Done(p, Fail) /\ UNCHANGED <<sent, asked>>

Next == \E p \in Resolvers : gethostbyname(p) \/ Answer(p) \/ Timeout(p)

(* The timer of poll runs out.                                             *)
Fairness == \A p \in Resolvers : WF_vars(Timeout(p))

-----------------------------------------------------------------------------
(* Two queries for different names went out from one port with one id.     *)
Collision ==
  \E i, j \in DOMAIN sent :
    i # j /\ sent[i].port = sent[j].port /\ sent[i].id = sent[j].id /\ sent[i].name # sent[j].name

(* An address that is returned is that of the name that was asked for,     *)
(* even from late, duplicate and truncated replies, unless a port and an   *)
(* identifier were used again for another name.                            *)
AnswersMatch ==
  \A p \in Resolvers :
    resolver[p].addr # Fail /\ ~Collision =>
      resolver[p].addr = IF Known(resolver[p].name) # Fail THEN Known(resolver[p].name)
                         ELSE AddressOf(resolver[p].name)

(* A lookup ends.                                                          *)
LookupEnds == \A p \in Resolvers : (resolver[p].pc = "poll") ~> (resolver[p].pc = "idle")
=============================================================================
