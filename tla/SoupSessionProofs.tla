-------------------------- MODULE SoupSessionProofs --------------------------
(***************************************************************************)
(* The session for any payloads, any numbers a client may ask for and any    *)
(* bounds: both halves count alike, and a client that resumes where it        *)
(* stopped is made whole.                                                    *)
(***************************************************************************)
EXTENDS SoupSession, SequenceTheorems, WellFoundedInduction, TLAPS

(***************************************************************************)
(* What a client makes of a packet: its counter is at a before and at b      *)
(* after.  A message is numbered as in the store s; if the client resumes    *)
(* (res), a login is accepted at the number the client is at.               *)
(***************************************************************************)
Counts(s, res, a, p, b) ==
  \/ p.type = "Accepted" /\ b = p.seq /\ (res => b = a)
  \/ p.type = "Data" /\ a \in DOMAIN s /\ s[a] = p.msg /\ b = a + 1
  \/ p.type \in {"Rejected", "EndOfSession"} /\ b = a

\* The packets q take the counter from a to b.
Flows(s, res, q, a, b) ==
  \E c \in [0 .. Len(q) -> 1 .. Len(s) + 1] :
    /\ c[0] = a /\ c[Len(q)] = b
    /\ \A k \in 1 .. Len(q) : Counts(s, res, c[k - 1], q[k], c[k])

\* The packets a client has still to read of those its connection has caused.
OnItsWay == IF Live THEN toClient \o out ELSE toClient

IsLogin(p) == p.type = "Login"

Packets == Requests \union {Fin}

TypeInv ==
  /\ store \in Seq(Messages)
  /\ pc \in {"recv", "handle", "reply"} /\ keep \in BOOLEAN /\ loggedIn \in BOOLEAN
  /\ inbox \in Seq(Requests) /\ out \in Seq(Replies)
  /\ toServer \in Seq(Packets) /\ toClient \in Seq(Replies)
  /\ up \in BOOLEAN /\ closed \in BOOLEAN /\ resuming \in BOOLEAN
  /\ cursor \in 1 .. NextSeq /\ next \in 1 .. NextSeq
  /\ delivered \in Seq([seq : Nat, msg : Messages])

\* The server has nobody to serve.
Idle == pc = "recv" /\ ~loggedIn /\ toServer = <<>>

\* Connections follow each other on the wire, and the server stands at one.
WireInv ==
  /\ pc # "handle" => inbox = <<>>
  /\ pc = "recv" => out = <<>> /\ keep
  /\ closed => Idle
  /\ ~up /\ ~HasFin => Idle
  /\ ~up /\ HasFin => toServer[Len(toServer)] = Fin
  /\ up /\ HasFin => toClient = <<>>

\* A client has left.
Fins(q) == \E k \in DOMAIN q : q[k] = Fin

\* A login is the first packet of its connection.
LoginsFirst(q) == \A k \in DOMAIN q : IsLogin(q[k]) => k = 1 \/ q[k - 1] = Fin

\* Nothing of a connection is handled before its login.
LoginInv ==
  /\ LoginsFirst(toServer)
  /\ toServer # <<>> /\ IsLogin(toServer[1]) =>
       pc = "recv" /\ ~loggedIn /\ (Live => toClient = <<>>)
  /\ \A k \in DOMAIN inbox : IsLogin(inbox[k]) =>
       k = 1 /\ ~loggedIn /\ out = <<>> /\ (Live => toClient = <<>>)

\* A login asks for the number n.
AsksFor(p, n) == IsLogin(p) /\ p.valid => p.req = n

\* So does that of the last connection of q.
LastAsksFor(q, n) ==
  \A k \in DOMAIN q : (\A j \in k + 1 .. Len(q) : q[j] # Fin) => AsksFor(q[k], n)

\* The login of the client's connection asks for where the client still is.
ResumeInv ==
  resuming =>
    /\ next = Len(delivered) + 1
    /\ up => LastAsksFor(toServer, next)
    /\ Live => \A k \in DOMAIN inbox : AsksFor(inbox[k], next)

FlowInv ==
  \E b \in 1 .. NextSeq :
    /\ Flows(store, resuming, OnItsWay, next, b)
    /\ Live /\ loggedIn => b = cursor

IInv ==
  TypeInv /\ WireInv /\ LoginInv /\ ResumeInv /\ FlowInv /\ NumbersAgree /\ ExactlyOnce
-----------------------------------------------------------------------------
(***************************************************************************)
(* What packets do to a counter.                                            *)
(***************************************************************************)

LEMMA FlowsNothing ==
  ASSUME NEW s \in Seq(Messages), NEW res \in BOOLEAN, NEW a \in 1 .. Len(s) + 1
  PROVE  Flows(s, res, <<>>, a, a)
<1> DEFINE c == [k \in 0 .. 0 |-> a]
<1>1. c \in [0 .. 0 -> 1 .. Len(s) + 1] /\ c[0] = a
  OBVIOUS
<1>2. \A k \in 1 .. 0 : Counts(s, res, c[k - 1], <<>>[k], c[k])
  OBVIOUS
<1> HIDE DEF c
<1>3. Len(<<>>) = 0
  OBVIOUS
<1> QED
  BY <1>1, <1>2, <1>3 DEF Flows

LEMMA FlowsOne ==
  ASSUME NEW s \in Seq(Messages), NEW res \in BOOLEAN,
         NEW a \in 1 .. Len(s) + 1, NEW b \in 1 .. Len(s) + 1, NEW p, Counts(s, res, a, p, b)
  PROVE  Flows(s, res, <<p>>, a, b)
<1> DEFINE c == [k \in 0 .. 1 |-> IF k = 0 THEN a ELSE b]
<1>1. c \in [0 .. 1 -> 1 .. Len(s) + 1] /\ c[0] = a /\ c[1] = b
  OBVIOUS
<1>2. \A k \in 1 .. 1 : Counts(s, res, c[k - 1], (<<p>>)[k], c[k])
  <2>1. (<<p>>)[1] = p /\ c[1 - 1] = a
    OBVIOUS
  <2> QED
    BY <1>1, <2>1
<1> HIDE DEF c
<1>3. Len(<<p>>) = 1
  OBVIOUS
<1> QED
  BY <1>1, <1>2, <1>3 DEF Flows

\* One stretch of packets after another.
LEMMA FlowsOn ==
  ASSUME NEW s \in Seq(Messages), NEW res \in BOOLEAN, NEW S, NEW q \in Seq(S), NEW r \in Seq(S),
         NEW a, NEW m, NEW b, Flows(s, res, q, a, m), Flows(s, res, r, m, b)
  PROVE  Flows(s, res, q \o r, a, b)
<1>1. PICK c \in [0 .. Len(q) -> 1 .. Len(s) + 1] :
        /\ c[0] = a /\ c[Len(q)] = m
        /\ \A k \in 1 .. Len(q) : Counts(s, res, c[k - 1], q[k], c[k])
  BY DEF Flows
<1>2. PICK d \in [0 .. Len(r) -> 1 .. Len(s) + 1] :
        /\ d[0] = m /\ d[Len(r)] = b
        /\ \A k \in 1 .. Len(r) : Counts(s, res, d[k - 1], r[k], d[k])
  BY DEF Flows
<1> DEFINE n == Len(q)
           e == [k \in 0 .. n + Len(r) |-> IF k <= n THEN c[k] ELSE d[k - n]]
<1>3. /\ n \in Nat /\ Len(r) \in Nat /\ Len(q \o r) = n + Len(r)
      /\ \A k \in 1 .. n : (q \o r)[k] = q[k]
      /\ \A k \in 1 .. Len(r) : (q \o r)[n + k] = r[k]
  OBVIOUS
<1> HIDE DEF n
<1>4. \A k \in 0 .. n : e[k] = c[k]
  BY <1>3
<1>5. \A k \in 0 .. Len(r) : e[n + k] = d[k]
  <2> SUFFICES ASSUME NEW k \in 0 .. Len(r) PROVE e[n + k] = d[k]
    OBVIOUS
  <2>1. CASE k = 0
    BY <1>1, <1>2, <1>3, <2>1 DEF n
  <2>2. CASE k > 0
    <3>1. n + k \in 0 .. n + Len(r) /\ n + k - n = k
      BY <1>3
    <3>2. ~ (n + k <= n)
      BY <1>3, <2>2
    <3> QED
      BY <1>3, <3>1, <3>2
  <2> QED
    BY <2>1, <2>2
<1>6. e \in [0 .. n + Len(r) -> 1 .. Len(s) + 1]
  <2> SUFFICES ASSUME NEW k \in 0 .. n + Len(r) PROVE e[k] \in 1 .. Len(s) + 1
    OBVIOUS
  <2>1. CASE k <= n
    <3>1. k \in 0 .. Len(q) /\ e[k] = c[k]
      BY <1>3, <1>4, <2>1 DEF n
    <3> HIDE DEF e
    <3> QED
      BY <3>1
  <2>2. CASE ~ (k <= n)
    <3>1. k - n \in 0 .. Len(r) /\ e[k] = d[k - n]
      BY <1>3, <2>2
    <3> QED
      BY <3>1
  <2> QED
    BY <2>1, <2>2
<1> HIDE DEF e
<1>7. \A k \in 1 .. n + Len(r) : Counts(s, res, e[k - 1], (q \o r)[k], e[k])
  <2> SUFFICES ASSUME NEW k \in 1 .. n + Len(r) PROVE Counts(s, res, e[k - 1], (q \o r)[k], e[k])
    OBVIOUS
  <2>1. CASE k <= n
    <3>1. k \in 1 .. n /\ k - 1 \in 0 .. n /\ k \in 0 .. n
      BY <1>3, <2>1
    <3> QED
      BY <1>1, <1>3, <1>4, <3>1 DEF n
  <2>2. CASE ~ (k <= n)
    <3>1. PICK j \in 1 .. Len(r) : k = n + j /\ k - 1 = n + (j - 1)
      <4>1. k - n \in 1 .. Len(r) /\ k = n + (k - n) /\ k - 1 = n + ((k - n) - 1)
        BY <1>3, <2>2
      <4> QED
        BY <4>1
    <3>2. j \in 0 .. Len(r) /\ j - 1 \in 0 .. Len(r)
      BY <1>3
    <3> QED
      BY <1>2, <1>3, <1>5, <3>1, <3>2
  <2> QED
    BY <2>1, <2>2
<1>8. e[0] = a /\ e[n + Len(r)] = b
  BY <1>1, <1>2, <1>3, <1>4, <1>5
<1> QED
  BY <1>3, <1>6, <1>7, <1>8 DEF Flows

\* The first packet, and the rest.
LEMMA FlowsTail ==
  ASSUME NEW s \in Seq(Messages), NEW res \in BOOLEAN, NEW S, NEW q \in Seq(S), q # <<>>,
         NEW a, NEW b, Flows(s, res, q, a, b)
  PROVE  \E m \in 1 .. Len(s) + 1 :
           Counts(s, res, a, Head(q), m) /\ Flows(s, res, Tail(q), m, b)
<1>1. PICK c \in [0 .. Len(q) -> 1 .. Len(s) + 1] :
        /\ c[0] = a /\ c[Len(q)] = b
        /\ \A k \in 1 .. Len(q) : Counts(s, res, c[k - 1], q[k], c[k])
  BY DEF Flows
<1> DEFINE r == Tail(q)
           d == [k \in 0 .. Len(r) |-> c[k + 1]]
<1>2. /\ Len(q) \in Nat /\ Len(q) >= 1 /\ Len(r) = Len(q) - 1 /\ Head(q) = q[1]
      /\ \A k \in 1 .. Len(r) : r[k] = q[k + 1]
  BY HeadTailProperties
<1> HIDE DEF r
<1>3. \A k \in 0 .. Len(r) : k + 1 \in 1 .. Len(q) /\ k + 1 \in 0 .. Len(q)
  BY <1>2
<1>4. d \in [0 .. Len(r) -> 1 .. Len(s) + 1] /\ \A k \in 0 .. Len(r) : d[k] = c[k + 1]
  BY <1>3
<1> HIDE DEF d
<1>5. d[0] = c[1] /\ d[Len(r)] = b
  BY <1>1, <1>2, <1>4
<1>6. \A k \in 1 .. Len(r) : Counts(s, res, d[k - 1], r[k], d[k])
  <2> SUFFICES ASSUME NEW k \in 1 .. Len(r) PROVE Counts(s, res, d[k - 1], r[k], d[k])
    OBVIOUS
  <2>1. /\ k \in 0 .. Len(r) /\ k - 1 \in 0 .. Len(r) /\ k + 1 \in 1 .. Len(q)
        /\ (k - 1) + 1 = k /\ (k + 1) - 1 = k
    BY <1>2
  <2> QED
    BY <1>1, <1>2, <1>4, <2>1
<1>7. Counts(s, res, a, Head(q), c[1]) /\ c[1] \in 1 .. Len(s) + 1
  <2>1. 1 \in 1 .. Len(q) /\ 1 \in 0 .. Len(q) /\ 1 - 1 = 0
    BY <1>2
  <2> QED
    BY <1>1, <1>2, <2>1
<1>8. Flows(s, res, r, c[1], b)
  BY <1>4, <1>5, <1>6 DEF Flows
<1> QED
  BY <1>7, <1>8 DEF r

\* What is stored stays where it is, and a client may stop resuming.
LEMMA FlowsKept ==
  ASSUME NEW s \in Seq(Messages), NEW t \in Seq(Messages), NEW res \in BOOLEAN,
         NEW res2 \in BOOLEAN, res2 => res, NEW q, NEW a, NEW b, Len(q) \in Nat,
         Flows(s, res, q, a, b)
  PROVE  Flows(s \o t, res2, q, a, b)
<1>1. PICK c \in [0 .. Len(q) -> 1 .. Len(s) + 1] :
        /\ c[0] = a /\ c[Len(q)] = b
        /\ \A k \in 1 .. Len(q) : Counts(s, res, c[k - 1], q[k], c[k])
  BY DEF Flows
<1>2. /\ Len(s \o t) >= Len(s) /\ Len(s \o t) \in Nat /\ Len(s) \in Nat
      /\ \A k \in DOMAIN s : k \in DOMAIN (s \o t) /\ (s \o t)[k] = s[k]
  OBVIOUS
<1>3. c \in [0 .. Len(q) -> 1 .. Len(s \o t) + 1]
  BY <1>2
<1>4. \A k \in 1 .. Len(q) : Counts(s \o t, res2, c[k - 1], q[k], c[k])
  BY <1>1, <1>2 DEF Counts
<1> QED
  BY <1>1, <1>3, <1>4 DEF Flows

\* What pump sends takes a client from the cursor to the end of the store.
LEMMA FlowsOwed ==
  ASSUME NEW s \in Seq(Messages), NEW res \in BOOLEAN, NEW a \in 1 .. Len(s) + 1
  PROVE  Owed(s, a) \in Seq(Replies) /\ Flows(s, res, Owed(s, a), a, Len(s) + 1)
<1> DEFINE n == Len(s) - a + 1
           q == Owed(s, a)
           c == [k \in 0 .. n |-> a + k]
<1>1. n \in Nat /\ Len(s) \in Nat /\ a \in Nat
  OBVIOUS
<1>2. \A i \in 1 .. n : a + i - 1 \in DOMAIN s /\ s[a + i - 1] \in Messages
  BY <1>1
<1>3. q = [i \in 1 .. n |-> Data(s[a + i - 1])]
  BY DEF Owed
<1>4. q \in Seq(Replies) /\ Len(q) = n
  <2>1. \A i \in 1 .. n : Data(s[a + i - 1]) \in Replies
    BY <1>2 DEF Data, Replies
  <2> HIDE DEF q, n
  <2> QED
    BY <1>1, <1>3, <2>1
<1>5. c \in [0 .. n -> 1 .. Len(s) + 1] /\ c[0] = a /\ c[n] = Len(s) + 1
  BY <1>1
<1>6. \A k \in 1 .. n : Counts(s, res, c[k - 1], q[k], c[k])
  <2> SUFFICES ASSUME NEW k \in 1 .. n PROVE Counts(s, res, c[k - 1], q[k], c[k])
    OBVIOUS
  <2>1. q[k] = Data(s[a + k - 1]) /\ a + k - 1 \in DOMAIN s
    BY <1>2, <1>3
  <2>2. c[k - 1] = a + k - 1 /\ c[k] = a + k - 1 + 1
    BY <1>1
  <2> HIDE DEF c, q, n
  <2> QED
    BY <2>1, <2>2 DEF Counts, Data
<1> HIDE DEF c, q, n
<1>7. Flows(s, res, q, a, Len(s) + 1)
  BY <1>4, <1>5, <1>6 DEF Flows
<1> QED
  BY <1>4, <1>7 DEF q
-----------------------------------------------------------------------------
(***************************************************************************)
(* The wire to the server.                                                  *)
(***************************************************************************)

LEMMA LeastNat ==
  ASSUME NEW T, T \subseteq Nat, T # {}
  PROVE  \E x \in T : \A y \in T : x <= y
<1>1. IsWellFoundedOn(OpToRel(<, Nat), Nat)
  BY NatLessThanWellFounded
<1>2. PICK x \in T : \A y \in T : <<y, x>> \notin OpToRel(<, Nat)
  BY <1>1, WFMin
<1>3. \A y \in T : ~ (y < x)
  BY <1>2 DEF OpToRel
<1> QED
  BY <1>3

LEMMA FinIs == ~IsLogin(Fin) /\ Fin \notin Requests /\ Fin \in Packets /\ Requests \subseteq Packets
  BY DEF Fin, IsLogin, Requests, Packets

\* What can be read comes before the first Fin, if there is one.
LEMMA ReadableIs ==
  ASSUME TypeInv
  PROVE  /\ Readable \in 0 .. Len(toServer) /\ Len(toServer) \in Nat
         /\ \A j \in 1 .. Readable : toServer[j] # Fin
         /\ HasFin => /\ Readable + 1 \in 1 .. Len(toServer) /\ toServer[Readable + 1] = Fin
                      /\ FirstFin = Readable + 1
         /\ ~HasFin => Readable = Len(toServer)
<1>1. toServer \in Seq(Packets) /\ Len(toServer) \in Nat
      /\ DOMAIN toServer = 1 .. Len(toServer)
  BY DEF TypeInv
<1>2. CASE HasFin
  <2> DEFINE I == {i \in 1 .. Len(toServer) : toServer[i] = Fin}
  <2>1. I \subseteq Nat /\ I # {}
    BY <1>1, <1>2 DEF HasFin
  <2>2. PICK x \in I : \A y \in I : x <= y
    BY <2>1, LeastNat
  <2>3. Min(I) \in I /\ \A y \in I : Min(I) <= y
    BY <2>2 DEF Min
  <2>4. FirstFin = Min(I)
    BY <2>1 DEF FirstFin, SelectInSeq
  <2>5. FirstFin \in 1 .. Len(toServer) /\ toServer[FirstFin] = Fin
    BY <2>3, <2>4
  <2>6. \A j \in 1 .. Len(toServer) : toServer[j] = Fin => FirstFin <= j
    BY <2>3, <2>4
  <2> HIDE DEF I
  <2>7. Readable = FirstFin - 1
    BY <1>2 DEF Readable
  <2> QED
    BY <1>1, <1>2, <2>5, <2>6, <2>7
<1>3. CASE ~HasFin
  BY <1>1, <1>3 DEF HasFin, Readable
<1> QED
  BY <1>2, <1>3

\* One more packet on the wire.
LEMMA Appended ==
  ASSUME NEW q \in Seq(Packets), NEW p \in Packets
  PROVE  /\ Append(q, p) \in Seq(Packets) /\ Append(q, p) # <<>>
         /\ Append(q, p)[Len(Append(q, p))] = p
         /\ Append(q, p)[1] = IF q = <<>> THEN p ELSE q[1]
         /\ Fins(Append(q, p)) <=> p = Fin \/ Fins(q)
         /\ LoginsFirst(q) /\ (IsLogin(p) => q = <<>> \/ q[Len(q)] = Fin)
              => LoginsFirst(Append(q, p))
         /\ \A n : AsksFor(p, n) /\ (q = <<>> \/ q[Len(q)] = Fin \/ LastAsksFor(q, n))
              => LastAsksFor(Append(q, p), n)
<1> DEFINE r == Append(q, p)
           l == Len(q)
<1>1. /\ l \in Nat /\ r \in Seq(Packets) /\ Len(r) = l + 1 /\ r[l + 1] = p /\ r # <<>>
      /\ DOMAIN q = 1 .. l /\ DOMAIN r = 1 .. l + 1 /\ \A k \in 1 .. l : r[k] = q[k]
      /\ q = <<>> <=> l = 0
  OBVIOUS
<1> HIDE DEF r
<1>2. r[1] = IF q = <<>> THEN p ELSE q[1]
  BY <1>1
<1>3. Fins(r) <=> p = Fin \/ Fins(q)
  BY <1>1 DEF Fins
<1>4. ASSUME LoginsFirst(q), IsLogin(p) => q = <<>> \/ q[l] = Fin PROVE LoginsFirst(r)
  <2> SUFFICES ASSUME NEW k \in 1 .. l + 1, IsLogin(r[k]) PROVE k = 1 \/ r[k - 1] = Fin
    BY <1>1 DEF LoginsFirst
  <2>1. CASE k = l + 1
    BY <1>1, <1>4, <2>1
  <2>2. CASE k \in 1 .. l
    <3>1. k = 1 \/ q[k - 1] = Fin
      BY <1>1, <1>4, <2>2 DEF LoginsFirst
    <3>2. k = 1 \/ k - 1 \in 1 .. l
      BY <1>1, <2>2
    <3> QED
      BY <1>1, <3>1, <3>2
  <2> QED
    BY <1>1, <2>1, <2>2
<1>5. ASSUME NEW n, AsksFor(p, n), q = <<>> \/ q[l] = Fin \/ LastAsksFor(q, n)
      PROVE  LastAsksFor(r, n)
  <2> SUFFICES ASSUME NEW k \in 1 .. l + 1, \A j \in k + 1 .. l + 1 : r[j] # Fin
               PROVE  AsksFor(r[k], n)
    BY <1>1 DEF LastAsksFor
  <2>1. CASE k = l + 1
    BY <1>1, <1>5, <2>1
  <2>2. CASE k \in 1 .. l
    <3>1. r[k] = q[k] /\ \A j \in k + 1 .. l : q[j] # Fin
      BY <1>1, <2>2
    <3>2. CASE q[l] = Fin
      <4>1. k = l \/ l \in k + 1 .. l
        <5>1. l \in Nat
          BY <1>1
        <5> HIDE DEF l
        <5> QED
          BY <2>2, <5>1
      <4> QED
        BY <3>1, <3>2, <4>1, FinIs DEF AsksFor, l
    <3>3. CASE LastAsksFor(q, n)
      BY <1>1, <2>2, <3>1, <3>3 DEF LastAsksFor
    <3> QED
      BY <1>1, <1>5, <2>2, <3>2, <3>3
  <2> QED
    BY <1>1, <2>1, <2>2
<1> QED
  BY <1>1, <1>2, <1>3, <1>4, <1>5 DEF r

\* The wire without its first m packets.
LEMMA Suffix ==
  ASSUME NEW q \in Seq(Packets), NEW m \in 0 .. Len(q), NEW r \in Seq(Packets),
         Len(r) = Len(q) - m, \A k \in 1 .. Len(r) : r[k] = q[m + k]
  PROVE  /\ r = <<>> <=> m = Len(q)
         /\ r # <<>> => r[1] = q[m + 1] /\ r[Len(r)] = q[Len(q)]
         /\ Fins(r) => Fins(q)
         /\ LoginsFirst(q) => LoginsFirst(r)
         /\ \A n : LastAsksFor(q, n) => LastAsksFor(r, n)
<1> DEFINE l == Len(q)
<1>1. /\ l \in Nat /\ Len(r) = l - m /\ DOMAIN r = 1 .. l - m /\ DOMAIN q = 1 .. l
      /\ r = <<>> <=> l - m = 0
  OBVIOUS
<1> HIDE DEF l
<1>2. r # <<>> => r[1] = q[m + 1] /\ r[Len(r)] = q[l]
  <2> SUFFICES ASSUME r # <<>> PROVE r[1] = q[m + 1] /\ r[l - m] = q[l]
    BY <1>1
  <2>1. 1 \in 1 .. l - m /\ l - m \in 1 .. l - m /\ m + (l - m) = l
    BY <1>1
  <2> QED
    BY <1>1, <2>1
<1>3. \A k \in m + 1 .. l : k - m \in 1 .. l - m /\ r[k - m] = q[k]
  <2> SUFFICES ASSUME NEW k \in m + 1 .. l PROVE k - m \in 1 .. l - m /\ r[k - m] = q[k]
    OBVIOUS
  <2>1. k - m \in 1 .. l - m /\ m + (k - m) = k
    BY <1>1
  <2> QED
    BY <1>1, <2>1
<1>4. \A k \in 1 .. l - m : m + k \in m + 1 .. l /\ r[k] = q[m + k]
  BY <1>1
<1>5. Fins(r) => Fins(q)
  <2>1. \A k \in 1 .. l - m : m + k \in 1 .. l
    BY <1>1
  <2> QED
    BY <1>1, <1>4, <2>1 DEF Fins
<1>6. ASSUME LoginsFirst(q) PROVE LoginsFirst(r)
  <2> SUFFICES ASSUME NEW k \in 1 .. l - m, IsLogin(r[k]) PROVE k = 1 \/ r[k - 1] = Fin
    BY <1>1 DEF LoginsFirst
  <2>0. m + k \in DOMAIN q /\ IsLogin(q[m + k])
    BY <1>1, <1>4
  <2>1. m + k = 1 \/ q[m + k - 1] = Fin
    <3>1. PICK j \in DOMAIN q : j = m + k
      BY <2>0
    <3>2. IsLogin(q[j])
      BY <2>0, <3>1
    <3>3. j = 1 \/ q[j - 1] = Fin
      BY <1>6, <3>2 DEF LoginsFirst
    <3> QED
      BY <3>1, <3>3
  <2>2. k = 1 \/ (k - 1 \in 1 .. l - m /\ m + (k - 1) = m + k - 1)
    BY <1>1
  <2>3. m + k = 1 => k = 1
    BY <1>1
  <2> QED
    BY <1>4, <2>1, <2>2, <2>3
<1>7. ASSUME NEW n, LastAsksFor(q, n) PROVE LastAsksFor(r, n)
  <2> SUFFICES ASSUME NEW k \in 1 .. l - m, \A j \in k + 1 .. l - m : r[j] # Fin
               PROVE  AsksFor(r[k], n)
    BY <1>1 DEF LastAsksFor
  <2>1. \A j \in m + k + 1 .. l : q[j] # Fin
    <3> SUFFICES ASSUME NEW j \in m + k + 1 .. l PROVE q[j] # Fin
      OBVIOUS
    <3>1. j \in m + 1 .. l /\ j - m \in k + 1 .. l - m
      BY <1>1
    <3> QED
      BY <1>3, <3>1
  <2>2. m + k \in 1 .. l
    BY <1>1
  <2> QED
    BY <1>1, <1>4, <1>7, <2>1, <2>2 DEF LastAsksFor, l
<1> QED
  BY <1>1, <1>2, <1>5, <1>6, <1>7 DEF l

LEMMA Dropped ==
  ASSUME NEW q \in Seq(Packets), NEW m \in 0 .. Len(q)
  PROVE  /\ SubSeq(q, m + 1, Len(q)) \in Seq(Packets)
         /\ Len(SubSeq(q, m + 1, Len(q))) = Len(q) - m
         /\ \A k \in 1 .. Len(SubSeq(q, m + 1, Len(q))) : SubSeq(q, m + 1, Len(q))[k] = q[m + k]
<1> DEFINE l == Len(q)
           r == SubSeq(q, m + 1, l)
<1>1. l \in Nat /\ m \in Nat /\ m <= l /\ m + 1 \in Int /\ l \in Int
      /\ \A i \in m + 1 .. l : q[i] \in Packets
  OBVIOUS
<1> HIDE DEF l
<1>2. /\ r \in Seq(Packets) /\ Len(r) = IF m + 1 <= l THEN l - (m + 1) + 1 ELSE 0
      /\ \A k \in 1 .. l - (m + 1) + 1 : r[k] = q[(m + 1) + k - 1]
  BY <1>1, SubSeqProperties
<1> HIDE DEF r
<1>3. Len(r) = l - m
  BY <1>1, <1>2
<1>4. \A k \in 1 .. l - m : k \in 1 .. l - (m + 1) + 1 /\ (m + 1) + k - 1 = m + k
  BY <1>1
<1>5. \A k \in 1 .. Len(r) : r[k] = q[m + k]
  BY <1>2, <1>3, <1>4
<1> QED
  BY <1>2, <1>3, <1>5 DEF r, l

\* Its first m packets.
LEMMA Prefix ==
  ASSUME NEW q \in Seq(Packets), NEW m \in 0 .. Len(q)
  PROVE  /\ SubSeq(q, 1, m) \in Seq(Packets) /\ Len(SubSeq(q, 1, m)) = m
         /\ \A k \in 1 .. m : SubSeq(q, 1, m)[k] = q[k]
         /\ SubSeq(q, 1, m) # <<>> => q # <<>> /\ SubSeq(q, 1, m)[1] = q[1]
         /\ LoginsFirst(q) => LoginsFirst(SubSeq(q, 1, m))
<1> DEFINE r == SubSeq(q, 1, m)
<1>1. r \in Seq(Packets) /\ Len(r) = m /\ \A k \in 1 .. m : r[k] = q[k]
  BY SubSeqProperties
<1> HIDE DEF r
<1>2. DOMAIN r = 1 .. m /\ DOMAIN q = 1 .. Len(q) /\ Len(q) \in Nat /\ (r = <<>> <=> m = 0)
  BY <1>1
<1>3. r # <<>> => q # <<>> /\ r[1] = q[1]
  BY <1>1, <1>2
<1>4. ASSUME LoginsFirst(q) PROVE LoginsFirst(r)
  <2> SUFFICES ASSUME NEW k \in 1 .. m, IsLogin(r[k]) PROVE k = 1 \/ r[k - 1] = Fin
    BY <1>2 DEF LoginsFirst
  <2>1. k = 1 \/ q[k - 1] = Fin
    BY <1>1, <1>2, <1>4 DEF LoginsFirst
  <2>2. k = 1 \/ k - 1 \in 1 .. m
    OBVIOUS
  <2> QED
    BY <1>1, <2>1, <2>2
<1> QED
  BY <1>1, <1>3, <1>4 DEF r

\* A server that is at work has somebody to serve.
LEMMA Serving ==
  ASSUME WireInv, pc # "recv" PROVE ~closed /\ (up \/ HasFin)
  BY DEF WireInv, Idle

LEMMA HistoryKept ==
  ASSUME TypeInv, NumbersAgree, ExactlyOnce, delivered' = delivered, resuming' => resuming,
         store' = store \/ \E t \in Seq(Messages) : store' = store \o t
  PROVE  NumbersAgree' /\ ExactlyOnce'
<1>1. \A k \in DOMAIN store : k \in DOMAIN store' /\ store'[k] = store[k]
  <2>1. CASE store' = store
    BY <2>1
  <2>2. CASE \E t \in Seq(Messages) : store' = store \o t
    BY <2>2 DEF TypeInv
  <2> QED
    BY <2>1, <2>2
<1> QED
  BY <1>1 DEF NumbersAgree, ExactlyOnce

\* What is on its way is as good as it was, and what is stored is only added to.
LEMMA FlowStays ==
  ASSUME TypeInv, TypeInv', FlowInv, OnItsWay' = OnItsWay, resuming' => resuming, next' = next,
         store' = store \/ \E t \in Seq(Messages) : store' = store \o t,
         (Live /\ loggedIn)' => Live /\ loggedIn /\ cursor' = cursor
  PROVE  FlowInv'
<1>1. PICK b \in 1 .. NextSeq :
        Flows(store, resuming, OnItsWay, next, b) /\ (Live /\ loggedIn => b = cursor)
  BY DEF FlowInv
<1>2. OnItsWay \in Seq(Replies) /\ store \in Seq(Messages)
  BY DEF TypeInv, OnItsWay
<1>3. PICK t \in Seq(Messages) : store' = store \o t
  <2>1. <<>> \in Seq(Messages) /\ store \o <<>> = store
    BY <1>2
  <2> QED
    BY <2>1
<1>4. Flows(store \o t, resuming', OnItsWay, next, b)
  <2>1. Len(OnItsWay) \in Nat /\ resuming \in BOOLEAN /\ resuming' \in BOOLEAN
    BY <1>2 DEF TypeInv
  <2> QED
    BY <1>1, <1>2, <2>1, FlowsKept
<1>5. b \in 1 .. NextSeq'
  <2>1. Len(store') >= Len(store) /\ Len(store') \in Nat /\ Len(store) \in Nat
    BY <1>2, <1>3
  <2> QED
    BY <2>1 DEF NextSeq
<1>6. Flows(store', resuming', OnItsWay', next', b)
  BY <1>3, <1>4
<1>7. (Live /\ loggedIn)' => b = cursor'
  BY <1>1
<1> QED
  BY <1>5, <1>6, <1>7 DEF FlowInv

\* The same, with one more packet or more of them.
LEMMA FlowGrows ==
  ASSUME TypeInv, FlowInv, NEW r \in Seq(Replies), OnItsWay' = OnItsWay \o r,
         UNCHANGED <<store, next, resuming>>,
         \A a \in 1 .. NextSeq : Flows(store, resuming, OnItsWay, next, a)
             /\ (Live /\ loggedIn => a = cursor) =>
           \E e \in 1 .. NextSeq : /\ Flows(store, resuming, r, a, e)
                                   /\ (Live /\ loggedIn)' => e = cursor'
  PROVE  FlowInv'
<1>1. PICK a \in 1 .. NextSeq :
        Flows(store, resuming, OnItsWay, next, a) /\ (Live /\ loggedIn => a = cursor)
  BY DEF FlowInv
<1>2. PICK e \in 1 .. NextSeq :
        Flows(store, resuming, r, a, e) /\ ((Live /\ loggedIn)' => e = cursor')
  BY <1>1
<1>3. OnItsWay \in Seq(Replies) /\ store \in Seq(Messages) /\ resuming \in BOOLEAN
  BY DEF TypeInv, OnItsWay
<1>4. Flows(store, resuming, OnItsWay \o r, next, e)
  BY <1>1, <1>2, <1>3, FlowsOn
<1>5. Flows(store', resuming', OnItsWay', next', e) /\ e \in 1 .. NextSeq'
  BY <1>4 DEF NextSeq
<1> QED
  BY <1>2, <1>5 DEF FlowInv

LEMMA FlowsAfresh ==
  ASSUME TypeInv, UNCHANGED <<store, next>>, resuming' \in BOOLEAN, OnItsWay' = <<>>,
         ~(Live /\ loggedIn)'
  PROVE  FlowInv'
<1>1. Flows(store, resuming', <<>>, next, next)
  BY FlowsNothing DEF TypeInv, NextSeq
<1>2. Flows(store', resuming', OnItsWay', next', next) /\ next \in 1 .. NextSeq'
  BY <1>1 DEF TypeInv, NextSeq
<1> QED
  BY <1>2 DEF FlowInv

LEMMA InitIInv == Init => IInv
<1> SUFFICES ASSUME Init PROVE IInv
  OBVIOUS
<1> USE DEF Init
<1>1. Len(<<>>) = 0
  OBVIOUS
<1>2. TypeInv
  <2>1. NextSeq = 1
    BY <1>1 DEF NextSeq
  <2>2. cursor \in 1 .. NextSeq /\ next \in 1 .. NextSeq
    BY <2>1
  <2>3. /\ store \in Seq(Messages) /\ inbox \in Seq(Requests) /\ out \in Seq(Replies)
        /\ toServer \in Seq(Packets) /\ toClient \in Seq(Replies)
        /\ delivered \in Seq([seq : Nat, msg : Messages])
    OBVIOUS
  <2> QED
    BY <2>2, <2>3 DEF TypeInv
<1>3. ~HasFin
  BY DEF HasFin
<1>4. WireInv /\ LoginInv
  BY <1>3 DEF WireInv, LoginInv, LoginsFirst, Idle
<1>5. ResumeInv
  BY DEF ResumeInv, Live
<1>6. FlowInv
  <2>1. ~Live /\ OnItsWay = <<>>
    BY DEF Live, OnItsWay
  <2>2. Flows(store, resuming, <<>>, next, next)
    BY <1>2, FlowsNothing DEF TypeInv, NextSeq
  <2>3. next \in 1 .. NextSeq
    BY <1>2 DEF TypeInv
  <2> QED
    BY <2>1, <2>2, <2>3 DEF FlowInv
<1>7. NumbersAgree /\ ExactlyOnce
  BY DEF NumbersAgree, ExactlyOnce
<1> QED
  BY <1>2, <1>4, <1>5, <1>6, <1>7 DEF IInv

-----------------------------------------------------------------------------
(***************************************************************************)
(* The client.                                                              *)
(***************************************************************************)

LEMMA ConnectIInv ==
  ASSUME IInv, NEW req \in {ResumeFrom} \union Asks, NEW valid \in BOOLEAN, Connect(req, valid)
  PROVE  IInv'
<1> DEFINE p == Login(req, valid)
<1> USE DEF IInv
<1>1. /\ ~up /\ up' = TRUE /\ closed' = FALSE /\ toClient' = <<>> /\ toServer' = Append(toServer, p)
      /\ resuming' = (resuming /\ (valid => req = next))
      /\ UNCHANGED <<store, pc, inbox, keep, out, loggedIn, cursor, next, delivered>>
  BY DEF Connect, server, ResumeFrom
<1>2. p \in Packets /\ p # Fin /\ IsLogin(p) /\ p.valid = valid /\ p.req = req
  <2>1. req \in Nat
    BY SessionAssumption DEF TypeInv, ResumeFrom, NextSeq
  <2> QED
    BY <2>1 DEF Login, Requests, Packets, Fin, IsLogin
<1> HIDE DEF p
<1>3. toServer \in Seq(Packets)
  BY DEF TypeInv
<1>4. TypeInv'
  <2>1. toServer' \in Seq(Packets) /\ NextSeq' = NextSeq /\ resuming' \in BOOLEAN
        /\ toClient' \in Seq(Replies)
    BY <1>1, <1>2, <1>3, Appended DEF NextSeq, TypeInv
  <2> QED
    BY <1>1, <2>1 DEF TypeInv
<1>5. HasFin' <=> HasFin
  BY <1>1, <1>2, <1>3, Appended DEF HasFin, Fins
<1>6. toServer = <<>> \/ toServer[Len(toServer)] = Fin
  BY <1>1 DEF WireInv, Idle
<1>7. ~HasFin => pc = "recv" /\ ~loggedIn /\ toServer = <<>> /\ out = <<>> /\ inbox = <<>>
  BY <1>1 DEF WireInv, Idle
<1>8. toServer = <<>> => ~HasFin
  BY DEF HasFin
<1>9. WireInv'
  BY <1>1 DEF WireInv
<1>10. LoginInv'
  <2>1. LoginsFirst(toServer')
    BY <1>1, <1>2, <1>3, <1>6, Appended DEF LoginInv
  <2>2. IsLogin(toServer'[1]) => pc = "recv" /\ ~loggedIn
    BY <1>1, <1>2, <1>3, <1>7, <1>8, Appended DEF LoginInv
  <2> QED
    BY <1>1, <2>1, <2>2 DEF LoginInv
<1>11. ResumeInv'
  <2>1. resuming' => LastAsksFor(toServer', next)
    <3>1. resuming' => AsksFor(p, next)
      BY <1>1, <1>2 DEF AsksFor
    <3> QED
      BY <1>1, <1>2, <1>3, <1>6, <3>1, Appended
  <2>2. Live' => inbox' = <<>>
    BY <1>1, <1>5, <1>7 DEF Live
  <2> QED
    <3>1. Live' => DOMAIN inbox' = {}
      BY <2>2
    <3> QED
      BY <1>1, <2>1, <3>1 DEF ResumeInv
<1>12. FlowInv'
  <2>1. OnItsWay' = <<>>
    <3>1. Live' => out' = <<>>
      BY <1>1, <1>5, <1>7 DEF Live
    <3> QED
      BY <1>1, <3>1 DEF OnItsWay
  <2>2. ~(Live /\ loggedIn)'
    BY <1>1, <1>5, <1>7 DEF Live
  <2>3. resuming' \in BOOLEAN
    BY <1>4 DEF TypeInv
  <2> QED
    BY <1>1, <2>1, <2>2, <2>3, FlowsAfresh
<1>13. NumbersAgree' /\ ExactlyOnce'
  BY <1>1, HistoryKept
<1> QED
  BY <1>4, <1>9, <1>10, <1>11, <1>12, <1>13

LEMMA SendIInv ==
  ASSUME IInv, NEW type \in {"Order", "Quiet", "Logout", "Junk"}, Send(type)
  PROVE  IInv'
<1> DEFINE p == [type |-> type]
<1> USE DEF IInv
<1>1. /\ up /\ toServer' = IF closed THEN toServer ELSE Append(toServer, p)
      /\ UNCHANGED <<store, pc, inbox, keep, out, loggedIn, cursor, toClient, up, closed,
                     next, connects, delivered, resuming>>
  BY DEF Send, server, client
<1>2. p \in Packets /\ p # Fin /\ ~IsLogin(p)
  BY DEF Requests, Packets, Fin, IsLogin
<1> HIDE DEF p
<1>3. CASE closed
  <2>1. IInv' <=> IInv
    BY <1>1, <1>3 DEF TypeInv, WireInv, LoginInv, ResumeInv, FlowInv, NumbersAgree, ExactlyOnce,
                      NextSeq, Idle, HasFin, Live, OnItsWay
  <2> QED
    BY <2>1
<1>4. CASE ~closed
  <2>1. toServer \in Seq(Packets) /\ toServer' = Append(toServer, p)
    BY <1>1, <1>4 DEF TypeInv
  <2>2. TypeInv'
    <3>1. toServer' \in Seq(Packets) /\ NextSeq' = NextSeq
      BY <1>1, <1>2, <2>1, Appended DEF NextSeq
    <3> QED
      BY <1>1, <3>1 DEF TypeInv
  <2>3. HasFin' <=> HasFin
    BY <1>2, <2>1, Appended DEF HasFin, Fins
  <2>4. Live' = Live /\ OnItsWay' = OnItsWay
    BY <1>1, <2>3 DEF Live, OnItsWay
  <2>5. WireInv'
    BY <1>1, <1>4, <2>3 DEF WireInv
  <2>6. LoginInv'
    <3>1. LoginsFirst(toServer')
      BY <1>2, <2>1, Appended DEF LoginInv
    <3>2. IsLogin(toServer'[1]) => toServer # <<>> /\ IsLogin(toServer[1])
      BY <1>2, <2>1, Appended
    <3> QED
      BY <1>1, <2>4, <3>1, <3>2 DEF LoginInv
  <2>7. ResumeInv'
    <3>1. LastAsksFor(toServer, next) => LastAsksFor(toServer', next)
      BY <1>2, <2>1, Appended DEF AsksFor
    <3> QED
      BY <1>1, <2>4, <3>1 DEF ResumeInv
  <2>8. FlowInv'
    BY <1>1, <2>2, <2>4, FlowStays
  <2>9. NumbersAgree' /\ ExactlyOnce'
    BY <1>1, HistoryKept
  <2> QED
    BY <2>2, <2>5, <2>6, <2>7, <2>8, <2>9
<1> QED
  BY <1>3, <1>4

LEMMA DisconnectIInv ==
  ASSUME IInv, NEW k \in 0 .. Len(toServer), Disconnect(k)
  PROVE  IInv'
<1> DEFINE q == SubSeq(toServer, 1, k)
<1> USE DEF IInv
<1>1. /\ up' = FALSE /\ toClient' = <<>>
      /\ toServer' = IF closed THEN toServer ELSE Append(q, Fin)
      /\ UNCHANGED <<store, pc, inbox, keep, out, loggedIn, cursor, closed,
                     next, delivered, resuming>>
  BY DEF Disconnect, server, client
<1>2. toServer \in Seq(Packets)
  BY DEF TypeInv
<1>3. q \in Seq(Packets) /\ (q # <<>> => toServer # <<>> /\ q[1] = toServer[1]) /\ LoginsFirst(q)
  BY <1>2, Prefix DEF LoginInv
<1> HIDE DEF q
<1>4. TypeInv'
  <2>1. toServer' \in Seq(Packets) /\ NextSeq' = NextSeq /\ toClient' \in Seq(Replies)
    BY <1>1, <1>2, <1>3, Appended, FinIs DEF NextSeq
  <2> QED
    BY <1>1, <2>1 DEF TypeInv
<1>5. ~Live' /\ OnItsWay' = <<>>
  BY <1>1 DEF Live, OnItsWay
<1>6. WireInv' /\ LoginInv'
  <2>1. CASE closed
    <3>1. toServer' = toServer /\ toServer = <<>> /\ Idle'
      BY <1>1, <2>1 DEF WireInv, Idle
    <3>2. ~HasFin'
      BY <3>1 DEF HasFin
    <3> QED
      BY <1>1, <1>5, <3>1, <3>2 DEF WireInv, LoginInv
  <2>2. CASE ~closed
    <3>1. toServer' = Append(q, Fin)
      BY <1>1, <2>2
    <3>2. HasFin' /\ toServer'[Len(toServer')] = Fin
      BY <1>3, <3>1, Appended, FinIs DEF HasFin, Fins
    <3>3. LoginsFirst(toServer')
      BY <1>3, <3>1, Appended, FinIs
    <3>4. IsLogin(toServer'[1]) => toServer # <<>> /\ IsLogin(toServer[1])
      BY <1>3, <3>1, Appended, FinIs
    <3>5. WireInv'
      BY <1>1, <2>2, <3>2 DEF WireInv
    <3>6. LoginInv'
      BY <1>1, <1>5, <3>3, <3>4 DEF LoginInv
    <3> QED
      BY <3>5, <3>6
  <2> QED
    BY <2>1, <2>2
<1>7. ResumeInv'
  BY <1>1, <1>5 DEF ResumeInv
<1>8. FlowInv'
  BY <1>1, <1>4, <1>5, FlowsAfresh DEF TypeInv
<1>9. NumbersAgree' /\ ExactlyOnce'
  BY <1>1, HistoryKept
<1> QED
  BY <1>4, <1>6, <1>7, <1>8, <1>9

LEMMA ClientReadIInv ==
  ASSUME IInv, ClientRead
  PROVE  IInv'
<1> DEFINE p == Head(toClient)
<1> USE DEF IInv
<1>1. /\ toClient # <<>> /\ toClient' = Tail(toClient)
      /\ UNCHANGED <<store, pc, inbox, keep, out, loggedIn, cursor, toServer, up, closed, resuming>>
      /\ next' = CASE p.type = "Accepted" -> p.seq
                   [] p.type = "Data" -> next + 1
                   [] OTHER -> next
      /\ delivered' = IF p.type = "Data" THEN Append(delivered, [seq |-> next, msg |-> p.msg])
                                         ELSE delivered
  BY DEF ClientRead, server
<1>2. PICK b \in 1 .. NextSeq :
        Flows(store, resuming, OnItsWay, next, b) /\ (Live /\ loggedIn => b = cursor)
  BY DEF FlowInv
<1>3. OnItsWay \in Seq(Replies) /\ OnItsWay # <<>> /\ Head(OnItsWay) = p
      /\ OnItsWay' = Tail(OnItsWay) /\ p \in Replies
  <2>1. toClient \in Seq(Replies) /\ out \in Seq(Replies)
    BY DEF TypeInv
  <2>2. Live' = Live
    BY <1>1 DEF Live, HasFin
  <2>3. CASE Live
    <3>1. OnItsWay = toClient \o out /\ OnItsWay' = Tail(toClient) \o out
      BY <1>1, <2>2, <2>3 DEF OnItsWay
    <3>2. toClient = <<Head(toClient)>> \o Tail(toClient) /\ Tail(toClient) \in Seq(Replies)
          /\ Head(toClient) \in Replies
      BY <1>1, <2>1
    <3>3. Tail(toClient \o out) = Tail(toClient) \o out
      BY <1>1, <2>1
    <3> QED
      BY <1>1, <2>1, <3>1, <3>2, <3>3
  <2>4. CASE ~Live
    BY <1>1, <2>1, <2>2, <2>4 DEF OnItsWay
  <2> QED
    BY <2>3, <2>4
<1>4. PICK m \in 1 .. NextSeq :
        Counts(store, resuming, next, p, m) /\ Flows(store, resuming, OnItsWay', m, b)
  <2>1. store \in Seq(Messages) /\ resuming \in BOOLEAN
    BY DEF TypeInv
  <2> QED
    BY <1>2, <1>3, <2>1, FlowsTail DEF NextSeq
<1>5. m = next' /\ (resuming /\ p.type # "Data" => m = next)
  BY <1>1, <1>4 DEF Counts
<1>6. p.type = "Data" => next \in DOMAIN store /\ store[next] = p.msg
  BY <1>4 DEF Counts
<1> HIDE DEF p
<1>7. next \in Nat /\ delivered \in Seq([seq : Nat, msg : Messages])
  BY DEF TypeInv, NextSeq
<1>8. p.type = "Data" => [seq |-> next, msg |-> p.msg] \in [seq : Nat, msg : Messages]
  BY <1>6, <1>7 DEF TypeInv
<1>9. TypeInv'
  <2>1. delivered' \in Seq([seq : Nat, msg : Messages])
    <3>1. CASE p.type = "Data"
      BY <1>1, <1>7, <1>8, <3>1, AppendProperties
    <3>2. CASE p.type # "Data"
      BY <1>1, <1>7, <3>2
    <3> QED
      BY <3>1, <3>2
  <2>2. toClient' \in Seq(Replies)
    BY <1>1 DEF TypeInv
  <2>3. NextSeq' = NextSeq /\ next' \in 1 .. NextSeq
    BY <1>1, <1>4, <1>5 DEF NextSeq
  <2> QED
    BY <1>1, <2>1, <2>2, <2>3 DEF TypeInv
<1>10. (HasFin' <=> HasFin) /\ (Live' <=> Live) /\ (Idle' <=> Idle)
  BY <1>1 DEF HasFin, Live, Idle
\* No login is on its way to the server, or in its hands.
<1>11. up => /\ \A k \in DOMAIN toServer : ~IsLogin(toServer[k])
             /\ Live => \A k \in DOMAIN inbox : ~IsLogin(inbox[k])
  <2> SUFFICES ASSUME up
               PROVE  /\ \A k \in DOMAIN toServer : ~IsLogin(toServer[k])
                      /\ Live => \A k \in DOMAIN inbox : ~IsLogin(inbox[k])
    OBVIOUS
  <2>1. ~HasFin
    BY <1>1 DEF WireInv
  <2>2. ASSUME NEW k \in DOMAIN toServer, IsLogin(toServer[k]) PROVE FALSE
    <3>1. toServer \in Seq(Packets)
      BY DEF TypeInv
    <3>2. k = 1
      <4>1. k = 1 \/ toServer[k - 1] = Fin
        BY <2>2 DEF LoginInv, LoginsFirst
      <4>2. k = 1 \/ k - 1 \in DOMAIN toServer
        BY <3>1
      <4> QED
        BY <2>1, <4>1, <4>2 DEF HasFin
    <3>3. toServer # <<>>
      BY <2>2
    <3>4. Live
      BY <2>1, <3>3 DEF WireInv, Idle, Live
    <3> QED
      BY <1>1, <2>2, <3>2, <3>3, <3>4 DEF LoginInv
  <2>3. Live => \A k \in DOMAIN inbox : ~IsLogin(inbox[k])
    BY <1>1 DEF LoginInv
  <2> QED
    BY <2>2, <2>3
<1>12. WireInv'
  <2>1. up /\ HasFin => FALSE
    BY <1>1 DEF WireInv
  <2> QED
    BY <1>1, <1>10, <2>1 DEF WireInv
<1>13. LoginInv'
  BY <1>1, <1>10 DEF LoginInv
<1>14. ResumeInv'
  <2>1. resuming => next' = Len(delivered') + 1
    <3>1. CASE p.type = "Data"
      BY <1>1, <1>7, <1>8, <3>1 DEF ResumeInv
    <3>2. CASE p.type # "Data"
      BY <1>1, <1>5, <3>2 DEF ResumeInv
    <3> QED
      BY <3>1, <3>2
  <2>2. up => LastAsksFor(toServer, next')
    BY <1>11 DEF LastAsksFor, AsksFor
  <2>3. Live => \A k \in DOMAIN inbox : AsksFor(inbox[k], next')
    BY <1>11 DEF AsksFor, Live
  <2> QED
    BY <1>1, <1>10, <2>1, <2>2, <2>3 DEF ResumeInv
<1>15. FlowInv'
  <2>1. Flows(store', resuming', OnItsWay', next', b) /\ b \in 1 .. NextSeq'
    BY <1>1, <1>4, <1>5 DEF NextSeq
  <2>2. (Live /\ loggedIn)' => b = cursor'
    BY <1>1, <1>2, <1>10
  <2> QED
    BY <2>1, <2>2 DEF FlowInv
<1>16. NumbersAgree' /\ ExactlyOnce'
  <2>1. CASE p.type = "Data"
    <3> DEFINE n == Len(delivered)
               d == [seq |-> next, msg |-> p.msg]
    <3>1. /\ n \in Nat /\ DOMAIN delivered = 1 .. n /\ DOMAIN delivered' = 1 .. n + 1
          /\ delivered'[n + 1] = d /\ \A k \in 1 .. n : delivered'[k] = delivered[k]
      BY <1>1, <1>7, <1>8, <2>1
    <3> HIDE DEF n
    <3>2. NumbersAgree'
      BY <1>1, <1>6, <2>1, <3>1 DEF NumbersAgree
    <3>3. resuming => next = n + 1
      BY DEF ResumeInv, n
    <3>4. ExactlyOnce'
      BY <1>1, <3>1, <3>3 DEF ExactlyOnce
    <3> QED
      BY <3>2, <3>4
  <2>2. CASE p.type # "Data"
    BY <1>1, <2>2, HistoryKept
  <2> QED
    BY <2>1, <2>2
<1> QED
  BY <1>9, <1>12, <1>13, <1>14, <1>15, <1>16

-----------------------------------------------------------------------------
(***************************************************************************)
(* The server.                                                              *)
(***************************************************************************)

LEMMA RecvIInv ==
  ASSUME IInv, NEW n \in 1 .. Readable, Recv(n)
  PROVE  IInv'
<1> USE DEF IInv
<1>1. /\ pc = "recv" /\ pc' = "handle" /\ inbox' = SubSeq(toServer, 1, n)
      /\ toServer' = SubSeq(toServer, n + 1, Len(toServer))
      /\ UNCHANGED <<store, keep, out, loggedIn, cursor, toClient, up, closed,
                     next, connects, delivered, resuming>>
  BY DEF Recv, client
<1>2. /\ toServer \in Seq(Packets) /\ Len(toServer) \in Nat /\ DOMAIN toServer = 1 .. Len(toServer)
      /\ n \in 1 .. Len(toServer) /\ n \in 0 .. Len(toServer)
      /\ \A j \in 1 .. n : toServer[j] # Fin
  <2>1. toServer \in Seq(Packets)
    BY DEF TypeInv
  <2>2. Readable \in 0 .. Len(toServer) /\ \A j \in 1 .. Readable : toServer[j] # Fin
    BY ReadableIs
  <2> QED
    BY <2>1, <2>2
<1>3. /\ toServer' \in Seq(Packets) /\ Len(toServer') = Len(toServer) - n
      /\ \A k \in 1 .. Len(toServer') : toServer'[k] = toServer[n + k]
  BY <1>1, <1>2, Dropped
<1>4. /\ inbox' \in Seq(Requests) /\ DOMAIN inbox' = 1 .. n
      /\ \A k \in 1 .. n : inbox'[k] = toServer[k]
  <2>1. inbox' \in Seq(Packets) /\ Len(inbox') = n /\ \A k \in 1 .. n : inbox'[k] = toServer[k]
    BY <1>1, <1>2, Prefix
  <2>2. \A k \in 1 .. n : inbox'[k] \in Requests
    BY <1>2, <2>1 DEF Packets
  <2> QED
    BY <2>1, <2>2
<1>5. (HasFin' <=> HasFin) /\ (Live' <=> Live)
  <2>1. Fins(toServer') <=> Fins(toServer)
    <3>1. Fins(toServer') => Fins(toServer)
      BY <1>2, <1>3, Suffix
    <3>2. ASSUME Fins(toServer) PROVE Fins(toServer')
      <4>1. PICK k \in 1 .. Len(toServer) : toServer[k] = Fin
        BY <1>2, <3>2 DEF Fins
      <4>2. k - n \in 1 .. Len(toServer') /\ n + (k - n) = k
        BY <1>2, <1>3, <4>1
      <4>3. toServer'[k - n] = Fin
        BY <1>3, <4>1, <4>2
      <4> QED
        BY <1>3, <4>2, <4>3 DEF Fins
    <3> QED
      BY <3>1, <3>2
  <2>2. HasFin' <=> HasFin
    BY <2>1 DEF HasFin, Fins
  <2> QED
    BY <1>1, <2>2 DEF Live
<1>6. toServer # <<>> /\ ~closed /\ out = <<>>
  BY <1>1, <1>2 DEF WireInv, Idle
<1>7. TypeInv'
  BY <1>1, <1>3, <1>4 DEF TypeInv, NextSeq
<1>8. WireInv'
  <2>1. up \/ HasFin
    BY <1>6 DEF WireInv, Idle
  <2>2. HasFin' => toServer' # <<>>
    BY DEF HasFin
  <2>3. toServer' # <<>> => toServer'[Len(toServer')] = toServer[Len(toServer)]
    BY <1>2, <1>3, Suffix
  <2> QED
    BY <1>1, <1>5, <1>6, <2>1, <2>2, <2>3 DEF WireInv
<1>9. LoginInv'
  <2>1. LoginsFirst(toServer')
    BY <1>2, <1>3, Suffix DEF LoginInv
  <2>2. ASSUME toServer' # <<>>, IsLogin(toServer'[1]) PROVE FALSE
    <3>1. toServer'[1] = toServer[n + 1] /\ n + 1 \in DOMAIN toServer
      BY <1>2, <1>3, <2>2
    <3>2. n + 1 = 1 \/ toServer[n + 1 - 1] = Fin
      BY <2>2, <3>1 DEF LoginInv, LoginsFirst
    <3> QED
      BY <1>2, <3>2
  <2>3. ASSUME NEW k \in 1 .. n, IsLogin(toServer[k])
        PROVE  k = 1 /\ ~loggedIn /\ (Live => toClient = <<>>)
    <3>1. k = 1 \/ toServer[k - 1] = Fin
      BY <1>2, <2>3 DEF LoginInv, LoginsFirst
    <3>2. k = 1
      BY <1>2, <3>1
    <3> QED
      BY <1>6, <2>3, <3>2 DEF LoginInv
  <2> QED
    BY <1>1, <1>4, <1>5, <1>6, <2>1, <2>2, <2>3 DEF LoginInv
<1>10. ResumeInv'
  <2>1. \A a : LastAsksFor(toServer, a) => LastAsksFor(toServer', a)
    BY <1>2, <1>3, Suffix
  <2>2. ASSUME LastAsksFor(toServer, next), Live
        PROVE  \A k \in DOMAIN inbox' : AsksFor(inbox'[k], next)
    <3>1. \A k \in DOMAIN toServer : toServer[k] # Fin
      BY <2>2 DEF Live, HasFin
    <3> SUFFICES ASSUME NEW k \in 1 .. n PROVE AsksFor(toServer[k], next)
      BY <1>4
    <3>2. \A j \in k + 1 .. Len(toServer) : j \in DOMAIN toServer
      BY <1>2
    <3> QED
      BY <1>2, <2>2, <3>1, <3>2 DEF LastAsksFor
  <2>3. Live => up
    BY DEF Live
  <2> QED
    BY <1>1, <1>5, <2>1, <2>2, <2>3 DEF ResumeInv
<1>11. FlowInv'
  <2>1. OnItsWay' = OnItsWay
    BY <1>1, <1>5 DEF OnItsWay
  <2> QED
    BY <1>1, <1>5, <1>7, <2>1, FlowStays
<1>12. NumbersAgree' /\ ExactlyOnce'
  BY <1>1, HistoryKept
<1> QED
  BY <1>7, <1>8, <1>9, <1>10, <1>11, <1>12

\* The client has gone and the server turns to what follows the Fin at m.
LEMMA TurnsTo ==
  ASSUME IInv, NEW m \in 1 .. Len(toServer), HasFin,
         toServer' \in Seq(Packets), Len(toServer') = Len(toServer) - m,
         \A k \in 1 .. Len(toServer') : toServer'[k] = toServer[m + k],
         pc # "handle", pc' = "recv", out' = <<>>, keep', ~loggedIn',
         UNCHANGED <<up, closed, inbox, toClient, next, delivered, resuming>>
  PROVE  WireInv' /\ LoginInv' /\ ResumeInv'
<1> USE DEF IInv
<1>1. toServer \in Seq(Packets) /\ m \in 0 .. Len(toServer) /\ inbox = <<>>
  BY DEF TypeInv, WireInv
<1>2. HasFin' => toServer' # <<>>
  BY DEF HasFin
<1>3. toServer' # <<>> => toServer'[Len(toServer')] = toServer[Len(toServer)]
  BY <1>1, Suffix
<1>4. ~closed
  BY DEF WireInv, Idle, HasFin
<1>5. toServer' # <<>> /\ ~up => HasFin'
  <2> SUFFICES ASSUME toServer' # <<>>, ~up PROVE HasFin'
    OBVIOUS
  <2>1. toServer'[Len(toServer')] = Fin
    BY <1>3 DEF WireInv
  <2>2. Len(toServer') \in DOMAIN toServer'
    OBVIOUS
  <2> QED
    BY <2>1, <2>2 DEF HasFin
<1>6. WireInv'
  BY <1>1, <1>2, <1>3, <1>4, <1>5 DEF WireInv, Idle
<1>7. up => toClient = <<>>
  BY DEF WireInv
<1>8. LoginInv'
  <2>1. LoginsFirst(toServer')
    BY <1>1, Suffix DEF LoginInv
  <2> QED
    BY <1>1, <1>7, <2>1 DEF LoginInv, Live
<1>9. ResumeInv'
  <2>1. \A a : LastAsksFor(toServer, a) => LastAsksFor(toServer', a)
    BY <1>1, Suffix
  <2> QED
    BY <1>1, <2>1 DEF ResumeInv
<1> QED
  BY <1>6, <1>8, <1>9

LEMMA RecvEndIInv == ASSUME IInv, RecvEnd PROVE IInv'
<1> USE DEF IInv
<1>1. /\ pc = "recv" /\ Readable = 0 /\ HasFin /\ toServer' = Tail(toServer)
      /\ loggedIn' = FALSE /\ cursor' = 1
      /\ UNCHANGED <<store, pc, inbox, keep, out, toClient, up, closed,
                     next, connects, delivered, resuming>>
  BY DEF RecvEnd, ForgetConnection, client
<1>2. 1 \in 1 .. Len(toServer) /\ toServer \in Seq(Packets) /\ toServer # <<>>
  BY <1>1, ReadableIs DEF HasFin, TypeInv
<1>3. /\ toServer' \in Seq(Packets) /\ Len(toServer') = Len(toServer) - 1
      /\ \A k \in 1 .. Len(toServer') : toServer'[k] = toServer[1 + k]
  BY <1>1, <1>2
<1>4. out = <<>> /\ keep /\ ~Live
  BY <1>1 DEF WireInv, Live
<1>5. TypeInv'
  <2>1. NextSeq' = NextSeq /\ cursor' \in 1 .. NextSeq
    BY <1>1 DEF TypeInv, NextSeq
  <2> QED
    BY <1>1, <1>3, <2>1 DEF TypeInv
<1>6. WireInv' /\ LoginInv' /\ ResumeInv'
  BY <1>1, <1>2, <1>3, <1>4, TurnsTo
<1>7. FlowInv'
  <2>1. toClient \o <<>> = toClient
    BY DEF TypeInv
  <2>2. OnItsWay' = OnItsWay
    BY <1>1, <1>4, <2>1 DEF OnItsWay
  <2> QED
    BY <1>1, <1>5, <2>2, FlowStays
<1>8. NumbersAgree' /\ ExactlyOnce'
  BY <1>1, HistoryKept
<1> QED
  BY <1>5, <1>6, <1>7, <1>8

\* Whatever it is that is handled, the wire does not move, and no login is left.
LEMMA HandleKeeps ==
  ASSUME IInv, Handle
  PROVE  WireInv' /\ LoginInv' /\ ResumeInv' /\ inbox' \in Seq(Requests)
<1> USE DEF IInv
<1>1. /\ pc = "handle" /\ inbox # <<>> /\ inbox' = (IF keep' THEN Tail(inbox) ELSE <<>>)
      /\ UNCHANGED <<pc, toServer, toClient, up, closed, next, connects, delivered, resuming>>
  BY DEF Handle, network, client
<1>2. inbox \in Seq(Requests)
  BY DEF TypeInv
<1>3. inbox' \in Seq(Requests)
  BY <1>1, <1>2
<1>4. ASSUME NEW k \in DOMAIN inbox' PROVE ~IsLogin(inbox'[k])
  <2>1. inbox' = Tail(inbox)
    BY <1>1, <1>4
  <2>2. k + 1 \in DOMAIN inbox /\ inbox'[k] = inbox[k + 1] /\ k \in 1 .. Len(Tail(inbox))
    BY <1>1, <1>2, <1>4, <2>1
  <2>3. k + 1 # 1
    BY <2>2
  <2> QED
    BY <2>2, <2>3 DEF LoginInv
<1>5. ~closed /\ (up \/ HasFin) /\ ~closed' /\ (up' \/ HasFin') /\ (HasFin' <=> HasFin)
  BY <1>1, Serving DEF HasFin
<1>6. WireInv'
  BY <1>1, <1>5 DEF WireInv
<1>7. LoginInv'
  BY <1>1, <1>4 DEF LoginInv
<1>8. ResumeInv'
  BY <1>1, <1>4 DEF ResumeInv, AsksFor
<1> QED
  BY <1>3, <1>6, <1>7, <1>8

LEMMA HandleIInv == ASSUME IInv, Handle PROVE IInv'
<1> DEFINE p == Head(inbox)
<1> USE DEF IInv
<1>1. /\ pc = "handle" /\ inbox # <<>>
      /\ HandleLogin(p) \/ (\E s \in Published : HandleOrder(p, s)) \/ HandleOther(p)
      /\ UNCHANGED <<pc, toServer, toClient, up, closed, next, connects, delivered, resuming>>
  BY DEF Handle, network, client
<1>2. inbox \in Seq(Requests) /\ p = inbox[1] /\ p \in Requests /\ 1 \in DOMAIN inbox
  BY <1>1 DEF TypeInv
<1> HIDE DEF p
<1>3. (HasFin' <=> HasFin) /\ (Live' <=> Live)
  BY <1>1 DEF HasFin, Live
<1>4. WireInv' /\ LoginInv' /\ ResumeInv' /\ inbox' \in Seq(Requests)
  BY HandleKeeps
<1>5. CASE HandleLogin(p)
  <2>1. IsLogin(p) /\ ~loggedIn /\ out = <<>> /\ (Live => toClient = <<>>) /\ UNCHANGED store
    BY <1>2, <1>5 DEF LoginInv, IsLogin, HandleLogin
  <2>2. NumbersAgree' /\ ExactlyOnce'
    BY <1>1, <2>1, HistoryKept
  <2>3. CASE ~p.valid
    <3> DEFINE r == [type |-> "Rejected"]
    <3>1. keep' = FALSE /\ out' = <<r>> /\ UNCHANGED <<store, loggedIn, cursor>>
      BY <1>5, <2>1, <2>3 DEF HandleLogin
    <3>2. r \in Replies /\ <<r>> \in Seq(Replies) /\ (\A a : Counts(store, resuming, a, r, a))
      BY DEF Replies, Counts
    <3> HIDE DEF r
    <3>3. TypeInv'
      BY <1>1, <1>4, <3>1, <3>2 DEF TypeInv, NextSeq
    <3>4. FlowInv'
      <4>1. CASE Live
        <5>1. OnItsWay = <<>> /\ OnItsWay' = OnItsWay \o <<r>>
          BY <1>1, <1>3, <2>1, <3>1, <3>2, <4>1 DEF OnItsWay
        <5>2. \A a \in 1 .. NextSeq : Flows(store, resuming, <<r>>, a, a)
          BY <3>2, FlowsOne DEF TypeInv, NextSeq
        <5> QED
          BY <1>1, <2>1, <3>1, <3>2, <5>1, <5>2, FlowGrows
      <4>2. CASE ~Live
        BY <1>1, <1>3, <3>1, <3>3, <4>2, FlowStays DEF OnItsWay
      <4> QED
        BY <4>1, <4>2
    <3> QED
      BY <1>4, <2>2, <3>3, <3>4
  <2>4. CASE p.valid
    <3> DEFINE at == StartAt(p.req)
               r == <<Accepted(at)>> \o Owed(store, at)
    <3>1. /\ keep' = TRUE /\ loggedIn' = TRUE
          /\ out' = (<<>> \o <<Accepted(at)>>) \o Owed(store, at)
          /\ cursor' = AfterPump(at) /\ UNCHANGED store
      BY <1>5, <2>1, <2>4 DEF HandleLogin
    <3>2. at \in 1 .. NextSeq /\ at \in Nat /\ NextSeq \in Nat /\ AfterPump(at) = NextSeq
      <4>1. p.req \in Nat
        BY <1>2, <2>1 DEF Requests, IsLogin
      <4>2. NextSeq \in Nat /\ NextSeq >= 1
        BY DEF TypeInv, NextSeq
      <4>3. at \in 1 .. NextSeq
        BY <4>1, <4>2 DEF StartAt
      <4> QED
        BY <4>2, <4>3 DEF AfterPump
    <3>3. resuming /\ Live => at = next
      <4> SUFFICES ASSUME resuming, Live PROVE at = next
        OBVIOUS
      <4>1. p.req = next
        BY <1>2, <2>1, <2>4 DEF ResumeInv, AsksFor
      <4>2. next \in 1 .. NextSeq
        BY DEF TypeInv
      <4> QED
        BY <3>2, <4>1, <4>2 DEF StartAt
    <3> HIDE DEF at
    <3>4. Accepted(at) \in Replies
      BY <3>2 DEF Accepted, Replies
    <3>5. Owed(store, at) \in Seq(Replies) /\ Flows(store, resuming, Owed(store, at), at, NextSeq)
      BY <3>2, FlowsOwed DEF TypeInv, NextSeq
    <3>6. out' = r /\ r \in Seq(Replies)
      BY <3>1, <3>4, <3>5
    <3>7. TypeInv'
      BY <1>1, <1>4, <3>1, <3>2, <3>6 DEF TypeInv, NextSeq
    <3>8. FlowInv'
      <4>1. CASE Live
        <5>1. OnItsWay' = r
          BY <1>1, <1>3, <2>1, <3>6, <4>1 DEF OnItsWay
        <5>2. Counts(store, resuming, next, Accepted(at), at)
          BY <3>3, <4>1 DEF Counts, Accepted
        <5>3. next \in 1 .. NextSeq /\ store \in Seq(Messages) /\ resuming \in BOOLEAN
          BY DEF TypeInv
        <5>4. Flows(store, resuming, <<Accepted(at)>>, next, at)
          BY <3>2, <5>2, <5>3, FlowsOne DEF NextSeq
        <5>5. Flows(store, resuming, r, next, NextSeq)
          <6>1. <<Accepted(at)>> \in Seq(Replies)
            BY <3>4
          <6> QED
            BY <3>5, <5>3, <5>4, <6>1, FlowsOn
        <5>6. Flows(store', resuming', OnItsWay', next', NextSeq)
          BY <1>1, <3>1, <5>1, <5>5
        <5>7. NextSeq' = NextSeq /\ cursor' = NextSeq /\ NextSeq \in 1 .. NextSeq
          BY <3>1, <3>2 DEF NextSeq
        <5> QED
          BY <5>6, <5>7 DEF FlowInv
      <4>2. CASE ~Live
        BY <1>1, <1>3, <3>1, <3>7, <4>2, FlowStays DEF OnItsWay
      <4> QED
        BY <4>1, <4>2
    <3> QED
      BY <1>4, <2>2, <3>7, <3>8
  <2> QED
    BY <2>3, <2>4
<1>6. CASE \E s \in Published : HandleOrder(p, s)
  <2>1. PICK s \in Published : HandleOrder(p, s)
    BY <1>6
  <2>2. s \in Seq(Messages)
    <3>1. PICK m \in 0 .. 2 : s \in [1 .. m -> Messages]
      BY DEF Published, SeqOf
    <3> QED
      BY <3>1
  <2>3. /\ keep' = loggedIn /\ store' = (IF loggedIn THEN store \o s ELSE store)
        /\ UNCHANGED <<out, loggedIn, cursor>>
    BY <2>1 DEF HandleOrder
  <2>4. store' = store \/ \E t \in Seq(Messages) : store' = store \o t
    BY <2>2, <2>3
  <2>5. TypeInv'
    <3>1. store' \in Seq(Messages) /\ NextSeq' >= NextSeq /\ NextSeq \in Nat /\ NextSeq' \in Nat
      BY <2>2, <2>3 DEF TypeInv, NextSeq
    <3>2. cursor' \in 1 .. NextSeq' /\ next' \in 1 .. NextSeq'
      BY <1>1, <2>3, <3>1 DEF TypeInv
    <3> QED
      BY <1>1, <1>4, <2>3, <3>1, <3>2 DEF TypeInv
  <2>6. OnItsWay' = OnItsWay
    BY <1>1, <1>3, <2>3 DEF OnItsWay
  <2>7. FlowInv'
    BY <1>1, <1>3, <2>3, <2>4, <2>5, <2>6, FlowStays
  <2>8. NumbersAgree' /\ ExactlyOnce'
    BY <1>1, <2>4, HistoryKept
  <2> QED
    BY <1>4, <2>5, <2>7, <2>8
<1>7. CASE HandleOther(p)
  <2>1. /\ keep' \in BOOLEAN /\ loggedIn' \in BOOLEAN /\ (loggedIn' => loggedIn)
        /\ UNCHANGED <<store, out, cursor>>
    BY <1>7 DEF HandleOther, TypeInv
  <2>2. TypeInv'
    BY <1>1, <1>4, <2>1 DEF TypeInv, NextSeq
  <2>3. OnItsWay' = OnItsWay
    BY <1>1, <1>3, <2>1 DEF OnItsWay
  <2>4. FlowInv'
    BY <1>1, <1>3, <2>1, <2>2, <2>3, FlowStays
  <2>5. NumbersAgree' /\ ExactlyOnce'
    BY <1>1, <2>1, HistoryKept
  <2> QED
    BY <1>4, <2>2, <2>4, <2>5
<1> QED
  BY <1>1, <1>5, <1>6, <1>7

LEMMA PumpAllIInv == ASSUME IInv, PumpAll PROVE IInv'
<1> USE DEF IInv
<1>1. /\ pc = "handle" /\ inbox = <<>> /\ pc' = "reply"
      /\ out' = IF loggedIn THEN out \o Owed(store, cursor) ELSE out
      /\ cursor' = IF loggedIn THEN AfterPump(cursor) ELSE cursor
      /\ UNCHANGED <<store, inbox, keep, loggedIn, toServer, toClient, up, closed,
                     next, connects, delivered, resuming>>
  BY DEF PumpAll, Pump, network, client
<1>2. (HasFin' <=> HasFin) /\ (Live' <=> Live)
  BY <1>1 DEF HasFin, Live
<1>3. /\ store \in Seq(Messages) /\ resuming \in BOOLEAN /\ cursor \in 1 .. NextSeq
      /\ NextSeq \in Nat /\ NextSeq \in 1 .. NextSeq
      /\ out \in Seq(Replies) /\ toClient \in Seq(Replies)
  BY DEF TypeInv, NextSeq
<1>4. /\ Owed(store, cursor) \in Seq(Replies)
      /\ Flows(store, resuming, Owed(store, cursor), cursor, NextSeq)
  BY <1>3, FlowsOwed DEF NextSeq
<1>5. AfterPump(cursor) = NextSeq
  BY <1>3 DEF AfterPump
<1>6. TypeInv'
  <2>1. out' \in Seq(Replies) /\ NextSeq' = NextSeq /\ cursor' \in 1 .. NextSeq
    BY <1>1, <1>3, <1>4, <1>5 DEF NextSeq
  <2> QED
    BY <1>1, <2>1 DEF TypeInv
<1>7. WireInv'
  BY <1>1, <1>2, Serving DEF WireInv
<1>8. LoginInv'
  BY <1>1 DEF LoginInv
<1>9. ResumeInv'
  BY <1>1, <1>2 DEF ResumeInv
<1>10. FlowInv'
  <2>1. CASE Live /\ loggedIn
    <3> DEFINE r == Owed(store, cursor)
    <3>1. OnItsWay' = OnItsWay \o r
      BY <1>1, <1>2, <1>3, <1>4, <2>1 DEF OnItsWay
    <3> HIDE DEF r
    <3>2. cursor' = NextSeq
      BY <1>1, <1>5, <2>1
    <3>3. r \in Seq(Replies) /\ Flows(store, resuming, r, cursor, NextSeq)
      BY <1>4 DEF r
    <3> QED
      BY <1>1, <1>3, <2>1, <3>1, <3>2, <3>3, FlowGrows
  <2>2. CASE ~(Live /\ loggedIn)
    <3>1. OnItsWay' = OnItsWay
      BY <1>1, <1>2, <2>2 DEF OnItsWay
    <3> QED
      BY <1>1, <1>2, <1>6, <2>2, <3>1, FlowStays
  <2> QED
    BY <2>1, <2>2
<1>11. NumbersAgree' /\ ExactlyOnce'
  BY <1>1, HistoryKept
<1> QED
  BY <1>6, <1>7, <1>8, <1>9, <1>10, <1>11

LEMMA ReplyIInv == ASSUME IInv, Reply PROVE IInv'
<1> USE DEF IInv
<1>1. /\ pc = "reply" /\ keep /\ pc' = "recv" /\ out' = <<>>
      /\ toClient' = IF Live THEN toClient \o out ELSE toClient
      /\ UNCHANGED <<store, inbox, keep, loggedIn, cursor, toServer, up, closed,
                     next, connects, delivered, resuming>>
  BY DEF Reply, Transmit, client
<1>2. (HasFin' <=> HasFin) /\ (Live' <=> Live)
  BY <1>1 DEF HasFin, Live
<1>3. toClient' \in Seq(Replies) /\ toClient' \o <<>> = toClient'
  BY <1>1 DEF TypeInv
<1>4. TypeInv'
  BY <1>1, <1>3 DEF TypeInv, NextSeq
<1>5. inbox = <<>>
  BY <1>1 DEF WireInv
<1>6. WireInv'
  <2>1. up /\ HasFin => toClient' = <<>>
    BY <1>1 DEF WireInv, Live
  <2> QED
    BY <1>1, <1>2, <1>5, <2>1, Serving DEF WireInv
<1>7. LoginInv'
  BY <1>1, <1>5 DEF LoginInv
<1>8. ResumeInv'
  BY <1>1, <1>2 DEF ResumeInv
<1>9. FlowInv'
  <2>1. OnItsWay' = OnItsWay
    BY <1>1, <1>2, <1>3 DEF OnItsWay
  <2> QED
    BY <1>1, <1>2, <1>4, <2>1, FlowStays
<1>10. NumbersAgree' /\ ExactlyOnce'
  BY <1>1, HistoryKept
<1> QED
  BY <1>4, <1>6, <1>7, <1>8, <1>9, <1>10

LEMMA CloseIInv == ASSUME IInv, Close PROVE IInv'
<1> USE DEF IInv
<1>1. /\ pc = "reply" /\ pc' = "recv" /\ out' = <<>> /\ keep' = TRUE
      /\ toClient' = IF Live THEN toClient \o out ELSE toClient
      /\ toServer' = IF HasFin THEN SubSeq(toServer, FirstFin + 1, Len(toServer)) ELSE <<>>
      /\ loggedIn' = FALSE /\ cursor' = 1
      /\ UNCHANGED <<store, inbox, up, next, connects, delivered, resuming>>
  BY DEF Close, Transmit, ForgetConnection, client
<1>2. ~closed /\ (up \/ HasFin) /\ inbox = <<>> /\ ~loggedIn'
  BY <1>1, Serving DEF WireInv
<1>3. closed' = ~HasFin
  <2>1. closed' = (closed \/ Live) /\ closed = FALSE
    BY <1>2 DEF Close, TypeInv
  <2>2. Live <=> ~HasFin
    BY <1>2 DEF Live
  <2>3. closed' \in BOOLEAN /\ (closed' <=> ~HasFin)
    BY <2>1, <2>2 DEF Live
  <2> QED
    BY <2>3 DEF HasFin
<1>4. toClient' \in Seq(Replies) /\ toClient' \o <<>> = toClient'
  BY <1>1 DEF TypeInv
<1>5. OnItsWay' = OnItsWay
  BY <1>1, <1>4 DEF OnItsWay
<1>6. NextSeq' = NextSeq /\ cursor' \in 1 .. NextSeq' /\ closed' \in BOOLEAN
  BY <1>3, <1>1 DEF NextSeq, TypeInv
<1>7. toServer' \in Seq(Packets) => TypeInv'
  <2>1. /\ store' \in Seq(Messages) /\ pc' \in {"recv", "handle", "reply"}
        /\ keep' \in BOOLEAN /\ loggedIn' \in BOOLEAN
    BY <1>1 DEF TypeInv
  <2>2. /\ inbox' \in Seq(Requests) /\ out' \in Seq(Replies)
        /\ up' \in BOOLEAN /\ resuming' \in BOOLEAN
    BY <1>1 DEF TypeInv
  <2>3. next' \in 1 .. NextSeq' /\ delivered' \in Seq([seq : Nat, msg : Messages])
    BY <1>1, <1>6 DEF TypeInv
  <2> QED
    BY <1>4, <1>6, <2>1, <2>2, <2>3 DEF TypeInv
<1>8. TypeInv' /\ WireInv' /\ LoginInv' /\ ResumeInv'
  <2>1. CASE HasFin
    <3>1. ~Live /\ closed' = closed /\ toClient' = toClient
      BY <1>3, <1>1, <1>2, <2>1 DEF Live, TypeInv
    <3>2. /\ toServer \in Seq(Packets)
          /\ FirstFin \in 1 .. Len(toServer) /\ FirstFin \in 0 .. Len(toServer)
      <4>1. FirstFin = Readable + 1 /\ Readable + 1 \in 1 .. Len(toServer)
        BY <2>1, ReadableIs
      <4> QED
        BY <4>1 DEF TypeInv
    <3>3. /\ toServer' \in Seq(Packets) /\ Len(toServer') = Len(toServer) - FirstFin
          /\ \A k \in 1 .. Len(toServer') : toServer'[k] = toServer[FirstFin + k]
      BY <1>1, <2>1, <3>2, Dropped
    <3>4. TypeInv'
      BY <1>7, <3>3 DEF TypeInv
    <3>5. WireInv' /\ LoginInv' /\ ResumeInv'
      BY <1>1, <1>2, <2>1, <3>1, <3>2, <3>3, TurnsTo
    <3> QED
      BY <3>4, <3>5
  <2>2. CASE ~HasFin
    <3>1. toServer' = <<>> /\ closed' /\ ~Live' /\ ~HasFin' /\ Idle'
      <4>1. toServer' = <<>> /\ closed'
        BY <1>3, <1>1, <2>2
      <4>2. ~Live' /\ Idle'
        BY <1>1, <1>2, <4>1 DEF Live, Idle
      <4>3. ~HasFin'
        BY <4>1 DEF HasFin
      <4> QED
        BY <4>1, <4>2, <4>3
    <3>2. TypeInv'
      <4>1. toServer' \in Seq(Packets)
        BY <3>1
      <4> QED
        BY <1>7, <4>1 DEF TypeInv
    <3>3. WireInv'
      BY <1>1, <1>2, <3>1 DEF WireInv
    <3>4. LoginsFirst(toServer') /\ \A n : LastAsksFor(toServer', n)
      BY <3>1 DEF LoginsFirst, LastAsksFor
    <3>5. LoginInv'
      BY <1>1, <1>2, <3>1, <3>4 DEF LoginInv
    <3>6. ResumeInv'
      BY <1>1, <1>2, <3>1, <3>4 DEF ResumeInv
    <3> QED
      BY <3>2, <3>3, <3>5, <3>6
  <2> QED
    BY <2>1, <2>2
<1>9. FlowInv'
  BY <1>1, <1>5, <1>8, FlowStays
<1>10. NumbersAgree' /\ ExactlyOnce'
  BY <1>1, HistoryKept
<1> QED
  BY <1>9, <1>10, <1>8

LEMMA EndSessionIInv == ASSUME IInv, EndSession PROVE IInv'
<1> DEFINE r == [type |-> "EndOfSession"]
<1> USE DEF IInv
<1>1. /\ pc = "recv" /\ loggedIn /\ loggedIn' = FALSE
      /\ toClient' = IF Live THEN Append(toClient, r) ELSE toClient
      /\ UNCHANGED <<store, pc, inbox, keep, out, cursor, toServer, up, closed,
                     next, connects, delivered, resuming>>
  BY DEF EndSession, client
<1>2. r \in Replies /\ <<r>> \in Seq(Replies) /\ (\A a : Counts(store, resuming, a, r, a))
  BY DEF Replies, Counts
<1> HIDE DEF r
<1>3. ~closed /\ (up \/ HasFin) /\ out = <<>> /\ inbox = <<>>
  BY <1>1 DEF WireInv, Idle
<1>4. (HasFin' <=> HasFin) /\ (Live' <=> Live)
  BY <1>1 DEF HasFin, Live
<1>5. toClient \in Seq(Replies) /\ toClient' \in Seq(Replies)
  BY <1>1, <1>2 DEF TypeInv
<1>6. TypeInv'
  BY <1>1, <1>5 DEF TypeInv, NextSeq
<1>7. WireInv'
  <2>1. up /\ HasFin => toClient' = <<>>
    BY <1>1 DEF WireInv, Live
  <2> QED
    BY <1>1, <1>3, <1>4, <2>1 DEF WireInv
<1>8. LoginInv'
  BY <1>1, <1>3 DEF LoginInv
<1>9. ResumeInv'
  BY <1>1, <1>4 DEF ResumeInv
<1>10. FlowInv'
  <2>1. CASE Live
    <3>1. OnItsWay' = OnItsWay \o <<r>>
      BY <1>1, <1>2, <1>3, <1>4, <1>5, <2>1 DEF OnItsWay
    <3>2. \A a \in 1 .. NextSeq : Flows(store, resuming, <<r>>, a, a)
      BY <1>2, FlowsOne DEF TypeInv, NextSeq
    <3> QED
      BY <1>1, <1>2, <3>1, <3>2, FlowGrows
  <2>2. CASE ~Live
    <3>1. OnItsWay' = OnItsWay
      BY <1>1, <1>4, <2>2 DEF OnItsWay
    <3> QED
      BY <1>1, <1>4, <1>6, <2>2, <3>1, FlowStays
  <2> QED
    BY <2>1, <2>2
<1>11. NumbersAgree' /\ ExactlyOnce'
  BY <1>1, HistoryKept
<1> QED
  BY <1>6, <1>7, <1>8, <1>9, <1>10, <1>11

-----------------------------------------------------------------------------
(***************************************************************************)
(* The theorems.                                                            *)
(***************************************************************************)

LEMMA NextIInv == IInv /\ [Next]_vars => IInv'
<1> SUFFICES ASSUME IInv, [Next]_vars PROVE IInv'
  OBVIOUS
<1>1. CASE Client
  BY <1>1, ConnectIInv, SendIInv, DisconnectIInv, ClientReadIInv DEF Client
<1>2. CASE Serve
  BY <1>2, RecvIInv, RecvEndIInv, HandleIInv, PumpAllIInv, ReplyIInv, CloseIInv DEF Serve
<1>3. CASE EndSession
  BY <1>3, EndSessionIInv
<1>4. CASE UNCHANGED vars
  BY <1>4 DEF vars, server, network, client, IInv, TypeInv, WireInv, LoginInv, ResumeInv, FlowInv,
              NumbersAgree, ExactlyOnce, NextSeq, Idle, HasFin, Live, OnItsWay
<1> QED
  BY <1>1, <1>2, <1>3, <1>4 DEF Next

\* The server and the client count alike: what is on its way to a client takes
\* its counter from where it is to where the server's cursor stands, whatever
\* was sent, in whatever pieces it is read and wherever a connection breaks.
THEOREM SessionInvariant == Spec => []IInv
<1> QED
  BY InitIInv, NextIInv, PTL DEF Spec

\* The number a client gives to a message is the one it has in the store
\* (ServerSession::on_login and pump, ClientSession::consume).
THEOREM SessionNumbersAgree == Spec => []NumbersAgree
<1>1. IInv => NumbersAgree
  BY DEF IInv
<1> QED
  BY <1>1, SessionInvariant, PTL

\* A client that logs in with resume_from() every time is given every message
\* once and in order (session.hpp).
THEOREM SessionExactlyOnce == Spec => []ExactlyOnce
<1>1. IInv => ExactlyOnce
  BY DEF IInv
<1> QED
  BY <1>1, SessionInvariant, PTL
=============================================================================
