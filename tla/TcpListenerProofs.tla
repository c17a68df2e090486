-------------------------- MODULE TcpListenerProofs --------------------------
(***************************************************************************)
(* Proofs about the TCP listener: however the stream of a connection is    *)
(* cut into reads, its messages are handled whole, in order and once.      *)
(***************************************************************************)
EXTENDS TcpListener, SequenceTheorems, WellFoundedInduction, TLAPS

Unit == Nat \X Nat
States == {"new", "pending", "open", "refused", "closed"}
LogEntry == [conn : Conns, msg : Nat, text : Seq(Unit)]

\* The types of what connections carry
DataTypes ==
  /\ sent \in [Conns -> Seq(Messages)] /\ wire \in [Conns -> Seq(Unit)]
  /\ buffer \in [Conns -> Seq(Unit)] /\ answers \in [Conns -> Seq(Nat)]
  /\ log \in Seq(LogEntry)
  /\ \A c \in Conns : Len(buffer[c]) <= MAX /\ Len(sent[c]) <= MaxMessages

\* The types of the rest; a handler runs for a connection that is open, and the new
\* units are in its buffer
ControlTypes ==
  /\ state \in [Conns -> States] /\ peer \in [Conns -> {"open", "closed", "reset"}]
  /\ active \in [Conns -> BOOLEAN]
  /\ conf \in Settings /\ listening \in BOOLEAN /\ timer \in BOOLEAN /\ over \in BOOLEAN
  /\ reconfigs \in 0 .. MaxReconfigs

HandlerInv ==
  \/ handler = Idle
  \/ /\ handler \in [conn : Conns, step : {"read", "parse"}, r : 0 .. MAX, total : BOOLEAN]
     /\ state[handler.conn] = "open"
     /\ handler.step = "parse" => handler.r <= Len(buffer[handler.conn])

\* What a connection carries that was not handled yet: its buffer b, then its wire w
Rest(b, w) == Len(b) + Len(w)
At(b, w, j) == IF j <= Len(b) THEN b[j] ELSE w[j - Len(b)]

\* The unit after u in the stream of the messages s
Succ(s, u) == IF u[2] < Size(s[u[1]]) THEN <<u[1], u[2] + 1>> ELSE <<u[1] + 1, 1>>

\* It goes on where message h ended, and as long as the client is there up to the last one sent
Flow(b, w, s, p, h) ==
  /\ h \in 0 .. Len(s)
  /\ \A j \in 1 .. Rest(b, w) : /\ At(b, w, j) \in Unit
                                 /\ At(b, w, j)[1] \in 1 .. Len(s)
                                 /\ At(b, w, j)[2] \in 1 .. Size(s[At(b, w, j)[1]])
  /\ Rest(b, w) > 0 => At(b, w, 1) = <<h + 1, 1>>
  /\ \A j \in 1 .. Rest(b, w) - 1 : At(b, w, j + 1) = Succ(s, At(b, w, j))
  /\ p = "open" =>
       \/ Rest(b, w) = 0 /\ h = Len(s)
       \/ Rest(b, w) > 0 /\ At(b, w, Rest(b, w)) = <<Len(s), Size(s[Len(s)])>>

\* Exactly the framed messages of s up to h were acknowledged
AnsweredUpTo(a, s, h) ==
  \A n \in Nat : (\E i \in 1 .. Len(a) : a[i] = n) <=> n \in 1 .. h /\ s[n].kind # "text"

\* Exactly the events of c up to h are in the log l
LoggedUpTo(l, c, s, h) ==
  \A n \in Nat : (\E i \in 1 .. Len(l) : l[i].conn = c /\ l[i].msg = n) <=> n \in 1 .. h /\ s[n].kind = "event"

\* The length of the part of the buffer in which no end of a message was found
Scanned(c) == IF handler.conn = c /\ handler.step = "parse" THEN Len(buffer[c]) - handler.r ELSE Len(buffer[c])

\* A connection that has not ended: the messages up to h were handled, and the next one is
\* not complete in what was scanned
ConnAt(c, h) ==
  /\ Flow(buffer[c], wire[c], sent[c], peer[c], h)
  /\ Scanned(c) > 0 => Scanned(c) < Size(sent[c][h + 1])
  /\ AnsweredUpTo(answers[c], sent[c], h) /\ LoggedUpTo(log, c, sent[c], h)

ConnInv(c) ==
  /\ state[c] \in {"new", "pending"} => buffer[c] = <<>>
  /\ state[c] \in {"new", "pending", "open"} => \E h \in Nat : ConnAt(c, h)

StreamInv == \A c \in Conns : ConnInv(c)

-----------------------------------------------------------------------------
(* What the constants are. *)
LEMMA Bounds ==
  /\ MAX \in Nat /\ Header \in Nat /\ Magic \in Nat /\ 1 <= Magic /\ Magic < Header /\ Header <= MAX
  /\ MaxMessages \in Nat /\ MaxReconfigs \in Nat
<1>1. MAX \in Nat /\ Header \in 1 .. MAX /\ Magic \in 1 .. (Header - 1) /\ MaxMessages \in Nat /\ MaxReconfigs \in Nat
  BY Zenon, ListenerAssumption DEF ListenerAssumption
<1> QED
  BY <1>1

(* A message has a kind and a length, and it is not empty. *)
LEMMA MessageSize ==
  ASSUME NEW m \in Messages
  PROVE  /\ m.kind \in {"event", "heartbeat", "text"} /\ m.len \in Nat /\ Size(m) \in Nat /\ Size(m) >= 1
         /\ m.kind = "text" => Size(m) = m.len
         /\ m.kind # "text" => Size(m) = m.len + Header
<1>1. m \in [kind : {"event", "heartbeat", "text"}, len : 0 .. 2 * MAX]
  BY Zenon, ListenerAssumption DEF ListenerAssumption
<1>2. m.kind = "text" => m.len > 0
  BY Zenon, ListenerAssumption DEF ListenerAssumption
<1> QED
  BY <1>1, <1>2, Bounds DEF Size

(* The units of a message. *)
LEMMA MessageUnits ==
  ASSUME NEW m \in Messages, NEW n \in Nat
  PROVE  /\ Units(n, m) \in Seq(Unit) /\ Len(Units(n, m)) = Size(m)
         /\ \A i \in 1 .. Size(m) : Units(n, m)[i] = <<n, i>>
BY MessageSize DEF Units, Unit

(* A set that holds 1 and with each number the next one holds all of them. *)
LEMMA CountUp ==
  ASSUME NEW K \in Nat, NEW S, 1 \in S, \A j \in 1 .. K - 1 : j \in S => j + 1 \in S
  PROVE  \A j \in 1 .. K : j \in S
<1> DEFINE T == {j \in 1 .. K : j \notin S}
           R == OpToRel(<, Nat)
<1> SUFFICES ASSUME T # {} PROVE FALSE
  OBVIOUS
<1>1. T \subseteq Nat
  OBVIOUS
<1>2. PICK m \in T : \A d \in T : ~ (<<d, m>> \in R)
  <2>1. IsWellFoundedOn(R, Nat)
    BY NatLessThanWellFounded
  <2> HIDE DEF R, T
  <2> QED
    BY <1>1, <2>1, WFMin
<1>3. \A d \in T : ~ (d < m)
  BY <1>1, <1>2 DEF OpToRel
<1>4. m \in 1 .. K /\ m \notin S /\ m # 1
  OBVIOUS
<1>5. m - 1 \in 1 .. K - 1 /\ m - 1 \notin T
  BY <1>3, <1>4
<1> QED
  BY <1>4, <1>5

(* The first units of the stream are those of the first message that was not handled. *)
LEMMA FirstMessage ==
  ASSUME NEW b \in Seq(Unit), NEW w \in Seq(Unit), NEW s \in Seq(Messages), NEW p, NEW h, Flow(b, w, s, p, h),
         Rest(b, w) > 0
  PROVE  /\ h + 1 \in 1 .. Len(s) /\ s[h + 1] \in Messages
         /\ \A j \in 1 .. Rest(b, w) : j <= Size(s[h + 1]) => At(b, w, j) = <<h + 1, j>>
<1> DEFINE K == IF Rest(b, w) <= Size(s[h + 1]) THEN Rest(b, w) ELSE Size(s[h + 1])
           S == {j \in 1 .. K : At(b, w, j) = <<h + 1, j>>}
<1>1. Rest(b, w) \in Nat
  BY DEF Rest
<1>2. h + 1 \in 1 .. Len(s) /\ h \in Nat
  <2>1. At(b, w, 1)[1] \in 1 .. Len(s) /\ At(b, w, 1) = <<h + 1, 1>> /\ h \in 0 .. Len(s)
    BY <1>1 DEF Flow
  <2> QED
    BY <2>1
<1>3. s[h + 1] \in Messages
  BY <1>2
<1>4. Size(s[h + 1]) \in Nat /\ Size(s[h + 1]) >= 1
  BY <1>3, MessageSize
<1>5. K \in Nat /\ K >= 1 /\ K <= Rest(b, w) /\ K <= Size(s[h + 1])
  BY <1>1, <1>4
<1>6. 1 \in S
  BY <1>5 DEF Flow
<1>7. ASSUME NEW j \in 1 .. K - 1, j \in S PROVE j + 1 \in S
  <2>1. At(b, w, j) = <<h + 1, j>> /\ j \in 1 .. Rest(b, w) - 1 /\ j + 1 \in 1 .. K /\ j < Size(s[h + 1])
    BY <1>1, <1>4, <1>5, <1>7
  <2>2. At(b, w, j + 1) = Succ(s, <<h + 1, j>>)
    BY <2>1 DEF Flow
  <2>3. Succ(s, <<h + 1, j>>) = <<h + 1, j + 1>>
    BY <2>1 DEF Succ
  <2> QED
    BY <2>1, <2>2, <2>3
<1> HIDE DEF K
<1>8. \A j \in 1 .. K : j \in S
  <2> HIDE DEF S
  <2> QED
    BY <1>5, <1>6, <1>7, CountUp
<1>9. \A j \in 1 .. K : At(b, w, j) = <<h + 1, j>>
  BY <1>8
<1> QED
  BY <1>1, <1>2, <1>3, <1>4, <1>9 DEF K

(* A read moves units from the wire to the buffer and leaves the stream as it is. *)
LEMMA ReadFlow ==
  ASSUME NEW b \in Seq(Unit), NEW w \in Seq(Unit), NEW s \in Seq(Messages), NEW p, NEW h, Flow(b, w, s, p, h),
         NEW r \in 1 .. Len(w)
  PROVE  Flow(b \o SubSeq(w, 1, r), SubSeq(w, r + 1, Len(w)), s, p, h)
<1> DEFINE b2 == b \o SubSeq(w, 1, r)
           w2 == SubSeq(w, r + 1, Len(w))
<1>1. b2 \in Seq(Unit) /\ Len(b2) = Len(b) + r /\ w2 \in Seq(Unit) /\ Len(w2) = Len(w) - r
  OBVIOUS
<1>2. Rest(b2, w2) = Rest(b, w)
  <2> HIDE DEF b2, w2
  <2> QED
    BY <1>1 DEF Rest
<1>3. ASSUME NEW j \in 1 .. Rest(b, w) PROVE At(b2, w2, j) = At(b, w, j)
  <2>1. CASE j <= Len(b)
    BY <1>1, <2>1 DEF At, Rest
  <2>2. CASE j > Len(b) /\ j <= Len(b) + r
    <3>1. b2[j] = SubSeq(w, 1, r)[j - Len(b)]
      BY <2>2
    <3>2. SubSeq(w, 1, r)[j - Len(b)] = w[j - Len(b)]
      BY <2>2
    <3> HIDE DEF b2
    <3> QED
      BY <1>1, <2>2, <3>1, <3>2 DEF At
  <2>3. CASE j > Len(b) + r
    <3>1. w2[j - Len(b2)] = w[j - Len(b)]
      BY <1>1, <1>3, <2>3 DEF Rest
    <3> HIDE DEF b2, w2
    <3> QED
      BY <1>1, <2>3, <3>1 DEF At
  <2> QED
    BY <2>1, <2>2, <2>3
<1> HIDE DEF b2, w2
<1>4. Rest(b, w) \in Nat
  BY DEF Rest
<1>5. Flow(b2, w2, s, p, h)
  <2>1. \A j \in 1 .. Rest(b2, w2) - 1 : At(b2, w2, j + 1) = Succ(s, At(b2, w2, j))
    <3> SUFFICES ASSUME NEW j \in 1 .. Rest(b2, w2) - 1 PROVE At(b2, w2, j + 1) = Succ(s, At(b2, w2, j))
      OBVIOUS
    <3>1. At(b2, w2, j) = At(b, w, j) /\ At(b2, w2, j + 1) = At(b, w, j + 1) /\ j \in 1 .. Rest(b, w) - 1
      BY <1>2, <1>3, <1>4
    <3> QED
      BY <3>1 DEF Flow
  <2>2. Rest(b2, w2) > 0 => At(b2, w2, 1) = <<h + 1, 1>> /\ At(b2, w2, Rest(b2, w2)) = At(b, w, Rest(b, w))
    <3> SUFFICES ASSUME Rest(b2, w2) > 0
                 PROVE At(b2, w2, 1) = <<h + 1, 1>> /\ At(b2, w2, Rest(b2, w2)) = At(b, w, Rest(b, w))
      OBVIOUS
    <3>1. 1 \in 1 .. Rest(b, w) /\ Rest(b, w) \in 1 .. Rest(b, w) /\ Rest(b, w) > 0
      BY <1>2, <1>4
    <3>2. At(b2, w2, 1) = At(b, w, 1) /\ At(b2, w2, Rest(b, w)) = At(b, w, Rest(b, w))
      BY <1>3, <3>1
    <3> QED
      BY <1>2, <3>1, <3>2 DEF Flow
  <2>3. \A j \in 1 .. Rest(b2, w2) : /\ At(b2, w2, j) \in Unit /\ At(b2, w2, j)[1] \in 1 .. Len(s)
                                     /\ At(b2, w2, j)[2] \in 1 .. Size(s[At(b2, w2, j)[1]])
    BY <1>2, <1>3 DEF Flow
  <2> QED
    BY <1>2, <2>1, <2>2, <2>3 DEF Flow
<1> QED
  BY <1>5 DEF b2, w2

(* Handling the first message moves the stream on by that message. *)
LEMMA ConsumeFlow ==
  ASSUME NEW b \in Seq(Unit), NEW w \in Seq(Unit), NEW s \in Seq(Messages), NEW p, NEW h, Flow(b, w, s, p, h),
         Rest(b, w) > 0, Size(s[h + 1]) <= Len(b)
  PROVE  Flow(SubSeq(b, Size(s[h + 1]) + 1, Len(b)), w, s, p, h + 1)
<1> DEFINE k == Size(s[h + 1])
           b2 == SubSeq(b, k + 1, Len(b))
<1>1. h + 1 \in 1 .. Len(s) /\ s[h + 1] \in Messages
  BY FirstMessage
<1>2. k \in Nat /\ k >= 1 /\ k <= Len(b)
  BY <1>1, MessageSize
<1>3. At(b, w, k) = <<h + 1, k>>
  <2>1. k \in 1 .. Rest(b, w)
    BY <1>2 DEF Rest
  <2> QED
    BY <2>1, FirstMessage
<1> HIDE DEF k
<1>4. b2 \in Seq(Unit) /\ Len(b2) = Len(b) - k /\ \A j \in 1 .. Len(b) - k : b2[j] = b[j + k]
  BY <1>2
<1> HIDE DEF b2
<1>5. Rest(b2, w) = Rest(b, w) - k /\ Rest(b, w) \in Nat
  BY <1>2, <1>4 DEF Rest
<1>6. ASSUME NEW j \in 1 .. Rest(b, w) - k PROVE At(b2, w, j) = At(b, w, j + k) /\ j + k \in 1 .. Rest(b, w)
  BY <1>2, <1>4, <1>5 DEF At, Rest
<1>7. Rest(b2, w) > 0 => At(b2, w, 1) = <<(h + 1) + 1, 1>>
  <2> SUFFICES ASSUME Rest(b2, w) > 0 PROVE At(b2, w, 1) = <<(h + 1) + 1, 1>>
    OBVIOUS
  <2>1. At(b2, w, 1) = At(b, w, k + 1) /\ k \in 1 .. Rest(b, w) - 1
    BY <1>2, <1>5, <1>6
  <2>2. At(b, w, k + 1) = Succ(s, <<h + 1, k>>)
    BY <1>3, <2>1 DEF Flow
  <2>3. Succ(s, <<h + 1, k>>) = <<(h + 1) + 1, 1>>
    BY <1>2 DEF Succ, k
  <2> QED
    BY <2>1, <2>2, <2>3
<1>8. \A j \in 1 .. Rest(b2, w) - 1 : At(b2, w, j + 1) = Succ(s, At(b2, w, j))
  <2> SUFFICES ASSUME NEW j \in 1 .. Rest(b2, w) - 1 PROVE At(b2, w, j + 1) = Succ(s, At(b2, w, j))
    OBVIOUS
  <2>1. At(b2, w, j) = At(b, w, j + k)
    BY <1>2, <1>5, <1>6
  <2>2. At(b2, w, j + 1) = At(b, w, (j + 1) + k)
    BY <1>2, <1>5, <1>6
  <2>3. j + k \in 1 .. Rest(b, w) - 1 /\ (j + 1) + k = (j + k) + 1
    BY <1>2, <1>5
  <2>4. At(b, w, (j + k) + 1) = Succ(s, At(b, w, j + k))
    BY <2>3 DEF Flow
  <2> QED
    BY <2>1, <2>2, <2>3, <2>4
<1>9. \A j \in 1 .. Rest(b2, w) : /\ At(b2, w, j) \in Unit /\ At(b2, w, j)[1] \in 1 .. Len(s)
                                  /\ At(b2, w, j)[2] \in 1 .. Size(s[At(b2, w, j)[1]])
  BY <1>5, <1>6 DEF Flow
<1>10. p = "open" => \/ Rest(b2, w) = 0 /\ h + 1 = Len(s)
                     \/ Rest(b2, w) > 0 /\ At(b2, w, Rest(b2, w)) = <<Len(s), Size(s[Len(s)])>>
  <2> SUFFICES ASSUME p = "open" PROVE \/ Rest(b2, w) = 0 /\ h + 1 = Len(s)
                                       \/ Rest(b2, w) > 0 /\ At(b2, w, Rest(b2, w)) = <<Len(s), Size(s[Len(s)])>>
    OBVIOUS
  <2>1. At(b, w, Rest(b, w)) = <<Len(s), Size(s[Len(s)])>>
    BY DEF Flow
  <2>2. CASE Rest(b2, w) > 0
    BY <1>2, <1>5, <1>6, <2>1, <2>2
  <2>3. CASE Rest(b2, w) = 0
    <3>1. Rest(b, w) = k
      BY <1>2, <1>5, <2>3
    <3> QED
      BY <1>3, <2>1, <2>3, <3>1
  <2>4. Rest(b2, w) \in Nat
    BY <1>4 DEF Rest
  <2> QED
    BY <2>2, <2>3, <2>4
<1>11. Flow(b2, w, s, p, h + 1)
  BY <1>1, <1>7, <1>8, <1>9, <1>10 DEF Flow
<1> QED
  BY <1>11 DEF b2, k

(* A message that is sent goes to the end of the stream. *)
LEMMA SendFlow ==
  ASSUME NEW b \in Seq(Unit), NEW w \in Seq(Unit), NEW s \in Seq(Messages), NEW h, Flow(b, w, s, "open", h),
         NEW m \in Messages
  PROVE  Flow(b, w \o Units(Len(s) + 1, m), Append(s, m), "open", h)
<1> DEFINE u == Units(Len(s) + 1, m)
           w2 == w \o u
           s2 == Append(s, m)
           R == Rest(b, w)
<1>1. u \in Seq(Unit) /\ Len(u) = Size(m) /\ \A i \in 1 .. Size(m) : u[i] = <<Len(s) + 1, i>>
  BY MessageUnits
<1>2. Size(m) \in Nat /\ Size(m) >= 1
  BY MessageSize
<1> HIDE DEF u
<1>3. w2 \in Seq(Unit) /\ Len(w2) = Len(w) + Size(m)
  <2>1. w2 \in Seq(Unit) /\ Len(w2) = Len(w) + Len(u)
    BY <1>1, ConcatProperties
  <2> QED
    BY <1>1, <2>1
<1>4. Rest(b, w2) = R + Size(m) /\ R \in Nat
  <2> HIDE DEF w2
  <2> QED
    BY <1>2, <1>3 DEF Rest
<1>5. ASSUME NEW j \in 1 .. R PROVE At(b, w2, j) = At(b, w, j)
  <2>1. CASE j <= Len(b)
    BY <2>1 DEF At
  <2>2. CASE j > Len(b)
    <3>1. j - Len(b) \in 1 .. Len(w)
      BY <2>2 DEF Rest
    <3>2. w2[j - Len(b)] = w[j - Len(b)]
      BY <1>1, <3>1
    <3> QED
      BY <2>2, <3>2 DEF At
  <2> QED
    BY <2>1, <2>2
<1>6. ASSUME NEW j \in R + 1 .. R + Size(m) PROVE At(b, w2, j) = <<Len(s) + 1, j - R>>
  <2>1. j > Len(b) /\ j - Len(b) \in Len(w) + 1 .. Len(w) + Size(m) /\ (j - Len(b)) - Len(w) = j - R
    BY <1>2, <1>4 DEF Rest
  <2>2. w2[j - Len(b)] = u[(j - Len(b)) - Len(w)]
    BY <1>1, <2>1
  <2>3. j - R \in 1 .. Size(m)
    <3> HIDE DEF R
    <3> QED
      BY <1>2, <1>4
  <2> QED
    BY <1>1, <2>1, <2>2, <2>3 DEF At
<1>7. s2 \in Seq(Messages) /\ Len(s2) = Len(s) + 1 /\ s2[Len(s) + 1] = m /\ \A n \in 1 .. Len(s) : s2[n] = s[n]
  OBVIOUS
<1> HIDE DEF w2, s2, R
<1>8. ASSUME NEW j \in 1 .. R
      PROVE /\ At(b, w, j) \in Unit /\ At(b, w, j)[1] \in 1 .. Len(s)
            /\ At(b, w, j)[2] \in 1 .. Size(s[At(b, w, j)[1]])
  BY DEF Flow, R
<1>9. \A j \in 1 .. Rest(b, w2) : /\ At(b, w2, j) \in Unit /\ At(b, w2, j)[1] \in 1 .. Len(s2)
                                  /\ At(b, w2, j)[2] \in 1 .. Size(s2[At(b, w2, j)[1]])
  <2> SUFFICES ASSUME NEW j \in 1 .. Rest(b, w2)
               PROVE  /\ At(b, w2, j) \in Unit /\ At(b, w2, j)[1] \in 1 .. Len(s2)
                      /\ At(b, w2, j)[2] \in 1 .. Size(s2[At(b, w2, j)[1]])
    OBVIOUS
  <2>1. CASE j \in 1 .. R
    <3> DEFINE x == At(b, w, j)
    <3>1. x \in Unit /\ x[1] \in 1 .. Len(s) /\ x[2] \in 1 .. Size(s[x[1]]) /\ At(b, w2, j) = x
      BY <1>5, <1>8, <2>1
    <3> HIDE DEF x
    <3>2. x[1] \in 1 .. Len(s2) /\ s2[x[1]] = s[x[1]]
      BY <1>7, <3>1
    <3> QED
      BY <3>1, <3>2
  <2>2. CASE j \in R + 1 .. R + Size(m)
    <3>1. At(b, w2, j) = <<Len(s) + 1, j - R>> /\ j - R \in 1 .. Size(m)
      BY <1>2, <1>4, <1>6, <2>2
    <3> QED
      BY <1>2, <1>7, <3>1 DEF Unit
  <2> QED
    BY <1>2, <1>4, <2>1, <2>2
<1>10. /\ h \in 0 .. Len(s)
       /\ \/ R = 0 /\ h = Len(s)
          \/ R > 0 /\ At(b, w, R) = <<Len(s), Size(s[Len(s)])>> /\ At(b, w, 1) = <<h + 1, 1>>
  BY Zenon DEF Flow, R
<1>11. Rest(b, w2) > 0 => At(b, w2, 1) = <<h + 1, 1>>
  <2>1. CASE R = 0
    BY <1>2, <1>6, <1>10, <2>1
  <2>2. CASE R > 0
    BY <1>4, <1>5, <1>10, <2>2
  <2> QED
    BY <1>4, <2>1, <2>2
<1>12. At(b, w2, Rest(b, w2)) = <<Len(s2), Size(s2[Len(s2)])>>
  BY <1>2, <1>4, <1>6, <1>7
<1>13. \A j \in 1 .. Rest(b, w2) - 1 : At(b, w2, j + 1) = Succ(s2, At(b, w2, j))
  <2> SUFFICES ASSUME NEW j \in 1 .. Rest(b, w2) - 1 PROVE At(b, w2, j + 1) = Succ(s2, At(b, w2, j))
    OBVIOUS
  <2>1. CASE j \in 1 .. R - 1
    <3>1. At(b, w, j + 1) = Succ(s, At(b, w, j))
      BY <2>1 DEF Flow, R
    <3>2. At(b, w2, j + 1) = At(b, w, j + 1) /\ At(b, w2, j) = At(b, w, j) /\ j \in 1 .. R
      BY <1>4, <1>5, <2>1
    <3>3. Succ(s2, At(b, w, j)) = Succ(s, At(b, w, j))
      BY <1>7, <1>8, <3>2 DEF Succ
    <3> QED
      BY <3>1, <3>2, <3>3
  <2>2. CASE j = R
    <3>1. At(b, w2, j) = <<Len(s), Size(s[Len(s)])>> /\ Len(s) \in 1 .. Len(s)
      <4>1. R > 0 /\ R \in 1 .. R
        BY <1>4, <2>2
      <4>2. At(b, w, R) = <<Len(s), Size(s[Len(s)])>>
        BY <1>10, <4>1
      <4>3. Len(s) \in 1 .. Len(s)
        BY <1>8, <4>1, <4>2
      <4> QED
        BY <1>5, <2>2, <4>1, <4>2, <4>3
    <3>2. At(b, w2, j + 1) = <<Len(s) + 1, 1>>
      BY <1>2, <1>4, <1>6, <2>2
    <3>3. Size(s[Len(s)]) \in Nat /\ s2[Len(s)] = s[Len(s)]
      BY <1>7, <3>1, MessageSize
    <3> QED
      BY <3>1, <3>2, <3>3 DEF Succ
  <2>3. CASE j \in R + 1 .. R + Size(m) - 1
    <3>1. At(b, w2, j) = <<Len(s) + 1, j - R>> /\ At(b, w2, j + 1) = <<Len(s) + 1, (j + 1) - R>>
      BY <1>2, <1>4, <1>6, <2>3
    <3>2. j - R < Size(m) /\ (j + 1) - R = (j - R) + 1
      BY <1>2, <1>4, <2>3
    <3>3. Succ(s2, <<Len(s) + 1, j - R>>) = <<Len(s) + 1, (j - R) + 1>>
      BY <1>7, <3>2 DEF Succ
    <3> QED
      BY <3>1, <3>2, <3>3
  <2> QED
    BY <1>2, <1>4, <2>1, <2>2, <2>3
<1>14. h \in 0 .. Len(s2) /\ Rest(b, w2) > 0
  BY <1>2, <1>4, <1>7, <1>10
<1>15. Flow(b, w2, s2, "open", h)
  BY <1>9, <1>11, <1>12, <1>13, <1>14 DEF Flow
<1> QED
  BY <1>15 DEF w2, s2, u

(* Without its client a stream may lose its end. *)
LEMMA CutFlow ==
  ASSUME NEW b \in Seq(Unit), NEW w \in Seq(Unit), NEW s \in Seq(Messages), NEW p, NEW h, Flow(b, w, s, p, h),
         NEW k \in 0 .. Len(w), NEW p2, p2 # "open"
  PROVE  Flow(b, SubSeq(w, 1, k), s, p2, h)
<1> DEFINE w2 == SubSeq(w, 1, k)
<1>1. w2 \in Seq(Unit) /\ Len(w2) = k /\ \A j \in 1 .. k : w2[j] = w[j]
  OBVIOUS
<1> HIDE DEF w2
<1>2. Rest(b, w2) \in Nat /\ Rest(b, w2) <= Rest(b, w) /\ Rest(b, w) \in Nat
  BY <1>1 DEF Rest
<1>3. ASSUME NEW j \in 1 .. Rest(b, w2) PROVE At(b, w2, j) = At(b, w, j) /\ j \in 1 .. Rest(b, w)
  BY <1>1, <1>2 DEF At, Rest
<1>4. Flow(b, w2, s, p2, h)
  <2>1. \A j \in 1 .. Rest(b, w2) - 1 : At(b, w2, j + 1) = Succ(s, At(b, w2, j))
    <3> SUFFICES ASSUME NEW j \in 1 .. Rest(b, w2) - 1 PROVE At(b, w2, j + 1) = Succ(s, At(b, w2, j))
      OBVIOUS
    <3>1. At(b, w2, j) = At(b, w, j) /\ At(b, w2, j + 1) = At(b, w, j + 1) /\ j \in 1 .. Rest(b, w) - 1
      BY <1>2, <1>3
    <3> QED
      BY <3>1 DEF Flow
  <2>2. Rest(b, w2) > 0 => At(b, w2, 1) = <<h + 1, 1>>
    <3> SUFFICES ASSUME Rest(b, w2) > 0 PROVE At(b, w2, 1) = <<h + 1, 1>>
      OBVIOUS
    <3>1. At(b, w2, 1) = At(b, w, 1) /\ Rest(b, w) > 0
      BY <1>2, <1>3
    <3> QED
      BY <3>1 DEF Flow
  <2>3. \A j \in 1 .. Rest(b, w2) : /\ At(b, w2, j) \in Unit /\ At(b, w2, j)[1] \in 1 .. Len(s)
                                    /\ At(b, w2, j)[2] \in 1 .. Size(s[At(b, w2, j)[1]])
    BY <1>3 DEF Flow
  <2> QED
    BY <2>1, <2>2, <2>3 DEF Flow
<1> QED
  BY <1>4 DEF w2

-----------------------------------------------------------------------------
(* Answers and log entries                                                 *)

\* AnswersInOrder for the answers a to the messages s
AnsGood(a, s) ==
  \A i \in 1 .. Len(a) :
    \/ /\ a[i] \in 1 .. Len(s) /\ s[a[i]].kind # "text"
       /\ \A m \in Nat : (\E j \in 1 .. i - 1 : a[j] = m) <=> m \in 1 .. a[i] - 1 /\ s[m].kind # "text"
    \/ a[i] = ENDING /\ i = Len(a)
    \/ a[i] = STALE /\ i = Len(a)

\* No cut header was acknowledged
NoStale(a) == \A i \in 1 .. Len(a) : a[i] # STALE

\* The entry has the text of its message
WholeOf(e, s) == e.msg # 0 /\ e.text = [i \in 1 .. s[e.msg].len |-> <<e.msg, Header + i>>]

\* Entry i of the log l is a whole event of s, and those before it are in the log before it
Complete(l, i, s) ==
  /\ WholeOf(l[i], s) /\ l[i].msg \in 1 .. Len(s) /\ s[l[i].msg].kind = "event"
  /\ \A m \in Nat : (\E j \in 1 .. i - 1 : l[j].conn = l[i].conn /\ l[j].msg = m)
                       <=> m \in 1 .. l[i].msg - 1 /\ s[m].kind = "event"

AnswerInv ==
  \A c \in Conns : AnsGood(answers[c], sent[c]) /\ (state[c] = "closed" \/ NoStale(answers[c]))

LogInv ==
  \A i \in 1 .. Len(log) :
    \/ Complete(log, i, sent[log[i].conn])
    \/ /\ ~WholeOf(log[i], sent[log[i].conn]) /\ state[log[i].conn] = "closed"
       /\ \A j \in i + 1 .. Len(log) : log[j].conn # log[i].conn

(* The acknowledgement of the next framed message keeps the order. *)
LEMMA AnswerNext ==
  ASSUME NEW a \in Seq(Nat), NEW s \in Seq(Messages), NEW h \in Nat, h + 1 \in 1 .. Len(s), s[h + 1].kind # "text",
         Len(s) <= MaxMessages, AnsGood(a, s), NoStale(a), AnsweredUpTo(a, s, h)
  PROVE  /\ AnsGood(Append(a, h + 1), s) /\ NoStale(Append(a, h + 1))
         /\ AnsweredUpTo(Append(a, h + 1), s, h + 1)
<1> DEFINE b == Append(a, h + 1)
<1>1. b \in Seq(Nat) /\ Len(b) = Len(a) + 1 /\ b[Len(a) + 1] = h + 1 /\ (\A i \in 1 .. Len(a) : b[i] = a[i])
  OBVIOUS
<1> HIDE DEF b
<1>2. ASSUME NEW n \in Nat PROVE (\E i \in 1 .. Len(b) : b[i] = n) <=> (\E i \in 1 .. Len(a) : a[i] = n) \/ n = h + 1
  <2>1. \A i \in 1 .. Len(b) : (i \in 1 .. Len(a) /\ b[i] = a[i]) \/ b[i] = h + 1
    BY <1>1
  <2>2. \A i \in 1 .. Len(a) : i \in 1 .. Len(b) /\ b[i] = a[i]
    BY <1>1
  <2>3. Len(a) + 1 \in 1 .. Len(b) /\ b[Len(a) + 1] = h + 1
    BY <1>1
  <2> QED
    BY Zenon, <2>1, <2>2, <2>3
<1>3. AnsweredUpTo(b, s, h + 1)
  <2> SUFFICES ASSUME NEW n \in Nat
               PROVE  (\E i \in 1 .. Len(b) : b[i] = n) <=> n \in 1 .. h + 1 /\ s[n].kind # "text"
    BY DEF AnsweredUpTo
  <2>1. (\E i \in 1 .. Len(a) : a[i] = n) <=> n \in 1 .. h /\ s[n].kind # "text"
    BY DEF AnsweredUpTo
  <2>2. n \in 1 .. h + 1 <=> n \in 1 .. h \/ n = h + 1
    OBVIOUS
  <2> QED
    BY Zenon, <1>2, <2>1, <2>2
<1>4. ASSUME NEW i \in 1 .. Len(b)
      PROVE  /\ b[i] \in 1 .. Len(s) /\ s[b[i]].kind # "text"
             /\ \A m \in Nat : (\E j \in 1 .. i - 1 : b[j] = m) <=> m \in 1 .. b[i] - 1 /\ s[m].kind # "text"
  <2>1. CASE i = Len(a) + 1
    <3>1. b[i] = h + 1 /\ i - 1 = Len(a) /\ (h + 1) - 1 = h
      BY <1>1, <2>1
    <3>2. ASSUME NEW m \in Nat
          PROVE (\E j \in 1 .. i - 1 : b[j] = m) <=> m \in 1 .. b[i] - 1 /\ s[m].kind # "text"
      <4>1. (\E j \in 1 .. i - 1 : b[j] = m) <=> (\E j \in 1 .. Len(a) : a[j] = m)
        BY <1>1, <3>1
      <4> QED
        BY <3>1, <4>1 DEF AnsweredUpTo
    <3> QED
      BY <3>1, <3>2
  <2>2. CASE i \in 1 .. Len(a)
    <3>1. b[i] = a[i] /\ \A j \in 1 .. i - 1 : b[j] = a[j]
      BY <1>1, <2>2
    <3>2. a[i] # ENDING /\ a[i] # STALE
      <4>1. a[i] \in Nat /\ \E k \in 1 .. Len(a) : a[k] = a[i]
        BY <2>2
      <4>2. a[i] \in 1 .. h
        BY <4>1 DEF AnsweredUpTo
      <4> QED
        BY <2>2, <4>2 DEF ENDING, NoStale
    <3>3. /\ a[i] \in 1 .. Len(s) /\ s[a[i]].kind # "text"
          /\ \A m \in Nat : (\E j \in 1 .. i - 1 : a[j] = m) <=> m \in 1 .. a[i] - 1 /\ s[m].kind # "text"
      BY <2>2, <3>2 DEF AnsGood
    <3>4. ASSUME NEW m \in Nat PROVE (\E j \in 1 .. i - 1 : b[j] = m) <=> (\E j \in 1 .. i - 1 : a[j] = m)
      BY <3>1
    <3> QED
      BY <3>1, <3>3, <3>4
  <2> QED
    BY <1>1, <2>1, <2>2
<1>5. AnsGood(b, s)
  BY Zenon, <1>4 DEF AnsGood
<1>6. NoStale(b)
  <2>1. h + 1 # STALE
    BY Bounds DEF STALE
  <2> QED
    BY <1>1, <2>1 DEF NoStale
<1> QED
  BY <1>3, <1>5, <1>6 DEF b

(* ENDING, or the acknowledgement of a cut header, may follow the acknowledgements. *)
LEMMA AnswerLast ==
  ASSUME NEW a \in Seq(Nat), NEW s \in Seq(Messages), NEW h \in Nat, AnsGood(a, s), NoStale(a),
         AnsweredUpTo(a, s, h), NEW x \in {ENDING, STALE}
  PROVE  Append(a, x) \in Seq(Nat) /\ AnsGood(Append(a, x), s)
<1> DEFINE b == Append(a, x)
<1>0. x \in Nat
  BY Bounds DEF ENDING, STALE
<1>1. b \in Seq(Nat) /\ Len(b) = Len(a) + 1 /\ b[Len(a) + 1] = x /\ (\A i \in 1 .. Len(a) : b[i] = a[i])
  BY <1>0
<1> HIDE DEF b
<1>2. ASSUME NEW i \in 1 .. Len(a)
      PROVE  /\ b[i] \in 1 .. Len(s) /\ s[b[i]].kind # "text"
             /\ \A m \in Nat : (\E j \in 1 .. i - 1 : b[j] = m) <=> m \in 1 .. b[i] - 1 /\ s[m].kind # "text"
  <2>1. b[i] = a[i] /\ \A j \in 1 .. i - 1 : b[j] = a[j]
    BY <1>1
  <2>2. a[i] # ENDING /\ a[i] # STALE
    <3>1. a[i] \in Nat /\ \E k \in 1 .. Len(a) : a[k] = a[i]
      OBVIOUS
    <3>2. a[i] \in 1 .. h
      BY <3>1 DEF AnsweredUpTo
    <3> QED
      BY <3>2 DEF ENDING, NoStale
  <2>3. /\ a[i] \in 1 .. Len(s) /\ s[a[i]].kind # "text"
        /\ \A m \in Nat : (\E j \in 1 .. i - 1 : a[j] = m) <=> m \in 1 .. a[i] - 1 /\ s[m].kind # "text"
    BY <2>2 DEF AnsGood
  <2>4. ASSUME NEW m \in Nat PROVE (\E j \in 1 .. i - 1 : b[j] = m) <=> (\E j \in 1 .. i - 1 : a[j] = m)
    BY <2>1
  <2> QED
    BY <2>1, <2>3, <2>4
<1>3. \A i \in 1 .. Len(b) : i \in 1 .. Len(a) \/ (b[i] \in {ENDING, STALE} /\ i = Len(b))
  BY <1>1
<1>4. AnsGood(b, s)
  BY Zenon, <1>2, <1>3 DEF AnsGood
<1> QED
  BY <1>1, <1>4 DEF b

(* What the client sends later changes nothing about the answers and entries so far. *)
LEMMA SendKeeps ==
  ASSUME NEW s \in Seq(Messages), NEW m \in Messages
  PROVE  /\ \A a \in Seq(Nat) : AnsGood(a, s) => AnsGood(a, Append(s, m))
         /\ \A a \in Seq(Nat) : \A h \in 0 .. Len(s) : AnsweredUpTo(a, s, h) => AnsweredUpTo(a, Append(s, m), h)
         /\ \A l, c : \A h \in 0 .. Len(s) : LoggedUpTo(l, c, s, h) => LoggedUpTo(l, c, Append(s, m), h)
         /\ \A l, i : Complete(l, i, s) => Complete(l, i, Append(s, m))
<1> DEFINE s2 == Append(s, m)
<1>1. Len(s2) = Len(s) + 1 /\ \A n \in 1 .. Len(s) : s2[n] = s[n]
  OBVIOUS
<1> HIDE DEF s2
<1>2. ASSUME NEW a \in Seq(Nat), AnsGood(a, s) PROVE AnsGood(a, s2)
  <2> SUFFICES ASSUME NEW i \in 1 .. Len(a), ~ (a[i] = ENDING /\ i = Len(a)), ~ (a[i] = STALE /\ i = Len(a))
               PROVE  /\ a[i] \in 1 .. Len(s2) /\ s2[a[i]].kind # "text"
                      /\ \A n \in Nat : (\E j \in 1 .. i - 1 : a[j] = n) <=> n \in 1 .. a[i] - 1 /\ s2[n].kind # "text"
    BY Zenon DEF AnsGood
  <2>1. /\ a[i] \in 1 .. Len(s) /\ s[a[i]].kind # "text"
        /\ \A n \in Nat : (\E j \in 1 .. i - 1 : a[j] = n) <=> n \in 1 .. a[i] - 1 /\ s[n].kind # "text"
    BY Zenon, <1>2 DEF AnsGood
  <2>2. a[i] \in 1 .. Len(s2) /\ s2[a[i]] = s[a[i]] /\ \A n \in 1 .. a[i] - 1 : s2[n] = s[n]
    BY <1>1, <2>1
  <2>3. ASSUME NEW n \in Nat
        PROVE (\E j \in 1 .. i - 1 : a[j] = n) <=> n \in 1 .. a[i] - 1 /\ s2[n].kind # "text"
    BY Zenon, <2>1, <2>2
  <2> QED
    BY Zenon, <2>1, <2>2, <2>3
<1>3. ASSUME NEW a \in Seq(Nat), NEW h \in 0 .. Len(s), AnsweredUpTo(a, s, h) PROVE AnsweredUpTo(a, s2, h)
  <2>1. \A n \in 1 .. h : s2[n] = s[n]
    BY <1>1
  <2> QED
    BY <1>3, <2>1 DEF AnsweredUpTo
<1>4. ASSUME NEW l, NEW c, NEW h \in 0 .. Len(s), LoggedUpTo(l, c, s, h) PROVE LoggedUpTo(l, c, s2, h)
  <2>1. \A n \in 1 .. h : s2[n] = s[n]
    BY <1>1
  <2> QED
    BY <1>4, <2>1 DEF LoggedUpTo
<1>5. ASSUME NEW l, NEW i, Complete(l, i, s) PROVE Complete(l, i, s2)
  <2> DEFINE n == l[i].msg
  <2>1. n \in 1 .. Len(s) /\ s[n].kind = "event" /\ WholeOf(l[i], s)
    BY <1>5 DEF Complete
  <2>2. n \in 1 .. Len(s2) /\ s2[n] = s[n] /\ \A k \in 1 .. n - 1 : s2[k] = s[k]
    BY <1>1, <2>1
  <2>3. WholeOf(l[i], s2)
    BY Zenon, <2>1, <2>2 DEF WholeOf
  <2>4. ASSUME NEW k \in Nat
        PROVE  (\E j \in 1 .. i - 1 : l[j].conn = l[i].conn /\ l[j].msg = k) <=> k \in 1 .. n - 1 /\ s2[k].kind = "event"
    <3>1. (\E j \in 1 .. i - 1 : l[j].conn = l[i].conn /\ l[j].msg = k) <=> k \in 1 .. n - 1 /\ s[k].kind = "event"
      BY Zenon, <1>5 DEF Complete
    <3> QED
      BY Zenon, <2>2, <3>1
  <2> QED
    BY Zenon, <2>1, <2>2, <2>3, <2>4 DEF Complete
<1> QED
  BY Zenon, <1>2, <1>3, <1>4, <1>5 DEF s2

(* A line of text is neither acknowledged nor logged; a heartbeat is not logged. *)
LEMMA Skipped ==
  ASSUME NEW s \in Seq(Messages), NEW h \in Nat
  PROVE  /\ s[h + 1].kind = "text" => \A a : AnsweredUpTo(a, s, h) => AnsweredUpTo(a, s, h + 1)
         /\ s[h + 1].kind # "event" => \A l, c : LoggedUpTo(l, c, s, h) => LoggedUpTo(l, c, s, h + 1)
<1>1. \A n \in Nat : n \in 1 .. h + 1 <=> n \in 1 .. h \/ n = h + 1
  OBVIOUS
<1>2. ASSUME s[h + 1].kind = "text", NEW a, AnsweredUpTo(a, s, h) PROVE AnsweredUpTo(a, s, h + 1)
  BY Zenon, <1>1, <1>2 DEF AnsweredUpTo
<1>3. ASSUME s[h + 1].kind # "event", NEW l, NEW c, LoggedUpTo(l, c, s, h) PROVE LoggedUpTo(l, c, s, h + 1)
  BY Zenon, <1>1, <1>3 DEF LoggedUpTo
<1> QED
  BY Zenon, <1>2, <1>3

(* An entry at the end of the log leaves those before it as they are. *)
LEMMA EntryAdded ==
  ASSUME NEW l \in Seq(LogEntry), NEW e \in LogEntry
  PROVE  /\ \A i \in 1 .. Len(l) : \A s : Complete(l, i, s) => Complete(Append(l, e), i, s)
         /\ \A d, s, h : e.conn # d /\ LoggedUpTo(l, d, s, h) => LoggedUpTo(Append(l, e), d, s, h)
         /\ \A s : \A h \in Nat : s[h + 1].kind = "event" /\ e.msg = h + 1 /\ LoggedUpTo(l, e.conn, s, h) =>
              /\ LoggedUpTo(Append(l, e), e.conn, s, h + 1)
              /\ (h + 1 \in 1 .. Len(s) /\ WholeOf(e, s) => Complete(Append(l, e), Len(l) + 1, s))
<1> DEFINE k == Append(l, e)
<1>1. k \in Seq(LogEntry) /\ Len(k) = Len(l) + 1 /\ k[Len(l) + 1] = e /\ (\A i \in 1 .. Len(l) : k[i] = l[i])
  OBVIOUS
<1> HIDE DEF k
<1>2. ASSUME NEW i \in 1 .. Len(l), NEW s, Complete(l, i, s) PROVE Complete(k, i, s)
  <2>1. k[i] = l[i] /\ \A j \in 1 .. i - 1 : k[j] = l[j]
    BY <1>1
  <2>2. ASSUME NEW m \in Nat
        PROVE  (\E j \in 1 .. i - 1 : k[j].conn = k[i].conn /\ k[j].msg = m)
                 <=> m \in 1 .. k[i].msg - 1 /\ s[m].kind = "event"
    <3>1. (\E j \in 1 .. i - 1 : l[j].conn = l[i].conn /\ l[j].msg = m) <=> m \in 1 .. l[i].msg - 1 /\ s[m].kind = "event"
      BY Zenon, <1>2 DEF Complete
    <3>2. (\E j \in 1 .. i - 1 : k[j].conn = l[i].conn /\ k[j].msg = m) <=> (\E j \in 1 .. i - 1 : l[j].conn = l[i].conn /\ l[j].msg = m)
      BY <2>1
    <3> QED
      BY <2>1, <3>1, <3>2
  <2>3. WholeOf(k[i], s) /\ k[i].msg \in 1 .. Len(s) /\ s[k[i].msg].kind = "event"
    BY <1>2, <2>1 DEF Complete
  <2> QED
    BY Zenon, <2>2, <2>3 DEF Complete
<1>3. \A i \in 1 .. Len(k) : (i \in 1 .. Len(l) /\ k[i] = l[i]) \/ (i = Len(l) + 1 /\ k[i] = e)
  BY <1>1
<1>4. \A i \in 1 .. Len(l) : i \in 1 .. Len(k) /\ k[i] = l[i]
  BY <1>1
<1>5. ASSUME NEW d, NEW s, NEW h, e.conn # d, LoggedUpTo(l, d, s, h) PROVE LoggedUpTo(k, d, s, h)
  <2> SUFFICES ASSUME NEW n \in Nat
               PROVE  (\E i \in 1 .. Len(k) : k[i].conn = d /\ k[i].msg = n) <=> n \in 1 .. h /\ s[n].kind = "event"
    BY Zenon DEF LoggedUpTo
  <2>1. (\E i \in 1 .. Len(k) : k[i].conn = d /\ k[i].msg = n) <=> (\E i \in 1 .. Len(l) : l[i].conn = d /\ l[i].msg = n)
    BY <1>3, <1>4, <1>5
  <2> QED
    BY Zenon, <1>5, <2>1 DEF LoggedUpTo
<1>6. ASSUME NEW s, NEW h \in Nat, s[h + 1].kind = "event", e.msg = h + 1, LoggedUpTo(l, e.conn, s, h)
      PROVE  LoggedUpTo(k, e.conn, s, h + 1)
  <2> SUFFICES ASSUME NEW n \in Nat
               PROVE  (\E i \in 1 .. Len(k) : k[i].conn = e.conn /\ k[i].msg = n) <=> n \in 1 .. h + 1 /\ s[n].kind = "event"
    BY Zenon DEF LoggedUpTo
  <2>1. (\E i \in 1 .. Len(k) : k[i].conn = e.conn /\ k[i].msg = n)
          <=> (\E i \in 1 .. Len(l) : l[i].conn = e.conn /\ l[i].msg = n) \/ n = h + 1
    <3>1. Len(l) + 1 \in 1 .. Len(k) /\ k[Len(l) + 1] = e
      BY <1>1
    <3> QED
      BY Zenon, <1>3, <1>4, <1>6, <3>1
  <2>2. (\E i \in 1 .. Len(l) : l[i].conn = e.conn /\ l[i].msg = n) <=> n \in 1 .. h /\ s[n].kind = "event"
    BY Zenon, <1>6 DEF LoggedUpTo
  <2>3. n \in 1 .. h + 1 <=> n \in 1 .. h \/ n = h + 1
    OBVIOUS
  <2> QED
    BY Zenon, <1>6, <2>1, <2>2, <2>3
<1>7. ASSUME NEW s, NEW h \in Nat, s[h + 1].kind = "event", e.msg = h + 1, LoggedUpTo(l, e.conn, s, h),
             h + 1 \in 1 .. Len(s), WholeOf(e, s)
      PROVE  Complete(k, Len(l) + 1, s)
  <2>1. ASSUME NEW n \in Nat
        PROVE  (\E j \in 1 .. (Len(l) + 1) - 1 : k[j].conn = e.conn /\ k[j].msg = n)
                  <=> n \in 1 .. e.msg - 1 /\ s[n].kind = "event"
    <3>1. (Len(l) + 1) - 1 = Len(l) /\ e.msg - 1 = h
      BY <1>7
    <3>2. (\E i \in 1 .. Len(l) : l[i].conn = e.conn /\ l[i].msg = n) <=> n \in 1 .. h /\ s[n].kind = "event"
      BY Zenon, <1>7 DEF LoggedUpTo
    <3>3. (\E i \in 1 .. Len(l) : k[i].conn = e.conn /\ k[i].msg = n) <=> (\E i \in 1 .. Len(l) : l[i].conn = e.conn /\ l[i].msg = n)
      BY <1>4
    <3> QED
      BY <3>1, <3>2, <3>3
  <2>2. k[Len(l) + 1] = e
    BY <1>1
  <2> QED
    BY Zenon, <1>7, <2>1, <2>2 DEF Complete
<1> QED
  BY Zenon, <1>2, <1>5, <1>6, <1>7 DEF k

-----------------------------------------------------------------------------
(* Messages in the buffer                                                  *)

(* The types of one connection. *)
LEMMA ConnTypes ==
  ASSUME DataTypes, NEW c \in Conns
  PROVE  /\ buffer[c] \in Seq(Unit) /\ wire[c] \in Seq(Unit) /\ sent[c] \in Seq(Messages)
         /\ answers[c] \in Seq(Nat) /\ log \in Seq(LogEntry)
         /\ Len(buffer[c]) \in Nat /\ Len(buffer[c]) <= MAX /\ Len(sent[c]) \in Nat /\ Len(wire[c]) \in Nat
BY DEF DataTypes

(* A buffer that is not empty begins with the next message. *)
LEMMA BufferBegins ==
  ASSUME DataTypes, NEW c \in Conns, NEW h \in Nat, ConnAt(c, h), Len(buffer[c]) > 0
  PROVE  /\ h + 1 \in 1 .. Len(sent[c]) /\ sent[c][h + 1] \in Messages
         /\ \A j \in 1 .. Len(buffer[c]) : j <= Size(sent[c][h + 1]) => buffer[c][j] = <<h + 1, j>>
<1> DEFINE b == buffer[c]
           w == wire[c]
           s == sent[c]
<1>1. b \in Seq(Unit) /\ w \in Seq(Unit) /\ s \in Seq(Messages) /\ Len(b) \in Nat /\ Len(w) \in Nat
  BY Zenon, ConnTypes
<1>2. Flow(b, w, s, peer[c], h) /\ Len(b) > 0
  BY Zenon DEF ConnAt
<1> HIDE DEF b, w, s
<1>3. /\ h + 1 \in 1 .. Len(s) /\ s[h + 1] \in Messages
      /\ \A j \in 1 .. Rest(b, w) : j <= Size(s[h + 1]) => At(b, w, j) = <<h + 1, j>>
  <2>1. Rest(b, w) > 0
    BY <1>1, <1>2 DEF Rest
  <2> QED
    BY <1>1, <1>2, <2>1, FirstMessage
<1>4. \A j \in 1 .. Len(b) : j \in 1 .. Rest(b, w) /\ At(b, w, j) = b[j]
  BY <1>1 DEF At, Rest
<1>5. \A j \in 1 .. Len(b) : j <= Size(s[h + 1]) => b[j] = <<h + 1, j>>
  BY Zenon, <1>3, <1>4
<1> QED
  BY Zenon, <1>3, <1>5 DEF b, w, s

(* A sequence is a function on its positions. *)
LEMMA SeqAsFunction ==
  ASSUME NEW S, NEW x \in Seq(S)
  PROVE  DOMAIN x = 1 .. Len(x) /\ x = [i \in DOMAIN x |-> x[i]]
  OBVIOUS

(* The magic number is recognized exactly at the begin of a framed message. *)
LEMMA MagicBegins ==
  ASSUME DataTypes, NEW c \in Conns, NEW h \in Nat, ConnAt(c, h), NEW length \in 1 .. Len(buffer[c])
  PROVE  IsMagic(c, length) <=> length >= Magic /\ sent[c][h + 1].kind # "text"
<1>1. Len(buffer[c]) \in Nat
  BY Zenon, ConnTypes
<1>2. /\ sent[c][h + 1] \in Messages
      /\ \A j \in 1 .. Len(buffer[c]) : j <= Size(sent[c][h + 1]) => buffer[c][j] = <<h + 1, j>>
  BY <1>1, BufferBegins
<1>3. Size(sent[c][h + 1]) \in Nat /\ Size(sent[c][h + 1]) >= 1
      /\ sent[c][h + 1].len \in Nat
      /\ (sent[c][h + 1].kind # "text" => Size(sent[c][h + 1]) = sent[c][h + 1].len + Header)
  BY <1>2, MessageSize
<1>4. ASSUME length >= Magic, sent[c][h + 1].kind # "text" PROVE IsMagic(c, length)
  <2>1. \A i \in 1 .. Magic : buffer[c][i] = <<h + 1, i>>
    <3> DEFINE b == buffer[c]
               k == Size(sent[c][h + 1])
    <3>1. Magic <= Len(b) /\ Magic <= k
      BY <1>1, <1>3, <1>4, Bounds
    <3>2. \A j \in 1 .. Len(b) : j <= k => b[j] = <<h + 1, j>>
      BY <1>2
    <3>3. Len(b) \in Nat /\ k \in Nat
      BY <1>1, <1>3
    <3> HIDE DEF b, k
    <3>4. \A i \in 1 .. Magic : i \in 1 .. Len(b) /\ i <= k
      BY <3>1, <3>3, Bounds
    <3>5. \A i \in 1 .. Magic : b[i] = <<h + 1, i>>
      BY Zenon, <3>2, <3>4
    <3> QED
      BY Zenon, <3>5 DEF b
  <2> QED
    BY <1>4, <2>1 DEF IsMagic
<1>5. ASSUME IsMagic(c, length) PROVE length >= Magic /\ sent[c][h + 1].kind # "text"
  <2>1. 1 \in 1 .. Magic /\ buffer[c][1] = <<h + 1, 1>>
    BY <1>1, <1>2, <1>3, Bounds
  <2> QED
    BY <1>5, <2>1 DEF IsMagic
<1> QED
  BY <1>4, <1>5

(* A step of the parser finds the next message complete, or finds that it is not. *)
LEMMA ParseStep ==
  ASSUME DataTypes, HandlerInv, NEW c \in Conns, NEW h \in Nat, ConnAt(c, h), MoreFramed(c) \/ MoreText(c)
  PROVE  \/ WaitForMore(c) /\ (Len(buffer[c]) > 0 => Len(buffer[c]) < Size(sent[c][h + 1]))
         \/ /\ Len(buffer[c]) > 0 /\ Size(sent[c][h + 1]) <= Len(buffer[c])
            /\ Consume(c, Size(sent[c][h + 1]))
<1> DEFINE b == buffer[c]
           k == Size(sent[c][h + 1])
           m == sent[c][h + 1]
<1>1. Parsing(c)
  BY Zenon DEF MoreFramed, MoreText
<1>2. handler.conn = c /\ handler.step = "parse"
  BY Zenon, <1>1 DEF Parsing
<1>3. handler.r \in Nat /\ handler.r <= Len(b) /\ Scanned(c) = Len(b) - handler.r
  <2>1. handler # Idle
    BY <1>2 DEF Idle
  <2>2. handler.r \in 0 .. MAX /\ handler.r <= Len(buffer[handler.conn])
    BY <1>2, <2>1 DEF HandlerInv
  <2> QED
    BY <1>2, <2>2, Bounds DEF Scanned
<1>4. Len(b) \in Nat /\ Len(b) <= MAX
  BY Zenon, ConnTypes
<1>5. CASE Len(b) = 0
  <2>1. ~IsMagic(c, Len(b))
    BY <1>5, Bounds DEF IsMagic
  <2>2. MoreText(c)
    BY Zenon, <2>1 DEF MoreFramed
  <2>3. \A i \in Len(b) - handler.r + 1 .. Len(b) : FALSE
    BY <1>3, <1>5
  <2>4. WaitForMore(c)
    BY Zenon, <2>2, <2>3 DEF MoreText
  <2> QED
    BY <1>5, <2>4
<1>6. CASE Len(b) > 0
  <2>1. /\ m \in Messages
        /\ \A j \in 1 .. Len(b) : j <= k => b[j] = <<h + 1, j>>
    BY Zenon, <1>6, BufferBegins
  <2>2. /\ m.len \in Nat /\ k \in Nat /\ k >= 1
        /\ (m.kind = "text" => k = m.len) /\ (m.kind # "text" => k = m.len + Header)
    BY <2>1, MessageSize
  <2>3. IsMagic(c, Len(b)) <=> Len(b) >= Magic /\ m.kind # "text"
    <3>1. Len(b) \in 1 .. Len(buffer[c])
      BY <1>4, <1>6
    <3> QED
      BY Zenon, <3>1, MagicBegins
  <2>4. CASE MoreFramed(c)
    <3>1. IsMagic(c, Len(b))
      BY Zenon, <2>4 DEF MoreFramed
    <3>2. m.kind # "text" /\ k = m.len + Header
      BY <2>2, <2>3, <3>1
    <3>3. CASE Len(b) < Header
      <4>1. WaitForMore(c)
        BY <1>4, <2>4, <3>3, Bounds DEF MoreFramed
      <4> QED
        BY <1>4, <2>2, <3>2, <3>3, <4>1, Bounds
    <3>4. CASE Len(b) >= Header
      <4>0. Header \in 1 .. Len(b) /\ Header <= k
        BY <1>4, <2>2, <3>2, <3>4, Bounds
      <4>1. b[Header] = <<h + 1, Header>>
        BY Zenon, <2>1, <4>0
      <4>2. sent[c][buffer[c][Header][1]].len = m.len
        BY <4>1
      <4>3. \/ (m.len > MAX \/ Len(b) < m.len + Header) /\ WaitForMore(c)
            \/ m.len <= MAX /\ Len(b) >= m.len + Header /\ Consume(c, m.len + Header)
        BY <1>4, <2>4, <3>4, <4>2, Bounds DEF MoreFramed
      <4> QED
        BY <1>4, <1>6, <2>2, <3>2, <4>3, Bounds
    <3> QED
      BY <1>4, <3>3, <3>4, Bounds
  <2>5. CASE MoreText(c)
    <3> DEFINE new == Len(b) - handler.r + 1 .. Len(b)
               ends == {i \in new : IsLF(c, b[i])}
    <3>1. ~IsMagic(c, Len(b))
      BY Zenon, <2>5 DEF MoreText
    <3>2. \/ ends = {} /\ WaitForMore(c)
          \/ \E i \in ends : (\A j \in ends : i <= j) /\ Consume(c, i)
      BY Zenon, <2>5 DEF MoreText
    <3>3. ASSUME NEW i \in new, i < k PROVE i \notin ends
      <4>1. i \in 1 .. Len(b) /\ b[i] = <<h + 1, i>>
        BY <1>3, <1>4, <2>1, <2>2, <3>3
      <4>2. ~IsLF(c, <<h + 1, i>>)
        BY <1>4, <2>2, <3>3 DEF IsLF
      <4> QED
        BY <4>1, <4>2
    <3>4. CASE Len(b) < k
      <4>1. ends = {}
        <5>1. \A i \in new : i < k
          BY <1>3, <1>4, <2>2, <3>4
        <5> QED
          BY Zenon, <3>3, <5>1
      <4> QED
        BY <3>2, <3>4, <4>1
    <3>5. CASE Len(b) >= k
      <4>1. m.kind = "text" /\ k = m.len
        BY <1>4, <2>2, <2>3, <3>1, <3>5, Bounds
      <4>2. k \in new
        <5>1. Scanned(c) > 0 => Scanned(c) < k
          BY Zenon DEF ConnAt
        <5> QED
          BY <1>3, <1>4, <2>2, <3>5, <5>1
      <4>3. IsLF(c, b[k])
        <5>1. b[k] = <<h + 1, k>>
          BY <1>4, <2>1, <2>2, <3>5
        <5>2. IsLF(c, <<h + 1, k>>)
          BY <2>2, <4>1 DEF IsLF
        <5> QED
          BY Zenon, <5>1, <5>2
      <4>4. k \in ends
        BY Zenon, <4>2, <4>3
      <4>5. PICK i \in ends : (\A j \in ends : i <= j) /\ Consume(c, i)
        BY Zenon, <3>2, <4>4
      <4>6. i <= k /\ i \in new
        BY Zenon, <4>4, <4>5
      <4>7. i = k
        <5>1. ~ (i < k)
          BY Zenon, <3>3, <4>6
        <5> QED
          BY <1>3, <1>4, <2>2, <4>6, <5>1
      <4>8. Consume(c, k)
        BY Zenon, <4>5, <4>7
      <4> QED
        BY <1>4, <1>6, <2>2, <3>5, <4>8
    <3> QED
      BY <1>4, <2>2, <3>4, <3>5
  <2> QED
    BY Zenon, <2>4, <2>5
<1> QED
  BY <1>4, <1>5, <1>6

(* The three cases of client_message. *)
LEMMA MessageCases ==
  ASSUME NEW c \in Conns, NEW length \in Nat, ClientMessage(c, length)
  PROVE  /\ ~IsMagic(c, length) => UNCHANGED <<log, answers>>
         /\ IsMagic(c, length) /\ length < Header =>
              /\ log' = log \/ log' = Append(log, [conn |-> c, msg |-> 0, text |-> <<>>])
              /\ answers' = [answers EXCEPT ![c] = Append(@, STALE)]
         /\ IsMagic(c, length) /\ length >= Header =>
              LET n == buffer[c][Header][1]
              IN  /\ log' = IF sent[c][n].kind = "heartbeat" THEN log
                            ELSE Append(log, [conn |-> c, msg |-> n, text |-> SubSeq(buffer[c], Header + 1, length)])
                  /\ answers' = [answers EXCEPT ![c] = Append(@, n)]
<1>1. ~ (length < Header /\ length >= Header) /\ (length < Header \/ length >= Header)
  BY Bounds
<1>2. CASE ~IsMagic(c, length)
  BY <1>2 DEF ClientMessage
<1>3. CASE IsMagic(c, length) /\ length < Header
  BY <1>1, <1>3 DEF ClientMessage
<1>4. CASE IsMagic(c, length) /\ length >= Header
  BY <1>1, <1>4 DEF ClientMessage
<1> QED
  BY <1>1, <1>2, <1>3, <1>4

\* A log entry of connection c is added, or none
Adds(c, e) == log' = Append(log, e) /\ e \in LogEntry /\ e.conn = c

(* client_message on a complete message: an event is logged whole, and every framed message *)
(* is acknowledged.                                                                         *)
LEMMA WholeMessage ==
  ASSUME DataTypes, NEW c \in Conns, NEW h \in Nat, ConnAt(c, h), Len(buffer[c]) > 0,
         Size(sent[c][h + 1]) <= Len(buffer[c]), ClientMessage(c, Size(sent[c][h + 1]))
  PROVE  /\ sent[c][h + 1].kind = "text" => log' = log /\ answers' = answers
         /\ sent[c][h + 1].kind # "text" => answers' = [answers EXCEPT ![c] = Append(answers[c], h + 1)]
         /\ sent[c][h + 1].kind = "heartbeat" => log' = log
         /\ sent[c][h + 1].kind = "event" =>
              \E e : Adds(c, e) /\ e.msg = h + 1 /\ WholeOf(e, sent[c])
<1> DEFINE m == sent[c][h + 1]
           k == Size(sent[c][h + 1])
           b == buffer[c]
<1>1. b \in Seq(Unit) /\ Len(b) \in Nat
  BY Zenon, ConnTypes
<1>2. /\ m \in Messages
      /\ \A j \in 1 .. Len(b) : j <= k => b[j] = <<h + 1, j>>
  BY Zenon, BufferBegins
<1>3. /\ m.kind \in {"event", "heartbeat", "text"} /\ m.len \in Nat /\ k \in Nat /\ k >= 1
      /\ (m.kind = "text" => k = m.len) /\ (m.kind # "text" => k = m.len + Header)
  BY <1>2, MessageSize
<1>4. IsMagic(c, k) <=> k >= Magic /\ m.kind # "text"
  <2>1. k \in 1 .. Len(buffer[c])
    BY <1>1, <1>3
  <2> QED
    BY Zenon, <2>1, MagicBegins
<1>5. CASE m.kind = "text"
  <2>1. ~IsMagic(c, k)
    BY <1>4, <1>5
  <2>2. UNCHANGED <<log, answers>>
    BY Zenon, <1>3, <2>1, MessageCases
  <2> QED
    BY <1>5, <2>2
<1>6. CASE m.kind # "text"
  <2> DEFINE e == [conn |-> c, msg |-> h + 1, text |-> SubSeq(b, Header + 1, k)]
  <2>1. IsMagic(c, k) /\ k >= Header /\ b[Header] = <<h + 1, Header>>
    BY <1>1, <1>2, <1>3, <1>4, <1>6, Bounds
  <2>2. buffer[c][Header][1] = h + 1
    BY <2>1
  <2>3. /\ log' = IF m.kind = "heartbeat" THEN log ELSE Append(log, e)
        /\ answers' = [answers EXCEPT ![c] = Append(@, h + 1)]
    <3>1. LET n == buffer[c][Header][1]
          IN  /\ log' = IF sent[c][n].kind = "heartbeat" THEN log
                        ELSE Append(log, [conn |-> c, msg |-> n, text |-> SubSeq(buffer[c], Header + 1, k)])
              /\ answers' = [answers EXCEPT ![c] = Append(@, n)]
      BY Zenon, <1>3, <2>1, MessageCases
    <3> QED
      BY Zenon, <2>2, <3>1
  <2>4. SubSeq(b, Header + 1, k) \in Seq(Unit) /\ SubSeq(b, Header + 1, k) = [i \in 1 .. m.len |-> <<h + 1, Header + i>>]
    <3> DEFINE x == SubSeq(b, Header + 1, k)
    <3>0. k = m.len + Header /\ k <= Len(b)
      BY <1>3, <1>6
    <3>1. x \in Seq(Unit) /\ Len(x) = m.len /\ \A i \in 1 .. m.len : x[i] = b[Header + i]
      <4> HIDE DEF k, m, b
      <4>1. x \in Seq(Unit) /\ Len(x) = k - Header /\ \A i \in 1 .. k - Header : x[i] = b[Header + i]
        <5> DEFINE a == Header + 1
        <5>1. a \in Nat /\ a >= 1 /\ a - 1 = Header /\ a - 1 <= k /\ k - a + 1 = k - Header
          BY <1>3, <2>1, Bounds
        <5> HIDE DEF a
        <5>2. SubSeq(b, a, k) \in Seq(Unit) /\ Len(SubSeq(b, a, k)) = k - a + 1
          BY <1>1, <1>3, <3>0, <5>1
        <5>3. \A i \in 1 .. k - a + 1 : SubSeq(b, a, k)[i] = b[a + i - 1] /\ a + i - 1 = Header + i
          BY <1>1, <1>3, <3>0, <5>1, Bounds
        <5> QED
          BY <5>1, <5>2, <5>3 DEF a
      <4> HIDE DEF x
      <4>2. k - Header = m.len
        BY <1>3, <3>0, Bounds
      <4> QED
        BY <4>1, <4>2
    <3>2. \A i \in 1 .. m.len : b[Header + i] = <<h + 1, Header + i>>
      <4> HIDE DEF x, k, m, b
      <4>1. \A i \in 1 .. m.len : Header + i \in 1 .. Len(b) /\ Header + i <= k
        BY <1>1, <1>3, <3>0, Bounds
      <4> QED
        BY <1>2, <4>1
    <3> HIDE DEF x, k, m, b
    <3>3. DOMAIN x = 1 .. m.len /\ x = [i \in DOMAIN x |-> x[i]]
      BY <3>1, SeqAsFunction
    <3>4. x = [i \in 1 .. m.len |-> <<h + 1, Header + i>>]
      BY <3>1, <3>2, <3>3
    <3> QED
      BY Zenon, <3>1, <3>4 DEF x
  <2>5. e \in LogEntry /\ e.conn = c /\ e.msg = h + 1 /\ WholeOf(e, sent[c])
    <3>1. e.conn = c /\ e.msg = h + 1 /\ e.text = SubSeq(b, Header + 1, k)
      OBVIOUS
    <3>2. e \in LogEntry
      BY <2>4 DEF LogEntry
    <3> HIDE DEF e
    <3>3. WholeOf(e, sent[c])
      <4>1. h + 1 # 0
        OBVIOUS
      <4> QED
        BY Zenon, <2>4, <3>1, <4>1 DEF WholeOf
    <3> QED
      BY Zenon, <3>1, <3>2, <3>3
  <2> HIDE DEF e
  <2>6. m.kind = "event" => \E x : Adds(c, x) /\ x.msg = h + 1 /\ WholeOf(x, sent[c])
    BY <2>3, <2>5 DEF Adds
  <2>7. m.kind = "heartbeat" => log' = log
    BY <2>3
  <2> QED
    BY <1>6, <2>3, <2>6, <2>7
<1> QED
  BY Zenon, <1>5, <1>6

(* client_message on the begin of a message, at the end of a connection. *)
LEMMA CutMessage ==
  ASSUME DataTypes, NEW c \in Conns, NEW h \in Nat, ConnAt(c, h), Len(buffer[c]) > 0,
         Len(buffer[c]) < Size(sent[c][h + 1]), ClientMessage(c, Len(buffer[c]))
  PROVE  /\ \/ log' = log
            \/ \E e : Adds(c, e) /\ ~WholeOf(e, sent[c])
         /\ \/ answers' = answers
            \/ /\ answers' = [answers EXCEPT ![c] = Append(answers[c], h + 1)]
               /\ h + 1 \in 1 .. Len(sent[c]) /\ sent[c][h + 1].kind # "text"
            \/ answers' = [answers EXCEPT ![c] = Append(answers[c], STALE)]
<1> DEFINE m == sent[c][h + 1]
           b == buffer[c]
<1>1. b \in Seq(Unit) /\ Len(b) \in Nat
  BY Zenon, ConnTypes
<1>2. /\ m \in Messages /\ h + 1 \in 1 .. Len(sent[c])
      /\ \A j \in 1 .. Len(b) : j <= Size(m) => b[j] = <<h + 1, j>>
  BY Zenon, BufferBegins
<1>3. /\ m.len \in Nat /\ Size(m) \in Nat /\ (m.kind # "text" => Size(m) = m.len + Header)
  BY <1>2, MessageSize
<1>4. IsMagic(c, Len(b)) <=> Len(b) >= Magic /\ m.kind # "text"
  <2>1. Len(b) \in 1 .. Len(buffer[c])
    BY <1>1
  <2> QED
    BY Zenon, <2>1, MagicBegins
<1>5. CASE ~IsMagic(c, Len(b))
  <2>1. UNCHANGED <<log, answers>>
    BY Zenon, <1>1, <1>5, MessageCases
  <2> QED
    BY <2>1
<1>6. CASE IsMagic(c, Len(b)) /\ Len(b) < Header
  <2> DEFINE e == [conn |-> c, msg |-> 0, text |-> <<>>]
  <2>1. (log' = log \/ log' = Append(log, e)) /\ answers' = [answers EXCEPT ![c] = Append(answers[c], STALE)]
    BY Zenon, <1>1, <1>6, MessageCases
  <2>2. e \in LogEntry /\ e.conn = c /\ ~WholeOf(e, sent[c])
    BY DEF LogEntry, WholeOf
  <2> HIDE DEF e
  <2> QED
    BY Zenon, <2>1, <2>2 DEF Adds
<1>7. CASE IsMagic(c, Len(b)) /\ Len(b) >= Header
  <2> DEFINE x == SubSeq(b, Header + 1, Len(b))
             e == [conn |-> c, msg |-> h + 1, text |-> x]
  <2>1. b[Header] = <<h + 1, Header>>
    BY <1>1, <1>2, <1>3, <1>7, Bounds
  <2>2. buffer[c][Header][1] = h + 1
    BY <2>1
  <2>3. /\ log' = IF m.kind = "heartbeat" THEN log ELSE Append(log, e)
        /\ answers' = [answers EXCEPT ![c] = Append(@, h + 1)]
    <3>1. LET n == buffer[c][Header][1]
          IN  /\ log' = IF sent[c][n].kind = "heartbeat" THEN log
                        ELSE Append(log, [conn |-> c, msg |-> n, text |-> SubSeq(buffer[c], Header + 1, Len(b))])
              /\ answers' = [answers EXCEPT ![c] = Append(@, n)]
      BY Zenon, <1>1, <1>7, MessageCases
    <3> QED
      BY Zenon, <2>2, <3>1
  <2>4. x \in Seq(Unit) /\ Len(x) = Len(b) - Header /\ Len(x) < m.len
    <3>1. Len(b) < m.len + Header /\ Len(b) >= Header
      BY <1>3, <1>4, <1>7
    <3> HIDE DEF b, m
    <3>2. x \in Seq(Unit) /\ Len(x) = Len(b) - Header
      BY <1>1, <3>1, Bounds
    <3> HIDE DEF x
    <3> QED
      BY <1>1, <1>3, <3>1, <3>2, Bounds
  <2> HIDE DEF x
  <2>5. x # [i \in 1 .. m.len |-> <<h + 1, Header + i>>]
    <3> SUFFICES ASSUME x = [i \in 1 .. m.len |-> <<h + 1, Header + i>>] PROVE FALSE
      OBVIOUS
    <3>1. Len(x) = m.len
      BY <1>3
    <3> QED
      BY <1>3, <2>4, <3>1
  <2>6. e \in LogEntry /\ e.conn = c /\ e.msg = h + 1 /\ e.text = x
    BY <2>4 DEF LogEntry
  <2> HIDE DEF e
  <2>7. ~WholeOf(e, sent[c])
    BY Zenon, <2>5, <2>6 DEF WholeOf
  <2>8. log' = log \/ log' = Append(log, e)
    BY <2>3
  <2>9. \/ log' = log
        \/ \E y : Adds(c, y) /\ ~WholeOf(y, sent[c])
    BY Zenon, <2>6, <2>7, <2>8 DEF Adds
  <2> QED
    BY <1>2, <1>4, <1>7, <2>3, <2>9
<1> QED
  BY <1>1, <1>5, <1>6, <1>7, Bounds

-----------------------------------------------------------------------------
(* The steps that do not handle a message                                  *)

Inv == DataTypes /\ ControlTypes /\ HandlerInv /\ StreamInv /\ AnswerInv /\ LogInv

Live == {"new", "pending", "open"}

(* A connection whose stream is left alone, while another one may add to the log. *)
LEMMA SameConn ==
  ASSUME DataTypes, NEW c, NEW d \in Conns, ConnInv(d),
         state'[d] \in {"new", "pending"} => state[d] \in {"new", "pending"},
         state'[d] \in Live =>
           /\ state[d] \in Live /\ buffer'[d] = buffer[d] /\ wire'[d] = wire[d] /\ sent'[d] = sent[d]
           /\ peer'[d] = peer[d] /\ answers'[d] = answers[d] /\ Scanned(d)' = Scanned(d),
         log' = log \/ (c # d /\ \E e : Adds(c, e))
  PROVE  ConnInv(d)'
<1>1. ASSUME state'[d] \in {"new", "pending"} PROVE buffer'[d] = <<>>
  <2>1. state'[d] \in Live /\ state[d] \in {"new", "pending"}
    BY <1>1 DEF Live
  <2> QED
    BY Zenon, <2>1 DEF ConnInv
<1>2. ASSUME state'[d] \in Live PROVE \E h \in Nat : ConnAt(d, h)'
  <2>1. PICK h \in Nat : ConnAt(d, h)
    <3>1. state[d] \in {"new", "pending", "open"}
      BY Zenon, <1>2 DEF Live
    <3> QED
      BY Zenon, <3>1 DEF ConnInv
  <2>2. LoggedUpTo(log', d, sent[d], h)
    <3>1. LoggedUpTo(log, d, sent[d], h)
      BY Zenon, <2>1 DEF ConnAt
    <3>2. ASSUME c # d, NEW e, Adds(c, e) PROVE LoggedUpTo(log', d, sent[d], h)
      <4>1. log \in Seq(LogEntry) /\ e \in LogEntry /\ e.conn # d /\ log' = Append(log, e)
        BY Zenon, <3>2 DEF Adds, DataTypes
      <4> QED
        BY Zenon, <3>1, <4>1, EntryAdded
    <3> QED
      BY Zenon, <3>1, <3>2
  <2>3. /\ Flow(buffer[d], wire[d], sent[d], peer[d], h) /\ AnsweredUpTo(answers[d], sent[d], h)
        /\ (Scanned(d) > 0 => Scanned(d) < Size(sent[d][h + 1]))
    BY Zenon, <2>1 DEF ConnAt
  <2>4. ConnAt(d, h)'
    BY Zenon, <1>2, <2>2, <2>3 DEF ConnAt
  <2> QED
    BY Zenon, <2>4
<1> QED
  BY Zenon, <1>1, <1>2 DEF ConnInv, Live

(* An entry is one of a connection. *)
LEMMA EntryConn ==
  ASSUME NEW l \in Seq(LogEntry), NEW i \in 1 .. Len(l)
  PROVE  l[i].conn \in Conns
<1>1. l[i] \in LogEntry
  OBVIOUS
<1> QED
  BY <1>1 DEF LogEntry

(* Without new entries and messages the log stays as good as it is. *)
LEMMA SameLog ==
  ASSUME LogInv, log \in Seq(LogEntry), log' = log, sent' = sent,
         \A c \in Conns : state[c] = "closed" => state'[c] = "closed"
  PROVE  LogInv'
<1> SUFFICES ASSUME NEW i \in 1 .. Len(log)
             PROVE  \/ Complete(log, i, sent[log[i].conn])
                    \/ /\ ~WholeOf(log[i], sent[log[i].conn]) /\ state'[log[i].conn] = "closed"
                       /\ \A j \in i + 1 .. Len(log) : log[j].conn # log[i].conn
  BY Zenon DEF LogInv
<1>1. log[i].conn \in Conns
  BY EntryConn
<1> QED
  BY Zenon, <1>1 DEF LogInv

(* A new entry is whole and follows those before it, or it is the last of its connection. *)
LEMMA MoreLog ==
  ASSUME LogInv, log \in Seq(LogEntry), sent' = sent, NEW c \in Conns, NEW e, Adds(c, e),
         \A d \in Conns : state[d] = "closed" => state'[d] = "closed", state[c] # "closed",
         \/ Complete(log', Len(log) + 1, sent[c])
         \/ ~WholeOf(e, sent[c]) /\ state'[c] = "closed"
  PROVE  LogInv'
<1>1. /\ log' \in Seq(LogEntry) /\ Len(log') = Len(log) + 1 /\ log'[Len(log) + 1] = e /\ e.conn = c
      /\ \A i \in 1 .. Len(log) : log'[i] = log[i]
  BY DEF Adds
<1>2. ASSUME NEW i \in 1 .. Len(log)
      PROVE  \/ Complete(log', i, sent[log'[i].conn])
             \/ /\ ~WholeOf(log'[i], sent[log'[i].conn]) /\ state'[log'[i].conn] = "closed"
                /\ \A j \in i + 1 .. Len(log') : log'[j].conn # log'[i].conn
  <2>1. log'[i] = log[i] /\ log[i].conn \in Conns
    BY <1>1, EntryConn
  <2>2. CASE Complete(log, i, sent[log[i].conn])
    <3>1. Complete(log', i, sent[log[i].conn])
      BY Zenon, <2>2, EntryAdded DEF Adds
    <3> QED
      BY Zenon, <2>1, <3>1
  <2>3. CASE /\ ~WholeOf(log[i], sent[log[i].conn]) /\ state[log[i].conn] = "closed"
             /\ \A j \in i + 1 .. Len(log) : log[j].conn # log[i].conn
    <3>1. state'[log[i].conn] = "closed" /\ log[i].conn # c
      BY Zenon, <2>1, <2>3
    <3>2. \A j \in i + 1 .. Len(log') : (j \in i + 1 .. Len(log) /\ log'[j] = log[j]) \/ log'[j] = e
      BY <1>1
    <3>3. \A j \in i + 1 .. Len(log') : log'[j].conn # log[i].conn
      BY Zenon, <1>1, <2>3, <3>1, <3>2
    <3> QED
      BY Zenon, <2>1, <2>3, <3>1, <3>3
  <2> QED
    BY Zenon, <2>2, <2>3 DEF LogInv
<1>3. LET i == Len(log) + 1
      IN  \/ Complete(log', i, sent[log'[i].conn])
          \/ /\ ~WholeOf(log'[i], sent[log'[i].conn]) /\ state'[log'[i].conn] = "closed"
             /\ \A j \in i + 1 .. Len(log') : log'[j].conn # log'[i].conn
  <2>1. \A j \in (Len(log) + 1) + 1 .. Len(log') : FALSE
    BY <1>1
  <2> QED
    BY Zenon, <1>1, <2>1
<1>4. \A i \in 1 .. Len(log') : i \in 1 .. Len(log) \/ i = Len(log) + 1
  BY <1>1
<1> QED
  BY Zenon, <1>2, <1>3, <1>4 DEF LogInv

(* A handler that runs has a connection that is open. *)
LEMMA Running ==
  ASSUME HandlerInv, handler.step \in {"read", "parse"}
  PROVE  /\ handler \in [conn : Conns, step : {"read", "parse"}, r : 0 .. MAX, total : BOOLEAN]
         /\ handler.conn \in Conns /\ handler.r \in Nat /\ state[handler.conn] = "open"
         /\ handler.step = "parse" => handler.r <= Len(buffer[handler.conn])
<1>1. handler # Idle
  BY DEF Idle
<1> QED
  BY <1>1, Bounds DEF HandlerInv

(* A step that touches neither a stream nor the log. *)
LEMMA QuietStep ==
  ASSUME Inv, UNCHANGED <<connVars, buffer, log, answers>>, \A d \in Conns : Scanned(d)' = Scanned(d)
  PROVE  DataTypes' /\ StreamInv' /\ AnswerInv' /\ LogInv'
<1>1. /\ state' = state /\ peer' = peer /\ sent' = sent /\ wire' = wire /\ buffer' = buffer
      /\ log' = log /\ answers' = answers
  BY DEF connVars
<1>2. DataTypes'
  BY Zenon, <1>1 DEF Inv, DataTypes
<1>3. ASSUME NEW d \in Conns PROVE ConnInv(d)'
  <2>1. DataTypes /\ ConnInv(d)
    BY Zenon DEF Inv, StreamInv
  <2> QED
    BY Zenon, <1>1, <2>1, SameConn
<1>4. StreamInv'
  BY Zenon, <1>3 DEF StreamInv
<1>5. AnswerInv'
  BY Zenon, <1>1 DEF Inv, AnswerInv
<1>6. LogInv'
  <2>1. LogInv /\ log \in Seq(LogEntry)
    BY Zenon DEF Inv, DataTypes
  <2> QED
    BY Zenon, <1>1, <2>1, SameLog
<1> QED
  BY Zenon, <1>2, <1>4, <1>5, <1>6

(* What a released connection leaves. *)
LEMMA Released ==
  ASSUME DataTypes, ControlTypes, NEW S, Release(S)
  PROVE  /\ state' \in [Conns -> States] /\ wire' \in [Conns -> Seq(Unit)] /\ buffer' \in [Conns -> Seq(Unit)]
         /\ \A d \in Conns : Len(buffer'[d]) <= MAX
         /\ \A d \in Conns : d \in S => state'[d] = "closed"
         /\ \A d \in Conns : d \notin S => state'[d] = state[d] /\ wire'[d] = wire[d] /\ buffer'[d] = buffer[d]
<1>1. /\ state \in [Conns -> States] /\ wire \in [Conns -> Seq(Unit)] /\ buffer \in [Conns -> Seq(Unit)]
      /\ \A d \in Conns : Len(buffer[d]) <= MAX
  BY Zenon DEF DataTypes, ControlTypes
<1>2. \A d \in Conns : /\ state'[d] = IF d \in S THEN "closed" ELSE state[d]
                       /\ wire'[d] = IF d \in S THEN <<>> ELSE wire[d]
                       /\ buffer'[d] = IF d \in S THEN <<>> ELSE buffer[d]
  BY Zenon DEF Release
<1>3. state' \in [Conns -> States]
  BY <1>1 DEF Release, States
<1>4. <<>> \in Seq(Unit) /\ Len(<<>>) <= MAX
  BY Bounds
<1>5. wire' \in [Conns -> Seq(Unit)] /\ buffer' \in [Conns -> Seq(Unit)]
  BY <1>1, <1>4 DEF Release
<1>6. ASSUME NEW d \in Conns PROVE Len(buffer'[d]) <= MAX
  <2>1. CASE d \in S
    BY <1>2, <1>4, <2>1
  <2>2. CASE d \notin S
    BY Zenon, <1>1, <1>2, <2>2
  <2> QED
    BY <2>1, <2>2
<1> QED
  BY <1>2, <1>3, <1>5, <1>6

(* The types of what does not belong to a stream. *)
LEMMA ControlStep ==
  ASSUME Inv, [Next]_vars
  PROVE  ControlTypes'
<1>1. /\ state \in [Conns -> States] /\ peer \in [Conns -> {"open", "closed", "reset"}] /\ active \in [Conns -> BOOLEAN]
      /\ conf \in Settings /\ listening \in BOOLEAN /\ timer \in BOOLEAN /\ over \in BOOLEAN
      /\ reconfigs \in 0 .. MaxReconfigs
  BY Zenon DEF Inv, ControlTypes
<1>2. Settings \subseteq [per_addr : Nat, idle : BOOLEAN, port : BOOLEAN]
  BY Zenon, ListenerAssumption DEF ListenerAssumption
<1>3. DataTypes /\ ControlTypes
  BY Zenon DEF Inv
<1>4. ASSUME UNCHANGED serverVars, state' \in [Conns -> States],
             peer' \in [Conns -> {"open", "closed", "reset"}], active' \in [Conns -> BOOLEAN]
      PROVE  ControlTypes'
  BY Zenon, <1>1, <1>4 DEF ControlTypes, serverVars
<1>5. ASSUME NEW c \in Conns PROVE /\ [active EXCEPT ![c] = TRUE] \in [Conns -> BOOLEAN]
                                   /\ [active EXCEPT ![c] = FALSE] \in [Conns -> BOOLEAN]
  BY <1>1
<1>6. ASSUME NEW c \in Conns, NEW v \in States PROVE [state EXCEPT ![c] = v] \in [Conns -> States]
  BY <1>1
<1>7. ASSUME NEW c \in Conns, NEW v \in {"open", "closed", "reset"}
      PROVE [peer EXCEPT ![c] = v] \in [Conns -> {"open", "closed", "reset"}]
  BY <1>1
<1>8. {"pending", "open", "refused", "closed"} \subseteq States /\ {"closed", "reset"} \subseteq {"open", "closed", "reset"}
  BY DEF States
<1>9. ASSUME NEW c \in Conns, ClientHandler(c) PROVE ControlTypes'
  BY Zenon, <1>1, <1>4, <1>5, <1>9 DEF ClientHandler, connVars
<1>10. ASSUME NEW c \in Conns, ReadMore(c) PROVE ControlTypes'
  BY Zenon, <1>1, <1>4, <1>10 DEF ReadMore
<1>11. ASSUME NEW c \in Conns, ReadNothingMore(c) PROVE ControlTypes'
  BY Zenon, <1>1, <1>4, <1>11 DEF ReadNothingMore, connVars
<1>12. ASSUME NEW c \in Conns, ReadEnd(c) PROVE ControlTypes'
  <2>1. state' \in [Conns -> States]
    BY Zenon, <1>3, <1>12, Released DEF ReadEnd
  <2> QED
    BY Zenon, <1>1, <1>4, <1>5, <1>12, <2>1 DEF ReadEnd
<1>13. ASSUME NEW c \in Conns, MoreFramed(c) \/ MoreText(c) PROVE ControlTypes'
  <2>1. UNCHANGED <<connVars, active, serverVars>>
    BY Zenon, <1>13 DEF MoreFramed, MoreText, WaitForMore, Consume
  <2> QED
    BY Zenon, <1>1, <1>4, <2>1 DEF connVars
<1>14. ASSUME NEW c \in Conns, ListenHandler(c) PROVE ControlTypes'
  <2>1. state' \in [Conns -> States] /\ active' \in [Conns -> BOOLEAN]
    <3>1. "refused" \in States /\ "open" \in States
      BY DEF States
    <3>2. \/ state' = [state EXCEPT ![c] = "refused"] /\ active' = active
          \/ state' = [state EXCEPT ![c] = "open"] /\ active' = [active EXCEPT ![c] = TRUE]
      BY <1>14 DEF ListenHandler
    <3> QED
      BY Zenon, <1>1, <1>5, <1>6, <3>1, <3>2
  <2> QED
    BY Zenon, <1>1, <1>4, <1>14, <2>1 DEF ListenHandler
<1>15. ASSUME PeriodicHandler PROVE ControlTypes'
  <2>1. state' \in [Conns -> States]
    BY Zenon, <1>3, <1>15, Released DEF PeriodicHandler
  <2>2. active' \in [Conns -> BOOLEAN]
    BY <1>15 DEF PeriodicHandler
  <2> QED
    BY Zenon, <1>1, <1>4, <1>15, <2>1, <2>2 DEF PeriodicHandler
<1>16. ASSUME Reconfigure PROVE ControlTypes'
  <2>1. PICK new \in Settings : /\ conf' = new
                                /\ timer' = IF new.idle # conf.idle THEN PeriodicReconfigure(conf, new) ELSE timer
    BY Zenon, <1>16 DEF Reconfigure
  <2>2. timer' \in BOOLEAN
    <3>1. PeriodicReconfigure(conf, new) \in BOOLEAN
      BY Zenon DEF PeriodicReconfigure
    <3> QED
      BY Zenon, <1>1, <2>1, <3>1
  <2>3. reconfigs' \in 0 .. MaxReconfigs
    BY <1>1, <1>16, Bounds DEF Reconfigure
  <2>4. state' = state /\ peer' = peer /\ active' = active /\ listening' = listening /\ over' = over
    BY Zenon, <1>16 DEF Reconfigure, connVars
  <2> QED
    BY Zenon, <1>1, <2>1, <2>2, <2>3, <2>4 DEF ControlTypes
<1>17. ASSUME Uninit PROVE ControlTypes'
  <2>1. state' \in [Conns -> States]
    <3>1. Release(Chain) \/ state' = state
      BY Zenon, <1>17 DEF Uninit
    <3> QED
      BY Zenon, <1>1, <1>3, <3>1, Released
  <2>2. listening' \in BOOLEAN /\ timer' \in BOOLEAN /\ over' \in BOOLEAN
    BY Zenon, <1>1, <1>17 DEF Uninit
  <2>3. peer' = peer /\ active' = active /\ conf' = conf /\ reconfigs' = reconfigs
    BY Zenon, <1>17 DEF Uninit
  <2> QED
    BY Zenon, <1>1, <2>1, <2>2, <2>3 DEF ControlTypes
<1>18. ASSUME NEW c \in Conns, Connect(c) PROVE ControlTypes'
  <2>1. state' \in [Conns -> States]
    BY <1>6, <1>8, <1>18 DEF Connect
  <2> QED
    BY Zenon, <1>1, <1>4, <1>18, <2>1 DEF Connect
<1>19. ASSUME NEW c \in Conns, ClientSends(c) PROVE ControlTypes'
  BY Zenon, <1>1, <1>4, <1>19 DEF ClientSends
<1>20. ASSUME NEW c \in Conns, ClientCloses(c) \/ ConnectionBreaks(c) PROVE ControlTypes'
  <2>1. peer' \in [Conns -> {"open", "closed", "reset"}]
    BY <1>7, <1>8, <1>20 DEF ClientCloses, ConnectionBreaks
  <2> QED
    BY Zenon, <1>1, <1>4, <1>20, <2>1 DEF ClientCloses, ConnectionBreaks
<1>21. ASSUME UNCHANGED vars PROVE ControlTypes'
  BY Zenon, <1>1, <1>4, <1>21 DEF vars, connVars
<1> QED
  BY Zenon, <1>9, <1>10, <1>11, <1>12, <1>13, <1>14, <1>15, <1>16, <1>17, <1>18, <1>19, <1>20, <1>21 DEF Next

(* auditd_tcp_client_handler begins, ends or waits, and auditd_tcp_listen_reconfigure. *)
LEMMA QuietActions ==
  ASSUME Inv, ControlTypes',
         (\E c \in Conns : ClientHandler(c) \/ ReadNothingMore(c)) \/ Reconfigure \/ UNCHANGED vars
  PROVE  Inv'
<1>1. UNCHANGED <<connVars, buffer, log, answers>>
  BY Zenon DEF ClientHandler, ReadNothingMore, Reconfigure, vars
<1>2. buffer' = buffer /\ state' = state
  BY <1>1 DEF connVars
<1>3. HandlerInv
  BY Zenon DEF Inv
<1>4. ASSUME NEW c \in Conns, ClientHandler(c) PROVE Inv'
  <2>1. handler.step = "idle" /\ handler'.step = "read"
    BY <1>4 DEF ClientHandler, Idle
  <2>2. \A d \in Conns : Scanned(d)' = Scanned(d)
    BY <1>2, <2>1 DEF Scanned
  <2>3. /\ handler' \in [conn : Conns, step : {"read", "parse"}, r : 0 .. MAX, total : BOOLEAN]
        /\ handler'.conn = c
    BY <1>4, Bounds DEF ClientHandler
  <2>4. state[c] = "open"
    BY Zenon, <1>4 DEF ClientHandler, Chain
  <2>5. HandlerInv'
    BY <1>2, <2>1, <2>3, <2>4 DEF HandlerInv
  <2> QED
    BY Zenon, <1>1, <2>2, <2>5, QuietStep DEF Inv
<1>5. ASSUME NEW c \in Conns, ReadNothingMore(c) PROVE Inv'
  <2>1. handler.step = "read" /\ handler' = Idle
    BY Zenon, <1>5 DEF ReadNothingMore, ReadsNothing
  <2>2. \A d \in Conns : Scanned(d)' = Scanned(d)
    BY <1>2, <2>1 DEF Scanned, Idle
  <2>3. HandlerInv'
    BY Zenon, <2>1 DEF HandlerInv
  <2> QED
    BY Zenon, <1>1, <2>2, <2>3, QuietStep DEF Inv
<1>6. CASE Reconfigure \/ UNCHANGED vars
  <2>1. handler' = handler
    BY <1>6 DEF Reconfigure, vars
  <2>2. \A d \in Conns : Scanned(d)' = Scanned(d)
    BY <1>2, <2>1 DEF Scanned
  <2>3. HandlerInv'
    BY Zenon, <1>2, <1>3, <2>1 DEF HandlerInv
  <2> QED
    BY Zenon, <1>1, <2>2, <2>3, QuietStep DEF Inv
<1> QED
  BY Zenon, <1>4, <1>5, <1>6

(* read_more with data: the units go from the wire to the buffer. *)
LEMMA ReadMoreStep ==
  ASSUME Inv, ControlTypes', NEW c \in Conns, ReadMore(c)
  PROVE  Inv'
<1> USE DEF Inv
<1>1. /\ handler.conn = c /\ handler.step = "read" /\ state' = state /\ peer' = peer /\ sent' = sent
      /\ log' = log /\ answers' = answers
  BY Zenon DEF ReadMore
<1>2. PICK r \in 1 .. Len(wire[c]) :
        /\ r <= Room(c)
        /\ buffer' = [buffer EXCEPT ![c] = @ \o SubSeq(wire[c], 1, r)]
        /\ wire' = [wire EXCEPT ![c] = SubSeq(@, r + 1, Len(@))]
        /\ handler' = [handler EXCEPT !.step = "parse", !.r = r, !.total = TRUE]
  BY Zenon DEF ReadMore
<1> DEFINE b2 == buffer[c] \o SubSeq(wire[c], 1, r)
           w2 == SubSeq(wire[c], r + 1, Len(wire[c]))
<1>3. /\ buffer[c] \in Seq(Unit) /\ wire[c] \in Seq(Unit) /\ sent[c] \in Seq(Messages)
      /\ Len(buffer[c]) \in Nat /\ Len(wire[c]) \in Nat /\ Len(buffer[c]) <= MAX
  BY Zenon, ConnTypes
<1>4. b2 \in Seq(Unit) /\ w2 \in Seq(Unit) /\ Len(b2) = Len(buffer[c]) + r /\ Len(b2) <= MAX /\ r <= MAX
  <2>1. b2 \in Seq(Unit) /\ w2 \in Seq(Unit) /\ Len(b2) = Len(buffer[c]) + r
    BY <1>3
  <2>2. r <= MAX - Len(buffer[c])
    BY Zenon, <1>2 DEF Room
  <2> HIDE DEF b2, w2
  <2> QED
    BY <1>3, <2>1, <2>2, Bounds
<1>5. /\ buffer \in [Conns -> Seq(Unit)] /\ wire \in [Conns -> Seq(Unit)]
      /\ buffer' = [buffer EXCEPT ![c] = b2] /\ wire' = [wire EXCEPT ![c] = w2]
  BY Zenon, <1>2 DEF DataTypes
<1> HIDE DEF b2, w2
<1>6. /\ buffer' \in [Conns -> Seq(Unit)] /\ wire' \in [Conns -> Seq(Unit)] /\ buffer'[c] = b2 /\ wire'[c] = w2
      /\ \A d \in Conns : d # c => buffer'[d] = buffer[d] /\ wire'[d] = wire[d]
  BY <1>4, <1>5
<1>7. DataTypes'
  <2>1. \A d \in Conns : Len(buffer'[d]) <= MAX
    BY Zenon, <1>4, <1>6 DEF DataTypes
  <2> QED
    BY Zenon, <1>1, <1>6, <2>1 DEF DataTypes
<1>8. /\ handler' \in [conn : Conns, step : {"read", "parse"}, r : 0 .. MAX, total : BOOLEAN]
      /\ handler'.conn = c /\ handler'.step = "parse" /\ handler'.r = r /\ state[c] = "open"
  <2>1. /\ handler \in [conn : Conns, step : {"read", "parse"}, r : 0 .. MAX, total : BOOLEAN]
        /\ state[handler.conn] = "open"
    BY <1>1, Running
  <2>2. r \in 0 .. MAX /\ handler' = [handler EXCEPT !.step = "parse", !.r = r, !.total = TRUE]
    BY <1>2, <1>3, <1>4, Bounds
  <2> QED
    BY <1>1, <2>1, <2>2
<1>9. HandlerInv'
  BY <1>1, <1>3, <1>4, <1>6, <1>8 DEF HandlerInv
<1>10. ConnInv(c)'
  <2>1. PICK h \in Nat : ConnAt(c, h)
    BY <1>8 DEF StreamInv, ConnInv
  <2>2. Flow(buffer[c], wire[c], sent[c], peer[c], h)
    BY Zenon, <2>1 DEF ConnAt
  <2>3. Flow(b2, w2, sent[c], peer[c], h)
    BY <1>3, <2>2, ReadFlow DEF b2, w2
  <2>4. Scanned(c)' = Len(buffer[c]) /\ Scanned(c) = Len(buffer[c])
    BY <1>1, <1>3, <1>4, <1>6, <1>8 DEF Scanned
  <2>5. ConnAt(c, h)'
    BY Zenon, <1>1, <1>6, <2>1, <2>3, <2>4 DEF ConnAt
  <2> QED
    BY <1>1, <1>8, <2>5 DEF ConnInv
<1>11. ASSUME NEW d \in Conns, d # c PROVE ConnInv(d)'
  <2>1. Scanned(d)' = Scanned(d) /\ ConnInv(d)
    BY <1>1, <1>6, <1>8, <1>11 DEF Scanned, StreamInv
  <2> QED
    BY Zenon, <1>1, <1>6, <1>11, <2>1, SameConn
<1>12. StreamInv'
  BY Zenon, <1>10, <1>11 DEF StreamInv
<1>13. AnswerInv'
  BY Zenon, <1>1 DEF AnswerInv
<1>14. LogInv'
  BY Zenon, <1>1, SameLog DEF DataTypes
<1> QED
  BY Zenon, <1>7, <1>9, <1>12, <1>13, <1>14

(* more_messages waits: what is in the buffer was scanned. *)
LEMMA WaitStep ==
  ASSUME Inv, ControlTypes', NEW c \in Conns, NEW h \in Nat, ConnAt(c, h), Parsing(c), WaitForMore(c),
         Len(buffer[c]) > 0 => Len(buffer[c]) < Size(sent[c][h + 1])
  PROVE  Inv'
<1> USE DEF Inv
<1>1. /\ state' = state /\ peer' = peer /\ sent' = sent /\ wire' = wire /\ buffer' = buffer
      /\ log' = log /\ answers' = answers /\ handler' = Idle /\ handler.conn = c
  BY Zenon DEF WaitForMore, Parsing, connVars
<1>2. DataTypes'
  BY Zenon, <1>1 DEF DataTypes
<1>3. HandlerInv'
  BY Zenon, <1>1 DEF HandlerInv
<1>4. ConnInv(c)'
  <2>1. Scanned(c)' = Len(buffer[c])
    BY <1>1 DEF Scanned, Idle
  <2>2. ConnAt(c, h)'
    BY Zenon, <1>1, <2>1 DEF ConnAt
  <2> QED
    BY Zenon, <1>1, <2>2 DEF ConnInv, StreamInv
<1>5. ASSUME NEW d \in Conns, d # c PROVE ConnInv(d)'
  <2>1. Scanned(d)' = Scanned(d) /\ ConnInv(d)
    BY <1>1, <1>5 DEF Scanned, StreamInv, Idle
  <2> QED
    BY Zenon, <1>1, <2>1, SameConn
<1>6. StreamInv'
  BY Zenon, <1>4, <1>5 DEF StreamInv
<1>7. AnswerInv'
  BY Zenon, <1>1 DEF AnswerInv
<1>8. LogInv'
  BY Zenon, <1>1, SameLog DEF DataTypes
<1> QED
  BY Zenon, <1>2, <1>3, <1>6, <1>7, <1>8

(* A complete message is acknowledged and logged in its turn. *)
LEMMA HandledMessage ==
  ASSUME DataTypes, AnswerInv, NEW c \in Conns, state[c] # "closed", NEW h \in Nat, ConnAt(c, h), Len(buffer[c]) > 0,
         Size(sent[c][h + 1]) <= Len(buffer[c]), ClientMessage(c, Size(sent[c][h + 1]))
  PROVE  /\ answers' \in [Conns -> Seq(Nat)] /\ \A d \in Conns : d # c => answers'[d] = answers[d]
         /\ AnsGood(answers'[c], sent[c]) /\ NoStale(answers'[c]) /\ AnsweredUpTo(answers'[c], sent[c], h + 1)
         /\ LoggedUpTo(log', c, sent[c], h + 1)
         /\ log' = log \/ \E e : Adds(c, e) /\ Complete(log', Len(log) + 1, sent[c])
<1> DEFINE m == sent[c][h + 1]
           s == sent[c]
<1>1. answers \in [Conns -> Seq(Nat)] /\ s \in Seq(Messages) /\ answers[c] \in Seq(Nat) /\ log \in Seq(LogEntry)
      /\ Len(s) <= MaxMessages
  BY Zenon, ConnTypes DEF DataTypes
<1>2. h + 1 \in 1 .. Len(s) /\ m \in Messages
  BY Zenon, BufferBegins
<1>3. m.kind \in {"event", "heartbeat", "text"}
  BY Zenon, <1>2, MessageSize
<1>4. AnsGood(answers[c], s) /\ NoStale(answers[c]) /\ AnsweredUpTo(answers[c], s, h) /\ LoggedUpTo(log, c, s, h)
  BY Zenon DEF AnswerInv, ConnAt
<1>5. /\ m.kind = "text" => log' = log /\ answers' = answers
      /\ m.kind # "text" => answers' = [answers EXCEPT ![c] = Append(answers[c], h + 1)]
      /\ m.kind = "heartbeat" => log' = log
      /\ m.kind = "event" => \E e : Adds(c, e) /\ e.msg = h + 1 /\ WholeOf(e, s)
  BY Zenon, WholeMessage
<1>6. /\ m.kind = "text" => \A a : AnsweredUpTo(a, s, h) => AnsweredUpTo(a, s, h + 1)
      /\ m.kind # "event" => \A l, d : LoggedUpTo(l, d, s, h) => LoggedUpTo(l, d, s, h + 1)
  BY Zenon, <1>1, Skipped
<1>7. CASE m.kind = "text"
  <2>1. log' = log /\ answers' = answers /\ m.kind # "event"
    BY <1>5, <1>7
  <2>2. AnsweredUpTo(answers[c], s, h + 1) /\ LoggedUpTo(log, c, s, h + 1)
    BY Zenon, <1>4, <1>6, <1>7, <2>1
  <2> QED
    BY Zenon, <1>1, <1>4, <2>1, <2>2
<1>8. CASE m.kind # "text"
  <2>1. answers' = [answers EXCEPT ![c] = Append(answers[c], h + 1)]
    BY Zenon, <1>5, <1>8
  <2>2. Append(answers[c], h + 1) \in Seq(Nat)
    BY <1>1
  <2>3. /\ answers' \in [Conns -> Seq(Nat)] /\ answers'[c] = Append(answers[c], h + 1)
        /\ \A d \in Conns : d # c => answers'[d] = answers[d]
    BY <1>1, <2>1, <2>2
  <2>4. AnsGood(answers'[c], s) /\ NoStale(answers'[c]) /\ AnsweredUpTo(answers'[c], s, h + 1)
    BY Zenon, <1>1, <1>2, <1>4, <1>8, <2>3, AnswerNext
  <2>5. CASE m.kind = "event"
    <3>1. PICK e : Adds(c, e) /\ e.msg = h + 1 /\ WholeOf(e, s)
      BY Zenon, <1>5, <2>5
    <3>2. log' = Append(log, e) /\ e \in LogEntry /\ e.conn = c
      BY Zenon, <3>1 DEF Adds
    <3>3. LoggedUpTo(log', c, s, h + 1) /\ Complete(log', Len(log) + 1, s)
      BY Zenon, <1>1, <1>2, <1>4, <2>5, <3>1, <3>2, EntryAdded
    <3> QED
      BY Zenon, <2>3, <2>4, <3>1, <3>3
  <2>6. CASE m.kind # "event"
    <3>1. log' = log
      BY <1>3, <1>5, <1>8, <2>6
    <3> QED
      BY Zenon, <1>4, <1>6, <2>3, <2>4, <2>6, <3>1
  <2> QED
    BY Zenon, <2>5, <2>6
<1> QED
  BY Zenon, <1>7, <1>8

(* more_messages handles a complete message and moves the rest to the front. *)
LEMMA ConsumeStep ==
  ASSUME Inv, ControlTypes', NEW c \in Conns, NEW h \in Nat, ConnAt(c, h), Parsing(c), Len(buffer[c]) > 0,
         Size(sent[c][h + 1]) <= Len(buffer[c]), Consume(c, Size(sent[c][h + 1]))
  PROVE  Inv'
<1> USE DEF Inv
<1> DEFINE k == Size(sent[c][h + 1])
           b == buffer[c]
           b2 == SubSeq(b, k + 1, Len(b))
<1>1. /\ state' = state /\ peer' = peer /\ sent' = sent /\ wire' = wire
      /\ handler.conn = c /\ handler.step = "parse" /\ ClientMessage(c, k)
      /\ buffer' = [buffer EXCEPT ![c] = b2]
      /\ handler' = IF Len(b) > k THEN [handler EXCEPT !.r = Len(b) - k] ELSE [handler EXCEPT !.step = "read", !.r = 0]
  BY Zenon DEF Consume, Parsing, connVars
<1>2. /\ b \in Seq(Unit) /\ wire[c] \in Seq(Unit) /\ sent[c] \in Seq(Messages)
      /\ Len(b) \in Nat /\ Len(wire[c]) \in Nat /\ Len(b) <= MAX
  BY Zenon, ConnTypes
<1>3. k \in Nat /\ k >= 1 /\ k <= Len(b) /\ h + 1 \in 1 .. Len(sent[c])
  <2>1. sent[c][h + 1] \in Messages /\ h + 1 \in 1 .. Len(sent[c])
    BY Zenon, BufferBegins
  <2> QED
    BY Zenon, <2>1, MessageSize
<1>4. /\ answers' \in [Conns -> Seq(Nat)] /\ \A d \in Conns : d # c => answers'[d] = answers[d]
      /\ AnsGood(answers'[c], sent[c]) /\ NoStale(answers'[c]) /\ AnsweredUpTo(answers'[c], sent[c], h + 1)
      /\ LoggedUpTo(log', c, sent[c], h + 1)
      /\ log' = log \/ \E e : Adds(c, e) /\ Complete(log', Len(log) + 1, sent[c])
  <2>1. state[c] # "closed"
    BY <1>1, Running
  <2> QED
    BY Zenon, <1>1, <2>1, HandledMessage
<1>5. Flow(b2, wire[c], sent[c], peer[c], h + 1)
  <2>1. Flow(b, wire[c], sent[c], peer[c], h)
    BY Zenon DEF ConnAt
  <2>2. Rest(b, wire[c]) > 0
    <3> HIDE DEF b
    <3> QED
      BY <1>2, <1>3 DEF Rest
  <2> QED
    BY Zenon, <1>2, <2>1, <2>2, ConsumeFlow
<1> HIDE DEF k, b
<1>6. b2 \in Seq(Unit) /\ Len(b2) = Len(b) - k
  BY <1>2, <1>3
<1> HIDE DEF b2
<1>7. /\ buffer' \in [Conns -> Seq(Unit)] /\ buffer'[c] = b2
      /\ \A d \in Conns : d # c => buffer'[d] = buffer[d]
  <2>1. buffer \in [Conns -> Seq(Unit)]
    BY Zenon DEF DataTypes
  <2> QED
    BY <1>1, <1>6, <2>1
<1>8. log' \in Seq(LogEntry)
  <2>1. log \in Seq(LogEntry)
    BY Zenon DEF DataTypes
  <2>2. ASSUME NEW e, Adds(c, e) PROVE log' \in Seq(LogEntry)
    BY <2>1, <2>2 DEF Adds
  <2> QED
    BY Zenon, <1>4, <2>1, <2>2
<1>9. DataTypes'
  <2>1. Len(b2) <= MAX
    BY <1>2, <1>3, <1>6, Bounds
  <2>2. \A d \in Conns : Len(buffer'[d]) <= MAX
    BY Zenon, <1>7, <2>1 DEF DataTypes
  <2> QED
    BY Zenon, <1>1, <1>4, <1>7, <1>8, <2>2 DEF DataTypes
<1>10. /\ handler' \in [conn : Conns, step : {"read", "parse"}, r : 0 .. MAX, total : BOOLEAN]
       /\ handler'.conn = c /\ state[c] = "open"
       /\ \/ handler'.step = "parse" /\ handler'.r = Len(b) - k
          \/ handler'.step = "read" /\ Len(b) = k
  <2>1. /\ handler \in [conn : Conns, step : {"read", "parse"}, r : 0 .. MAX, total : BOOLEAN]
        /\ state[handler.conn] = "open"
    BY <1>1, Running
  <2>2. Len(b) - k \in 0 .. MAX /\ 0 \in 0 .. MAX
    BY <1>2, <1>3, Bounds
  <2>3. CASE Len(b) > k
    BY <1>1, <2>1, <2>2, <2>3
  <2>4. CASE ~ (Len(b) > k)
    <3>1. Len(b) = k
      BY <1>2, <1>3, <2>4
    <3> QED
      BY <1>1, <2>1, <2>2, <2>4, <3>1
  <2> QED
    BY <2>3, <2>4
<1>11. HandlerInv'
  BY <1>1, <1>2, <1>3, <1>6, <1>7, <1>10 DEF HandlerInv
<1>12. ConnInv(c)'
  <2>1. Scanned(c)' = 0
    BY <1>2, <1>3, <1>6, <1>7, <1>10 DEF Scanned
  <2>2. ~ (Scanned(c)' > 0)
    BY <2>1
  <2>3. ConnAt(c, h + 1)'
    BY Zenon, <1>1, <1>4, <1>5, <1>7, <2>2 DEF ConnAt
  <2>4. h + 1 \in Nat /\ state'[c] \notin {"new", "pending"}
    BY <1>1, <1>10
  <2> QED
    BY Zenon, <2>3, <2>4 DEF ConnInv
<1>13. ASSUME NEW d \in Conns, d # c PROVE ConnInv(d)'
  <2>1. Scanned(d)' = Scanned(d) /\ ConnInv(d)
    BY <1>1, <1>7, <1>10, <1>13 DEF Scanned, StreamInv
  <2> QED
    BY Zenon, <1>1, <1>4, <1>7, <1>13, <2>1, SameConn
<1>14. StreamInv'
  BY Zenon, <1>12, <1>13 DEF StreamInv
<1>15. AnswerInv'
  BY Zenon, <1>1, <1>4 DEF AnswerInv
<1>16. LogInv'
  <2>1. LogInv /\ log \in Seq(LogEntry) /\ state[c] # "closed"
    BY <1>10 DEF DataTypes
  <2> QED
    BY Zenon, <1>1, <1>4, <2>1, SameLog, MoreLog
<1> QED
  BY Zenon, <1>9, <1>11, <1>14, <1>15, <1>16

(* more_messages *)
LEMMA ParseActions ==
  ASSUME Inv, ControlTypes', NEW c \in Conns, MoreFramed(c) \/ MoreText(c)
  PROVE  Inv'
<1>1. Parsing(c)
  BY Zenon DEF MoreFramed, MoreText
<1>2. state[c] = "open"
  <2>1. handler.conn = c /\ handler.step \in {"read", "parse"}
    BY <1>1 DEF Parsing
  <2> QED
    BY <2>1, Running DEF Inv
<1>3. PICK h \in Nat : ConnAt(c, h)
  BY <1>2 DEF Inv, StreamInv, ConnInv
<1>4. \/ WaitForMore(c) /\ (Len(buffer[c]) > 0 => Len(buffer[c]) < Size(sent[c][h + 1]))
      \/ /\ Len(buffer[c]) > 0 /\ Size(sent[c][h + 1]) <= Len(buffer[c])
         /\ Consume(c, Size(sent[c][h + 1]))
  BY Zenon, <1>3, ParseStep DEF Inv
<1> QED
  BY Zenon, <1>1, <1>3, <1>4, WaitStep, ConsumeStep

(* The end of a connection: a message that was begun may leave a cut entry, the last one. *)
LEMMA ReadEndStep ==
  ASSUME Inv, ControlTypes', NEW c \in Conns, ReadEnd(c)
  PROVE  Inv'
<1> USE DEF Inv
<1>1. /\ peer' = peer /\ sent' = sent /\ handler' = Idle /\ handler.conn = c /\ handler.step = "read"
      /\ Release({c})
      /\ IF buffer[c] # <<>> THEN ClientMessage(c, Len(buffer[c])) ELSE UNCHANGED <<log, answers>>
  BY Zenon DEF ReadEnd, ReadsNothing
<1>2. state[c] = "open"
  BY <1>1, Running
<1>3. PICK h \in Nat : ConnAt(c, h)
  BY <1>2 DEF StreamInv, ConnInv
<1>4. /\ answers' \in [Conns -> Seq(Nat)] /\ \A d \in Conns : d # c => answers'[d] = answers[d]
      /\ AnsGood(answers'[c], sent[c])
      /\ log' = log \/ \E e : Adds(c, e) /\ ~WholeOf(e, sent[c])
  <2>1. /\ answers \in [Conns -> Seq(Nat)] /\ answers[c] \in Seq(Nat) /\ sent[c] \in Seq(Messages)
        /\ buffer[c] \in Seq(Unit) /\ Len(buffer[c]) \in Nat /\ Len(sent[c]) <= MaxMessages
    BY Zenon, ConnTypes DEF DataTypes
  <2>2. AnsGood(answers[c], sent[c]) /\ NoStale(answers[c])
    <3>1. state[c] # "closed"
      BY <1>2
    <3> QED
      BY Zenon, <3>1 DEF AnswerInv
  <2>3. CASE buffer[c] = <<>>
    <3>1. log' = log /\ answers' = answers
      BY <1>1, <2>3
    <3> QED
      BY Zenon, <2>1, <2>2, <3>1
  <2>4. CASE buffer[c] # <<>>
    <3>1. Len(buffer[c]) > 0
      BY <2>1, <2>4
    <3>2. Scanned(c) = Len(buffer[c])
      BY <1>1 DEF Scanned
    <3>3. Len(buffer[c]) < Size(sent[c][h + 1]) /\ AnsweredUpTo(answers[c], sent[c], h)
      BY Zenon, <1>3, <3>1, <3>2 DEF ConnAt
    <3>4. /\ log' = log \/ \E e : Adds(c, e) /\ ~WholeOf(e, sent[c])
          /\ \/ answers' = answers
             \/ /\ answers' = [answers EXCEPT ![c] = Append(answers[c], h + 1)]
                /\ h + 1 \in 1 .. Len(sent[c]) /\ sent[c][h + 1].kind # "text"
             \/ answers' = [answers EXCEPT ![c] = Append(answers[c], STALE)]
      BY Zenon, <1>1, <1>3, <2>4, <3>1, <3>3, CutMessage
    <3>5. CASE answers' = answers
      BY Zenon, <2>1, <2>2, <3>4, <3>5
    <3>6. CASE /\ answers' = [answers EXCEPT ![c] = Append(answers[c], h + 1)]
               /\ h + 1 \in 1 .. Len(sent[c]) /\ sent[c][h + 1].kind # "text"
      <4>1. Append(answers[c], h + 1) \in Seq(Nat)
        BY <2>1
      <4>2. /\ answers' \in [Conns -> Seq(Nat)] /\ answers'[c] = Append(answers[c], h + 1)
            /\ \A d \in Conns : d # c => answers'[d] = answers[d]
        BY <2>1, <3>6, <4>1
      <4>3. AnsGood(answers'[c], sent[c])
        BY Zenon, <2>1, <2>2, <3>3, <3>6, <4>2, AnswerNext
      <4> QED
        BY Zenon, <3>4, <4>2, <4>3
    <3>7. CASE answers' = [answers EXCEPT ![c] = Append(answers[c], STALE)]
      <4>1. Append(answers[c], STALE) \in Seq(Nat) /\ AnsGood(Append(answers[c], STALE), sent[c])
        BY Zenon, <2>1, <2>2, <3>3, AnswerLast
      <4>2. /\ answers' \in [Conns -> Seq(Nat)] /\ answers'[c] = Append(answers[c], STALE)
            /\ \A d \in Conns : d # c => answers'[d] = answers[d]
        BY <2>1, <3>7, <4>1
      <4> QED
        BY Zenon, <3>4, <4>1, <4>2
    <3> QED
      BY Zenon, <3>4, <3>5, <3>6, <3>7
  <2> QED
    BY Zenon, <2>3, <2>4
<1>5. /\ wire' \in [Conns -> Seq(Unit)] /\ buffer' \in [Conns -> Seq(Unit)]
      /\ (\A d \in Conns : Len(buffer'[d]) <= MAX) /\ state'[c] = "closed"
      /\ \A d \in Conns : d # c => state'[d] = state[d] /\ wire'[d] = wire[d] /\ buffer'[d] = buffer[d]
  <2>1. c \in {c} /\ \A d \in Conns : d # c => d \notin {c}
    OBVIOUS
  <2> QED
    BY Zenon, <1>1, <2>1, Released
<1>6. log' \in Seq(LogEntry)
  <2>1. log \in Seq(LogEntry)
    BY Zenon DEF DataTypes
  <2>2. ASSUME NEW e, Adds(c, e) PROVE log' \in Seq(LogEntry)
    BY <2>1, <2>2 DEF Adds
  <2> QED
    BY Zenon, <1>4, <2>1, <2>2
<1>7. DataTypes'
  BY Zenon, <1>1, <1>4, <1>5, <1>6 DEF DataTypes
<1>8. HandlerInv'
  BY Zenon, <1>1 DEF HandlerInv
<1>9. ConnInv(c)'
  BY <1>5 DEF ConnInv
<1>10. ASSUME NEW d \in Conns, d # c PROVE ConnInv(d)'
  <2>1. Scanned(d)' = Scanned(d) /\ ConnInv(d)
    BY <1>1, <1>5, <1>10 DEF Scanned, StreamInv, Idle
  <2> QED
    BY Zenon, <1>1, <1>4, <1>5, <1>10, <2>1, SameConn
<1>11. StreamInv'
  BY Zenon, <1>9, <1>10 DEF StreamInv
<1>12. AnswerInv'
  BY Zenon, <1>1, <1>4, <1>5 DEF AnswerInv
<1>13. LogInv'
  <2>1. LogInv /\ log \in Seq(LogEntry) /\ state[c] # "closed"
    BY <1>2 DEF DataTypes
  <2>2. \A d \in Conns : state[d] = "closed" => state'[d] = "closed"
    BY Zenon, <1>5
  <2> QED
    BY Zenon, <1>1, <1>4, <1>5, <2>1, <2>2, SameLog, MoreLog
<1> QED
  BY Zenon, <1>7, <1>8, <1>11, <1>12, <1>13

(* Connections come and go: those that stay keep their stream. *)
LEMMA ConnectionStep ==
  ASSUME Inv, ControlTypes', HandlerInv', handler' = handler, sent' = sent, peer' = peer, log' = log,
         wire' \in [Conns -> Seq(Unit)], buffer' \in [Conns -> Seq(Unit)], answers' \in [Conns -> Seq(Nat)],
         \A d \in Conns : Len(buffer'[d]) <= MAX,
         \A d \in Conns : state[d] = "closed" => state'[d] = "closed",
         \A d \in Conns : state'[d] \in {"new", "pending"} => state[d] \in {"new", "pending"},
         \A d \in Conns : state'[d] \in Live =>
           state[d] \in Live /\ buffer'[d] = buffer[d] /\ wire'[d] = wire[d] /\ answers'[d] = answers[d],
         \A d \in Conns : AnsGood(answers'[d], sent[d]) /\ (state'[d] = "closed" \/ NoStale(answers'[d]))
  PROVE  Inv'
<1> USE DEF Inv
<1>1. log' \in Seq(LogEntry) /\ log \in Seq(LogEntry)
  BY Zenon DEF DataTypes
<1>2. DataTypes'
  BY Zenon, <1>1 DEF DataTypes
<1>3. ASSUME NEW d \in Conns PROVE ConnInv(d)'
  <2>1. buffer'[d] = buffer[d] => Scanned(d)' = Scanned(d)
    BY Zenon DEF Scanned
  <2>2. ConnInv(d)
    BY Zenon DEF StreamInv
  <2> QED
    BY Zenon, <2>1, <2>2, SameConn
<1>4. StreamInv'
  BY Zenon, <1>3 DEF StreamInv
<1>5. AnswerInv'
  BY Zenon DEF AnswerInv
<1>6. LogInv'
  BY Zenon, <1>1, SameLog
<1> QED
  BY Zenon, <1>2, <1>4, <1>5, <1>6

(* Nothing but states changed, in the ways auditd_tcp_listen_handler and a client change them. *)
LEMMA ListenStep ==
  ASSUME Inv, ControlTypes', NEW c \in Conns, ListenHandler(c) \/ Connect(c)
  PROVE  Inv'
<1> USE DEF Inv
<1>1. /\ handler' = handler /\ sent' = sent /\ peer' = peer /\ log' = log /\ wire' = wire /\ answers' = answers
      /\ state[c] \in {"new", "pending"}
      /\ \/ state' = [state EXCEPT ![c] = "refused"] /\ buffer' = buffer
         \/ state' = [state EXCEPT ![c] = "open"] /\ buffer' = [buffer EXCEPT ![c] = <<>>]
         \/ state[c] = "new" /\ state' = [state EXCEPT ![c] = "pending"] /\ buffer' = buffer
  BY DEF ListenHandler, Connect
<1>2. /\ state \in [Conns -> States] /\ buffer \in [Conns -> Seq(Unit)] /\ wire \in [Conns -> Seq(Unit)]
      /\ answers \in [Conns -> Seq(Nat)] /\ \A d \in Conns : Len(buffer[d]) <= MAX
  BY Zenon DEF DataTypes, ControlTypes
<1>3. buffer' = buffer
  <2>1. buffer[c] = <<>>
    BY Zenon, <1>1 DEF StreamInv, ConnInv
  <2> QED
    BY <1>1, <1>2, <2>1
<1>4. state'[c] \in {"refused", "open", "pending"} /\ \A d \in Conns : d # c => state'[d] = state[d]
  BY <1>1, <1>2
<1>5. HandlerInv'
  <2>1. CASE handler = Idle
    BY Zenon, <1>1, <2>1 DEF HandlerInv
  <2>2. CASE handler # Idle
    <3>1. handler.conn \in Conns /\ state[handler.conn] = "open"
      BY <2>2 DEF HandlerInv
    <3>2. state'[handler.conn] = state[handler.conn]
      BY <1>1, <1>4, <3>1
    <3> QED
      BY Zenon, <1>1, <1>3, <2>2, <3>2 DEF HandlerInv
  <2> QED
    BY <2>1, <2>2
<1>6. ASSUME NEW d \in Conns
      PROVE  /\ state[d] = "closed" => state'[d] = "closed"
             /\ state'[d] \in {"new", "pending"} => state[d] \in {"new", "pending"}
             /\ state'[d] \in Live => state[d] \in Live
  BY <1>1, <1>4 DEF Live
<1>7. \A d \in Conns : AnsGood(answers'[d], sent[d]) /\ (state'[d] = "closed" \/ NoStale(answers'[d]))
  BY Zenon, <1>1, <1>6 DEF AnswerInv
<1> QED
  BY Zenon, <1>1, <1>2, <1>3, <1>5, <1>6, <1>7, ConnectionStep

(* periodic_handler and auditd_tcp_listen_uninit close connections. *)
LEMMA CloseStep ==
  ASSUME Inv, ControlTypes', PeriodicHandler \/ Uninit
  PROVE  Inv'
<1> USE DEF Inv
<1>1. /\ handler = Idle /\ handler' = handler /\ sent' = sent /\ peer' = peer /\ log' = log
  BY Zenon DEF PeriodicHandler, Uninit
<1>2. HandlerInv'
  BY Zenon, <1>1 DEF HandlerInv
<1>3. \/ /\ state' = state /\ wire' = wire /\ buffer' = buffer /\ answers' = answers
      \/ /\ \E S : Release(S)
         /\ answers' = answers
      \/ /\ Release(Chain)
         /\ answers' = [c \in Conns |-> IF c \in Chain THEN Append(answers[c], ENDING) ELSE answers[c]]
  BY DEF PeriodicHandler, Uninit
<1>4. /\ state \in [Conns -> States] /\ buffer \in [Conns -> Seq(Unit)] /\ wire \in [Conns -> Seq(Unit)]
      /\ answers \in [Conns -> Seq(Nat)] /\ \A d \in Conns : Len(buffer[d]) <= MAX
  BY Zenon DEF DataTypes, ControlTypes
<1>5. \A d \in Conns : AnsGood(answers[d], sent[d]) /\ (state[d] = "closed" \/ NoStale(answers[d]))
  BY Zenon DEF AnswerInv
<1>6. "closed" \notin Live /\ {"new", "pending"} \subseteq Live
  BY DEF Live
<1>7. CASE state' = state /\ wire' = wire /\ buffer' = buffer /\ answers' = answers
  BY Zenon, <1>1, <1>2, <1>4, <1>5, <1>7, ConnectionStep
<1>8. ASSUME NEW S, Release(S), answers' = answers PROVE Inv'
  <2>1. /\ wire' \in [Conns -> Seq(Unit)] /\ buffer' \in [Conns -> Seq(Unit)]
        /\ \A d \in Conns : Len(buffer'[d]) <= MAX
        /\ \A d \in Conns : d \in S => state'[d] = "closed"
        /\ \A d \in Conns : d \notin S => state'[d] = state[d] /\ wire'[d] = wire[d] /\ buffer'[d] = buffer[d]
    BY Zenon, <1>8, Released
  <2>2. ASSUME NEW d \in Conns
        PROVE  /\ state[d] = "closed" => state'[d] = "closed"
               /\ state'[d] \in {"new", "pending"} => state[d] \in {"new", "pending"}
               /\ state'[d] \in Live => state[d] \in Live /\ buffer'[d] = buffer[d] /\ wire'[d] = wire[d]
    BY Zenon, <1>6, <2>1
  <2> QED
    BY Zenon, <1>1, <1>2, <1>4, <1>5, <1>8, <2>1, <2>2, ConnectionStep
<1>9. CASE /\ Release(Chain)
           /\ answers' = [c \in Conns |-> IF c \in Chain THEN Append(answers[c], ENDING) ELSE answers[c]]
  <2>1. /\ wire' \in [Conns -> Seq(Unit)] /\ buffer' \in [Conns -> Seq(Unit)]
        /\ \A d \in Conns : Len(buffer'[d]) <= MAX
        /\ \A d \in Conns : d \in Chain => state'[d] = "closed"
        /\ \A d \in Conns : d \notin Chain => state'[d] = state[d] /\ wire'[d] = wire[d] /\ buffer'[d] = buffer[d]
    BY Zenon, <1>9, Released
  <2>2. ASSUME NEW d \in Conns
        PROVE  /\ d \in Chain => answers'[d] = Append(answers[d], ENDING)
               /\ d \notin Chain => answers'[d] = answers[d]
    BY Zenon, <1>9
  <2>3. ASSUME NEW d \in Conns
        PROVE  /\ state[d] = "closed" => state'[d] = "closed"
               /\ state'[d] \in {"new", "pending"} => state[d] \in {"new", "pending"}
               /\ state'[d] \in Live =>
                    state[d] \in Live /\ buffer'[d] = buffer[d] /\ wire'[d] = wire[d] /\ answers'[d] = answers[d]
    BY Zenon, <1>6, <2>1, <2>2
  <2>4. ASSUME NEW d \in Conns PROVE AnsGood(answers'[d], sent[d]) /\ (state'[d] = "closed" \/ NoStale(answers'[d]))
    <3>1. CASE d \in Chain
      <4>1. state[d] \in {"new", "pending", "open"}
        BY <3>1 DEF Chain
      <4>2. PICK h \in Nat : ConnAt(d, h)
        BY Zenon, <4>1 DEF StreamInv, ConnInv
      <4>3. AnsweredUpTo(answers[d], sent[d], h) /\ answers[d] \in Seq(Nat) /\ sent[d] \in Seq(Messages)
        BY Zenon, <4>2, ConnTypes DEF ConnAt
      <4>4. state[d] # "closed"
        BY <4>1
      <4> QED
        BY Zenon, <1>5, <2>1, <2>2, <3>1, <4>3, <4>4, AnswerLast
    <3> QED
      BY Zenon, <1>5, <2>1, <2>2, <3>1
  <2>5. answers' \in [Conns -> Seq(Nat)]
    <3>1. ASSUME NEW d \in Conns PROVE (IF d \in Chain THEN Append(answers[d], ENDING) ELSE answers[d]) \in Seq(Nat)
      BY <1>4 DEF ENDING
    <3> QED
      BY Zenon, <1>9, <3>1
  <2> QED
    BY Zenon, <1>1, <1>2, <2>1, <2>3, <2>4, <2>5, ConnectionStep
<1> QED
  BY Zenon, <1>3, <1>7, <1>8, <1>9

(* The client sends, ends or loses the connection: only its own stream changes, at its end. *)
LEMMA ClientStep ==
  ASSUME Inv, ControlTypes', NEW c \in Conns, ClientSends(c) \/ ClientCloses(c) \/ ConnectionBreaks(c)
  PROVE  Inv'
<1> USE DEF Inv
<1>1. /\ state' = state /\ buffer' = buffer /\ log' = log /\ answers' = answers /\ handler' = handler
      /\ state[c] \in {"pending", "open"} /\ peer[c] = "open"
  BY Zenon DEF ClientSends, ClientCloses, ConnectionBreaks, Connected
<1>2. HandlerInv'
  BY Zenon, <1>1 DEF HandlerInv
<1>3. /\ buffer[c] \in Seq(Unit) /\ wire[c] \in Seq(Unit) /\ sent[c] \in Seq(Messages) /\ answers[c] \in Seq(Nat)
      /\ Len(sent[c]) \in Nat /\ Len(wire[c]) \in Nat
  BY Zenon, ConnTypes
<1>4. /\ wire \in [Conns -> Seq(Unit)] /\ sent \in [Conns -> Seq(Messages)]
      /\ peer \in [Conns -> {"open", "closed", "reset"}] /\ log \in Seq(LogEntry)
      /\ \A d \in Conns : Len(sent[d]) <= MaxMessages
  BY Zenon DEF DataTypes, ControlTypes
<1>5. PICK h \in Nat : ConnAt(c, h)
  BY <1>1 DEF StreamInv, ConnInv
<1>6. /\ Flow(buffer[c], wire[c], sent[c], "open", h) /\ AnsweredUpTo(answers[c], sent[c], h)
      /\ (Scanned(c) > 0 => Scanned(c) < Size(sent[c][h + 1])) /\ LoggedUpTo(log, c, sent[c], h)
  BY Zenon, <1>1, <1>5 DEF ConnAt
<1>7. \A d \in Conns : Scanned(d)' = Scanned(d)
  BY Zenon, <1>1 DEF Scanned
<1>8. ASSUME NEW d \in Conns, d # c, wire'[d] = wire[d], sent'[d] = sent[d], peer'[d] = peer[d] PROVE ConnInv(d)'
  <2>1. ConnInv(d)
    BY Zenon DEF StreamInv
  <2> QED
    BY Zenon, <1>1, <1>7, <1>8, <2>1, SameConn
<1>9. state[c] \in {"new", "pending"} => buffer[c] = <<>>
  BY Zenon DEF StreamInv, ConnInv
<1>10. CASE ClientSends(c)
  <2>1. PICK m \in Messages : /\ sent' = [sent EXCEPT ![c] = Append(@, m)]
                              /\ wire' = [wire EXCEPT ![c] = @ \o Units(Len(sent[c]) + 1, m)]
    BY Zenon, <1>10 DEF ClientSends
  <2> DEFINE s2 == Append(sent[c], m)
             w2 == wire[c] \o Units(Len(sent[c]) + 1, m)
  <2>2. s2 \in Seq(Messages) /\ Len(s2) = Len(sent[c]) + 1 /\ \A n \in 1 .. Len(sent[c]) : s2[n] = sent[c][n]
    BY <1>3
  <2>3. w2 \in Seq(Unit)
    <3>1. Len(sent[c]) + 1 \in Nat
      BY <1>3
    <3>2. Units(Len(sent[c]) + 1, m) \in Seq(Unit)
      BY Zenon, <3>1, MessageUnits
    <3> QED
      BY Zenon, <1>3, <3>2, ConcatProperties
  <2>4. Flow(buffer[c], w2, s2, "open", h)
    BY Zenon, <1>3, <1>6, SendFlow
  <2>5. /\ \A a \in Seq(Nat) : AnsGood(a, sent[c]) => AnsGood(a, s2)
        /\ \A a \in Seq(Nat) : \A k \in 0 .. Len(sent[c]) : AnsweredUpTo(a, sent[c], k) => AnsweredUpTo(a, s2, k)
        /\ \A l, d : \A k \in 0 .. Len(sent[c]) : LoggedUpTo(l, d, sent[c], k) => LoggedUpTo(l, d, s2, k)
        /\ \A l, i : Complete(l, i, sent[c]) => Complete(l, i, s2)
    BY Zenon, <1>3, SendKeeps
  <2>6. sent' = [sent EXCEPT ![c] = s2] /\ wire' = [wire EXCEPT ![c] = w2] /\ peer' = peer
    BY Zenon, <1>10, <2>1 DEF ClientSends
  <2>7. Len(sent[c]) < MaxMessages
    BY Zenon, <1>10 DEF ClientSends
  <2> HIDE DEF s2, w2
  <2>8. /\ sent' \in [Conns -> Seq(Messages)] /\ wire' \in [Conns -> Seq(Unit)] /\ sent'[c] = s2 /\ wire'[c] = w2
        /\ \A d \in Conns : d # c => sent'[d] = sent[d] /\ wire'[d] = wire[d]
    BY <1>4, <2>2, <2>3, <2>6
  <2>9. DataTypes'
    <3>1. Len(s2) <= MaxMessages
      BY <1>3, <2>2, <2>7, Bounds
    <3>2. \A d \in Conns : Len(sent'[d]) <= MaxMessages
      BY Zenon, <1>4, <2>8, <3>1
    <3> QED
      BY Zenon, <1>1, <2>8, <3>2 DEF DataTypes
  <2>10. ConnInv(c)'
    <3>1. h \in 0 .. Len(sent[c])
      BY Zenon, <1>6 DEF Flow
    <3>2. AnsweredUpTo(answers[c], s2, h) /\ LoggedUpTo(log, c, s2, h)
      BY Zenon, <1>3, <1>6, <2>5, <3>1
    <3>3. Scanned(c) > 0 => Scanned(c) < Size(s2[h + 1])
      <4> SUFFICES ASSUME Scanned(c) > 0 PROVE Scanned(c) < Size(s2[h + 1])
        OBVIOUS
      <4>1. Len(buffer[c]) > 0
        <5>1. CASE handler.conn = c /\ handler.step = "parse"
          <6>1. handler.r \in Nat
            BY <5>1, Running
          <6> QED
            BY <1>3, <5>1, <6>1 DEF Scanned
        <5>2. CASE ~ (handler.conn = c /\ handler.step = "parse")
          BY <5>2 DEF Scanned
        <5> QED
          BY <5>1, <5>2
      <4>2. h + 1 \in 1 .. Len(sent[c])
        BY Zenon, <1>5, <4>1, BufferBegins
      <4> QED
        BY Zenon, <1>6, <2>2, <4>2
    <3>4. Scanned(c)' = Scanned(c)
      BY Zenon, <1>7
    <3>5. ConnAt(c, h)'
      BY Zenon, <1>1, <2>4, <2>6, <2>8, <3>2, <3>3, <3>4 DEF ConnAt
    <3> QED
      BY Zenon, <1>1, <1>9, <3>5 DEF ConnInv
  <2>11. StreamInv'
    BY Zenon, <1>8, <2>6, <2>8, <2>10 DEF StreamInv
  <2>12. AnswerInv'
    BY Zenon, <1>1, <1>3, <2>5, <2>8 DEF AnswerInv
  <2>13. LogInv'
    <3> SUFFICES ASSUME NEW i \in 1 .. Len(log)
                 PROVE  \/ Complete(log, i, sent'[log[i].conn])
                        \/ /\ ~WholeOf(log[i], sent'[log[i].conn]) /\ state[log[i].conn] = "closed"
                           /\ \A j \in i + 1 .. Len(log) : log[j].conn # log[i].conn
      BY Zenon, <1>1 DEF LogInv
    <3>1. log[i].conn \in Conns /\ state[c] # "closed"
      BY <1>1, <1>4, EntryConn
    <3>2. CASE Complete(log, i, sent[log[i].conn])
      BY Zenon, <2>5, <2>8, <3>1, <3>2
    <3>3. CASE /\ ~WholeOf(log[i], sent[log[i].conn]) /\ state[log[i].conn] = "closed"
               /\ \A j \in i + 1 .. Len(log) : log[j].conn # log[i].conn
      BY Zenon, <2>8, <3>1, <3>3
    <3> QED
      BY Zenon, <3>2, <3>3 DEF LogInv
  <2> QED
    BY Zenon, <1>2, <2>9, <2>11, <2>12, <2>13
<1>11. CASE ClientCloses(c) \/ ConnectionBreaks(c)
  <2>1. /\ sent' = sent
        /\ \E k \in 0 .. Len(wire[c]) : wire' = [wire EXCEPT ![c] = SubSeq(wire[c], 1, k)]
        /\ \E p \in {"closed", "reset"} : peer' = [peer EXCEPT ![c] = p]
    <3>1. CASE ClientCloses(c)
      BY <3>1 DEF ClientCloses
    <3>2. CASE ConnectionBreaks(c)
      <4>1. 0 \in 0 .. Len(wire[c]) /\ SubSeq(wire[c], 1, 0) = <<>>
        BY <1>3
      <4> QED
        BY <3>2, <4>1 DEF ConnectionBreaks
    <3> QED
      BY <1>11, <3>1, <3>2
  <2>2. PICK k \in 0 .. Len(wire[c]) : wire' = [wire EXCEPT ![c] = SubSeq(wire[c], 1, k)]
    BY Zenon, <2>1
  <2>3. PICK p \in {"closed", "reset"} : peer' = [peer EXCEPT ![c] = p]
    BY Zenon, <2>1
  <2> DEFINE w2 == SubSeq(wire[c], 1, k)
  <2>4. w2 \in Seq(Unit)
    BY <1>3
  <2>5. Flow(buffer[c], w2, sent[c], p, h)
    <3>1. p # "open"
      OBVIOUS
    <3> QED
      BY Zenon, <1>3, <1>6, <3>1, CutFlow
  <2> HIDE DEF w2
  <2>6. /\ wire' \in [Conns -> Seq(Unit)] /\ wire'[c] = w2 /\ peer'[c] = p
        /\ \A d \in Conns : d # c => peer'[d] = peer[d] /\ wire'[d] = wire[d]
    BY <1>4, <2>2, <2>3, <2>4 DEF w2
  <2>7. DataTypes'
    BY Zenon, <1>1, <2>1, <2>6 DEF DataTypes
  <2>8. ConnInv(c)'
    <3>1. ConnAt(c, h)'
      BY Zenon, <1>1, <1>6, <1>7, <2>1, <2>5, <2>6 DEF ConnAt
    <3> QED
      BY Zenon, <1>1, <1>9, <3>1 DEF ConnInv
  <2>9. StreamInv'
    BY Zenon, <1>8, <2>1, <2>6, <2>8 DEF StreamInv
  <2>10. AnswerInv'
    BY Zenon, <1>1, <2>1 DEF AnswerInv
  <2>11. LogInv'
    BY Zenon, <1>1, <1>4, <2>1, SameLog
  <2> QED
    BY Zenon, <1>2, <2>7, <2>9, <2>10, <2>11
<1> QED
  BY Zenon, <1>10, <1>11

-----------------------------------------------------------------------------
(* The theorems                                                            *)

(* At the start nothing was sent and nothing handled. *)
LEMMA InitInv == Init => Inv
<1> SUFFICES ASSUME Init PROVE Inv
  OBVIOUS
<1>1. /\ \A c \in Conns : /\ state[c] = "new" /\ peer[c] = "open" /\ sent[c] = <<>> /\ wire[c] = <<>>
                          /\ buffer[c] = <<>> /\ answers[c] = <<>>
      /\ log = <<>> /\ handler = Idle
  BY Zenon DEF Init
<1>2. DataTypes
  <2>1. /\ sent \in [Conns -> Seq(Messages)] /\ wire \in [Conns -> Seq(Unit)]
        /\ buffer \in [Conns -> Seq(Unit)] /\ answers \in [Conns -> Seq(Nat)] /\ log \in Seq(LogEntry)
    BY DEF Init
  <2>2. Len(<<>>) <= MAX /\ Len(<<>>) <= MaxMessages
    BY Bounds
  <2> QED
    BY Zenon, <1>1, <2>1, <2>2 DEF DataTypes
<1>3. ControlTypes
  <2>1. conf \in Settings /\ Settings \subseteq [per_addr : Nat, idle : BOOLEAN, port : BOOLEAN]
    BY Zenon, ListenerAssumption DEF Init, ListenerAssumption
  <2>2. timer \in BOOLEAN /\ listening \in BOOLEAN /\ over \in BOOLEAN
    BY <2>1 DEF Init
  <2>3. state \in [Conns -> States] /\ peer \in [Conns -> {"open", "closed", "reset"}] /\ active \in [Conns -> BOOLEAN]
    BY DEF Init, States
  <2>4. reconfigs \in 0 .. MaxReconfigs
    BY Bounds DEF Init
  <2> QED
    BY Zenon, <2>1, <2>2, <2>3, <2>4 DEF ControlTypes
<1>4. HandlerInv
  BY Zenon, <1>1 DEF HandlerInv
<1>5. ASSUME NEW c \in Conns PROVE ConnInv(c)
  <2>1. Scanned(c) = 0
    BY <1>1 DEF Scanned, Idle
  <2>2. Rest(<<>>, <<>>) = 0
    BY DEF Rest
  <2>3. Flow(<<>>, <<>>, <<>>, "open", 0)
    BY <2>2 DEF Flow
  <2>4. AnsweredUpTo(<<>>, <<>>, 0) /\ LoggedUpTo(<<>>, c, <<>>, 0)
    BY DEF AnsweredUpTo, LoggedUpTo
  <2>5. ~ (Scanned(c) > 0)
    BY <2>1
  <2>6. ConnAt(c, 0)
    BY Zenon, <1>1, <2>3, <2>4, <2>5 DEF ConnAt
  <2>7. 0 \in Nat
    OBVIOUS
  <2> QED
    BY Zenon, <1>1, <2>6, <2>7 DEF ConnInv
<1>6. StreamInv
  BY Zenon, <1>5 DEF StreamInv
<1>7. \A i \in 1 .. Len(<<>>) : FALSE
  OBVIOUS
<1>8. AnswerInv
  BY Zenon, <1>1, <1>7 DEF AnswerInv, AnsGood, NoStale
<1>9. LogInv
  BY Zenon, <1>1, <1>7 DEF LogInv
<1> QED
  BY Zenon, <1>2, <1>3, <1>4, <1>6, <1>8, <1>9 DEF Inv

(* Every step keeps the invariant. *)
LEMMA StepInv == Inv /\ [Next]_vars => Inv'
<1> SUFFICES ASSUME Inv, [Next]_vars PROVE Inv'
  OBVIOUS
<1>1. ControlTypes'
  BY Zenon, ControlStep
<1>2. ASSUME NEW c \in Conns,
             \/ ClientHandler(c) \/ ReadNothingMore(c)
             \/ ReadMore(c) \/ ReadEnd(c) \/ MoreFramed(c) \/ MoreText(c) \/ ListenHandler(c) \/ Connect(c)
             \/ ClientSends(c) \/ ClientCloses(c) \/ ConnectionBreaks(c)
      PROVE  Inv'
  BY Zenon, <1>1, <1>2, QuietActions, ReadMoreStep, ReadEndStep, ParseActions, ListenStep, ClientStep
<1>3. ASSUME PeriodicHandler \/ Uninit PROVE Inv'
  BY Zenon, <1>1, <1>3, CloseStep
<1>4. ASSUME Reconfigure \/ UNCHANGED vars PROVE Inv'
  BY Zenon, <1>1, <1>4, QuietActions
<1> QED
  BY Zenon, <1>2, <1>3, <1>4 DEF Next

(* The invariant holds in every reachable state. *)
THEOREM Invariance == Spec => []Inv
BY InitInv, StepInv, PTL DEF Spec

(* Type correctness for every set of connections, every message length and every bound: in *)
(* particular what auditd_tcp_client_handler keeps in a buffer never exceeds                *)
(* MAX_AUDIT_MESSAGE_LENGTH.                                                                *)
THEOREM TypeCorrect == Spec => []TypeOK
<1>1. Inv => TypeOK
  <2> SUFFICES ASSUME Inv PROVE TypeOK
    OBVIOUS
  <2>1. /\ state \in [Conns -> {"new", "pending", "open", "refused", "closed"}]
        /\ peer \in [Conns -> {"open", "closed", "reset"}] /\ active \in [Conns -> BOOLEAN]
        /\ conf \in Settings /\ listening \in BOOLEAN /\ timer \in BOOLEAN /\ over \in BOOLEAN
        /\ reconfigs \in 0 .. MaxReconfigs
    BY Zenon DEF Inv, ControlTypes, States
  <2>2. {listening, timer, over} \subseteq BOOLEAN
    BY Zenon, <2>1
  <2>3. ASSUME NEW c \in Conns
        PROVE  /\ Len(buffer[c]) <= MAX /\ Len(sent[c]) <= MaxMessages
               /\ \A n \in 1 .. Len(sent[c]) : sent[c][n] \in Messages
    <3>1. sent[c] \in Seq(Messages)
      BY Zenon, ConnTypes DEF Inv
    <3>2. \A n \in 1 .. Len(sent[c]) : sent[c][n] \in Messages
      BY <3>1
    <3> QED
      BY Zenon, <3>2 DEF Inv, DataTypes
  <2>4. /\ handler.conn \in Conns \cup {NoConn} /\ handler.step \in {"idle", "read", "parse"}
        /\ handler.r \in 0 .. MAX /\ handler.total \in BOOLEAN
    <3>1. CASE handler = Idle
      BY <3>1, Bounds DEF Idle
    <3>2. CASE handler # Idle
      <4>1. handler \in [conn : Conns, step : {"read", "parse"}, r : 0 .. MAX, total : BOOLEAN]
        BY Zenon, <3>2 DEF Inv, HandlerInv
      <4> QED
        BY <4>1
    <3> QED
      BY <3>1, <3>2
  <2> QED
    BY Zenon, <2>1, <2>2, <2>3, <2>4 DEF TypeOK
<1> QED
  BY Invariance, <1>1, PTL

(* However the stream of a connection is cut into reads by read_more, more_messages and      *)
(* client_message log its events whole, in order and once; only the last entry of a          *)
(* connection that ended may be cut.                                                         *)
THEOREM IntactHolds == Spec => []Intact
<1>1. Inv => Intact
  <2> SUFFICES ASSUME Inv, NEW i \in 1 .. Len(log)
               PROVE  LET c == log[i].conn
                          n == log[i].msg IN
                      \/ /\ Whole(c, log[i]) /\ n \in 1 .. Len(sent[c]) /\ sent[c][n].kind = "event"
                         /\ {log[j].msg : j \in Earlier(i)} = {m \in 1 .. n - 1 : sent[c][m].kind = "event"}
                      \/ /\ ~Whole(c, log[i]) /\ state[c] = "closed"
                         /\ \A j \in i + 1 .. Len(log) : log[j].conn # c
    BY Zenon DEF Intact
  <2> DEFINE c == log[i].conn
             n == log[i].msg
             s == sent[c]
  <2>1. Whole(c, log[i]) <=> WholeOf(log[i], s)
    BY Zenon DEF Whole, WholeOf
  <2>2. CASE Complete(log, i, s)
    <3>1. /\ WholeOf(log[i], s) /\ n \in 1 .. Len(s) /\ s[n].kind = "event"
          /\ \A m \in Nat : (\E j \in 1 .. i - 1 : log[j].conn = c /\ log[j].msg = m)
                              <=> m \in 1 .. n - 1 /\ s[m].kind = "event"
      BY Zenon, <2>2 DEF Complete
    <3>2. \A j \in 1 .. i - 1 : log[j].msg \in Nat
      <4>1. log \in Seq(LogEntry)
        BY Zenon DEF Inv, DataTypes
      <4>2. \A j \in 1 .. i - 1 : log[j] \in LogEntry
        BY <4>1
      <4> QED
        BY <4>2 DEF LogEntry
    <3>3. \A m \in 1 .. n - 1 : m \in Nat
      OBVIOUS
    <3>4. {log[j].msg : j \in Earlier(i)} = {m \in 1 .. n - 1 : s[m].kind = "event"}
      <4>1. ASSUME NEW j \in Earlier(i) PROVE log[j].msg \in {m \in 1 .. n - 1 : s[m].kind = "event"}
        <5>1. j \in 1 .. i - 1 /\ log[j].conn = c
          BY Zenon, <4>1 DEF Earlier
        <5> QED
          BY Zenon, <3>1, <3>2, <5>1
      <4>2. ASSUME NEW m \in 1 .. n - 1, s[m].kind = "event" PROVE \E j \in Earlier(i) : log[j].msg = m
        <5>1. PICK j \in 1 .. i - 1 : log[j].conn = c /\ log[j].msg = m
          BY Zenon, <3>1, <3>3, <4>2
        <5> QED
          BY Zenon, <5>1 DEF Earlier
      <4> QED
        BY Zenon, <4>1, <4>2
    <3> QED
      BY Zenon, <2>1, <3>1, <3>4
  <2>3. CASE /\ ~WholeOf(log[i], s) /\ state[c] = "closed"
             /\ \A j \in i + 1 .. Len(log) : log[j].conn # c
    BY Zenon, <2>1, <2>3
  <2> QED
    BY Zenon, <2>2, <2>3 DEF Inv, LogInv
<1> QED
  BY Invariance, <1>1, PTL

(* While a connection is open client_ack acknowledges its events and heartbeats in the order *)
(* they were sent, once, and none is left out; nothing follows the answer of                 *)
(* auditd_tcp_listen_uninit, or that of client_message to a header cut by the end of the     *)
(* connection, which carries whatever number is in the buffer.                               *)
THEOREM AnswersInOrderHolds == Spec => []AnswersInOrder
<1>1. Inv => AnswersInOrder
  <2> SUFFICES ASSUME Inv, NEW c \in Conns, NEW i \in 1 .. Len(answers[c])
               PROVE  LET n == answers[c][i] IN
                      \/ n \in Framed(c) /\ {answers[c][j] : j \in 1 .. i - 1} = {m \in Framed(c) : m < n}
                      \/ n = ENDING /\ i = Len(answers[c])
                      \/ n = STALE /\ i = Len(answers[c]) /\ state[c] = "closed"
    BY Zenon DEF AnswersInOrder
  <2> DEFINE a == answers[c]
             s == sent[c]
             n == a[i]
  <2>1. a \in Seq(Nat) /\ s \in Seq(Messages)
    BY Zenon, ConnTypes DEF Inv
  <2>2. CASE /\ n \in 1 .. Len(s) /\ s[n].kind # "text"
             /\ \A m \in Nat : (\E j \in 1 .. i - 1 : a[j] = m) <=> m \in 1 .. n - 1 /\ s[m].kind # "text"
    <3>1. n \in Framed(c)
      BY Zenon, <2>2 DEF Framed
    <3>2. \A j \in 1 .. i - 1 : a[j] \in Nat
      BY <2>1
    <3>3. \A m \in 1 .. Len(s) : m < n => m \in Nat /\ m \in 1 .. n - 1
      BY <2>1, <2>2
    <3>4. \A m \in 1 .. n - 1 : m \in Nat /\ m \in 1 .. Len(s) /\ m < n
      BY <2>1, <2>2
    <3>5. {a[j] : j \in 1 .. i - 1} = {m \in Framed(c) : m < n}
      <4>1. ASSUME NEW j \in 1 .. i - 1 PROVE a[j] \in {m \in Framed(c) : m < n}
        <5>1. a[j] \in 1 .. n - 1 /\ s[a[j]].kind # "text"
          BY Zenon, <2>2, <3>2, <4>1
        <5> QED
          BY Zenon, <3>4, <5>1 DEF Framed
      <4>2. ASSUME NEW m \in Framed(c), m < n PROVE \E j \in 1 .. i - 1 : a[j] = m
        <5>1. m \in 1 .. Len(s) /\ s[m].kind # "text"
          BY Zenon, <4>2 DEF Framed
        <5> QED
          BY Zenon, <2>2, <3>3, <4>2, <5>1
      <4> QED
        BY Zenon, <4>1, <4>2
    <3> QED
      BY Zenon, <3>1, <3>5
  <2>3. CASE n = ENDING /\ i = Len(a)
    BY Zenon, <2>3
  <2>4. CASE n = STALE /\ i = Len(a)
    <3>1. state[c] = "closed"
      BY Zenon, <2>4 DEF Inv, AnswerInv, NoStale
    <3> QED
      BY Zenon, <2>4, <3>1
  <2> QED
    BY Zenon, <2>2, <2>3, <2>4 DEF Inv, AnswerInv, AnsGood
<1> QED
  BY Invariance, <1>1, PTL

==============================================================================
