---------------------------- MODULE SessionProofs ---------------------------
(***************************************************************************)
(* Lemmas about one session of Server: the invariant that ties its replies *)
(* to the frames its client sent, whatever the chunks they come in, and    *)
(* what one message through the framer and the dispatcher preserves of it. *)
(***************************************************************************)
EXTENDS Server, WellFoundedInduction, TLAPS

(* Zenon proves a step that names no prover; the SMT solver is named where arithmetic,
   sequences or records are needed. *)
USE ZenonT(20)

(* What the provers know of sequences. *)
LEMMA SeqFacts ==
  ASSUME NEW S, NEW q \in Seq(S)
  PROVE  /\ Len(q) \in Nat
         /\ DOMAIN q = 1..Len(q)
         /\ \A n \in 1..Len(q) : q[n] \in S
         /\ q = <<>> <=> Len(q) = 0
BY SMTT(20)

(* A sequence and the element put at its end. *)
LEMMA AppendFacts ==
  ASSUME NEW S, NEW q \in Seq(S), NEW x \in S
  PROVE  /\ Append(q, x) \in Seq(S)
         /\ Len(Append(q, x)) = Len(q) + 1
         /\ \A n \in 1..Len(q) : Append(q, x)[n] = q[n]
         /\ Append(q, x)[Len(q) + 1] = x
BY SMTT(20)

(* A sequence and what is put after it. *)
LEMMA ConcatFacts ==
  ASSUME NEW S, NEW q \in Seq(S), NEW r \in Seq(S)
  PROVE  /\ q \o r \in Seq(S)
         /\ Len(q \o r) = Len(q) + Len(r)
         /\ \A n \in 1..Len(q) + Len(r) :
              (q \o r)[n] = IF n <= Len(q) THEN q[n] ELSE r[n - Len(q)]
BY SMTT(20)

(* A non-empty set of natural numbers has a least member. *)
LEMMA LeastNat ==
  ASSUME NEW T, T \subseteq Nat, T # {}
  PROVE  \E x \in T : \A y \in T : x <= y
<1>1. \E x \in T : \A y \in T : ~(<<y, x>> \in OpToRel(<, Nat))
  BY NatLessThanWellFounded, WFMin
<1>2. \A x, y \in Nat : ~(<<y, x>> \in OpToRel(<, Nat)) => x <= y
  BY SMTT(20) DEF OpToRel
<1> QED BY <1>1, <1>2

(* What the provers know of the empty sequence. *)
LEMMA EmptyFacts ==
  ASSUME NEW S
  PROVE  /\ <<>> \in Seq(S) /\ Len(<<>>) = 0
         /\ \A q \in Seq(S) : q \o <<>> = q /\ <<>> \o q = q
BY SMTT(20)

(* Sequences with the same elements are the same. *)
LEMMA SameElements ==
  ASSUME NEW S, NEW q \in Seq(S), NEW r \in Seq(S), Len(q) = Len(r),
         \A i \in 1..Len(q) : q[i] = r[i]
  PROVE  q = r
BY SMTT(20)

(* Where the elements of a concatenation come from. *)
LEMMA ConcatPlaces ==
  ASSUME NEW S, NEW s \in Seq(S), NEW t \in Seq(S)
  PROVE  /\ s \o t \in Seq(S)
         /\ Len(s \o t) = Len(s) + Len(t)
         /\ \A i \in 1..Len(s) : (s \o t)[i] = s[i]
         /\ \A k \in 1..Len(t) : (s \o t)[Len(s) + k] = t[k]
BY SMTT(20)

(* Concatenation associates. *)
LEMMA ConcatAssociates ==
  ASSUME NEW S, NEW s \in Seq(S), NEW t \in Seq(S), NEW u \in Seq(S)
  PROVE  (s \o t) \o u = s \o (t \o u)
BY SMTT(20)

(* What stands before both sides of an equation of sequences can go. *)
LEMMA ConcatCancels ==
  ASSUME NEW S, NEW s \in Seq(S), NEW t \in Seq(S), NEW u \in Seq(S), s \o t = s \o u
  PROVE  t = u
<1>1. Len(t) \in Nat /\ Len(u) \in Nat /\ Len(s) \in Nat
  BY SMTT(20)
<1>2. Len(s \o t) = Len(s) + Len(t) /\ Len(s \o u) = Len(s) + Len(u)
  BY SMTT(20)
<1>3. Len(t) = Len(u)
  BY <1>1, <1>2, SMTT(20)
<1>4. \A k \in 1..Len(t) : t[k] = u[k]
  BY <1>3, ConcatPlaces, SMTT(20)
<1> QED BY <1>3, <1>4, SameElements

(* A sequence cut in two. *)
LEMMA Cut ==
  ASSUME NEW S, NEW s \in Seq(S), NEW n \in 0..Len(s)
  PROVE  /\ SubSeq(s, 1, n) \in Seq(S) /\ SubSeq(s, n + 1, Len(s)) \in Seq(S)
         /\ Len(SubSeq(s, 1, n)) = n
         /\ \A i \in 1..n : SubSeq(s, 1, n)[i] = s[i]
         /\ SubSeq(s, 1, n) \o SubSeq(s, n + 1, Len(s)) = s
<1> DEFINE a == SubSeq(s, 1, n)
           b == SubSeq(s, n + 1, Len(s))
<1>1. Len(s) \in Nat /\ n \in Nat /\ n <= Len(s)
  BY SMTT(20)
<1>2. a \in Seq(S) /\ Len(a) = n /\ \A i \in 1..n : a[i] = s[i]
  BY <1>1, SMTT(20)
<1>3. b \in Seq(S) /\ Len(b) = Len(s) - n /\ \A i \in 1..Len(s) - n : b[i] = s[n + i]
  BY <1>1, SMTT(20)
<1> HIDE DEF a, b
<1>4. /\ a \o b \in Seq(S) /\ Len(a \o b) = Len(a) + Len(b)
      /\ \A i \in 1..Len(a) : (a \o b)[i] = a[i]
      /\ \A k \in 1..Len(b) : (a \o b)[Len(a) + k] = b[k]
  <2>1. a \in Seq(S) /\ b \in Seq(S)
    BY <1>2, <1>3
  <2> QED BY <2>1, ConcatPlaces, SMTT(20)
<1>5. Len(a \o b) = Len(s)
  BY <1>1, <1>2, <1>3, <1>4, SMTT(20)
<1>6. ASSUME NEW i \in 1..Len(s) PROVE (a \o b)[i] = s[i]
  <2>1. CASE i <= n
    <3>1. i \in 1..n
      BY <1>1, <2>1, SMTT(20)
    <3> QED BY <1>2, <1>4, <3>1
  <2>2. CASE ~(i <= n)
    <3>1. i - n \in 1..Len(s) - n /\ n + (i - n) = i
      BY <1>1, <2>2, SMTT(20)
    <3>2. (a \o b)[Len(a) + (i - n)] = s[i]
      BY <1>1, <1>3, <1>4, <3>1
    <3> QED BY <1>2, <3>1, <3>2
  <2> QED BY <2>1, <2>2
<1>7. a \o b = s
  BY <1>4, <1>5, <1>6, SameElements
<1> QED BY <1>2, <1>3, <1>7 DEF a, b

(* All of a sequence, and one element more of it. *)
LEMMA CutMore ==
  ASSUME NEW S, NEW s \in Seq(S)
  PROVE  /\ SubSeq(s, 1, Len(s)) = s
         /\ \A n \in 0..Len(s) - 1 :
              SubSeq(s, 1, n + 1) = Append(SubSeq(s, 1, n), s[n + 1])
BY SMTT(20)

-----------------------------------------------------------------------------
(* The messages a session sends. *)
Kinds == {"Logon", "Logout", "Heartbeat", "NotLoggedOn", "OrderAck", "OrderReject",
          "Cancelled", "Fill"}

Reply == [to : Nat, kind : Kinds]

(* Session::emit's messages for the request at place n. *)
Emitted(n, kinds) == [i \in 1..Len(kinds) |-> [to |-> n, kind |-> kinds[i]]]

(* A reply answers a frame that was decoded, and refuses it as NotLoggedOn *)
(* exactly outside a logged-on session.                                    *)
RepliesTrue(frames, replies) ==
  \A i \in 1..Len(replies) :
    /\ replies[i].to \in 1..Len(frames)
    /\ frames[replies[i].to] \in Requests =>
         (replies[i].kind = "NotLoggedOn" <=> ~ActiveAfter(frames, replies[i].to - 1))

(* Every frame that asks for an answer has its verdict. *)
AllAnswered(frames, replies) ==
  Asked(frames) \subseteq {replies[i].to : i \in Verdicts(replies)}

(* What a handler may emit for frame f behind the given ones. *)
Proper(frames, f, kinds) ==
  /\ kinds \in Seq(Kinds)
  /\ \A k \in 1..Len(kinds) : kinds[k] = "Fill" <=> k > 1
  /\ Len(kinds) > 1 => kinds[1] = "OrderAck"
  /\ f \in Requests \cup {"Logout", "Heartbeat"} => Len(kinds) >= 1
  /\ f \in Requests =>
       \A k \in 1..Len(kinds) :
         kinds[k] = "NotLoggedOn" <=> ~ActiveAfter(frames, Len(frames))
  /\ f = "Logout" => kinds[1] = "Logout"

(* One more frame with its replies. *)
LEMMA OneMore ==
  ASSUME NEW h \in Seq(Frames), NEW q \in Seq(Reply), NEW f \in Frames,
         NEW kinds, Proper(h, f, kinds),
         RepliesTrue(h, q), InOrder(q), AllAnswered(h, q)
  PROVE  /\ RepliesTrue(Append(h, f), q \o Emitted(Len(h) + 1, kinds))
         /\ InOrder(q \o Emitted(Len(h) + 1, kinds))
         /\ AllAnswered(Append(h, f), q \o Emitted(Len(h) + 1, kinds))
<1> DEFINE e  == Emitted(Len(h) + 1, kinds)
           h2 == Append(h, f)
           q2 == q \o e
           n  == Len(q)
           m  == Len(kinds)
           t  == Len(h) + 1
<1>1. /\ n \in Nat /\ m \in Nat /\ t \in Nat /\ t >= 1 /\ Len(h) = t - 1
      /\ kinds \in Seq(Kinds)
      /\ \A k \in 1..m : kinds[k] \in Kinds
  BY SeqFacts, SMTT(20) DEF Proper
<1>2. /\ e \in Seq(Reply) /\ Len(e) = m
      /\ \A k \in 1..m : e[k] = [to |-> t, kind |-> kinds[k]]
  BY <1>1, SMTT(20) DEF Emitted, Reply
<1> HIDE DEF e
<1>3. /\ q2 \in Seq(Reply) /\ Len(q2) = n + m
      /\ \A i \in 1..n : q2[i] = q[i]
      /\ \A k \in 1..m : q2[n + k] = e[k]
  <2>1. /\ q2 \in Seq(Reply) /\ Len(q2) = n + Len(e)
        /\ \A i \in 1..n : q2[i] = q[i]
        /\ \A k \in 1..Len(e) : q2[n + k] = e[k]
    <3>1. q \in Seq(Reply) /\ e \in Seq(Reply)
      BY <1>2
    <3> HIDE DEF m
    <3> QED BY <3>1, ConcatPlaces, SMTT(20)
  <2> HIDE DEF q2, n, m
  <2> QED BY <1>2, <2>1
<1>4. /\ h2 \in Seq(Frames) /\ Len(h2) = t
      /\ \A i \in 1..t - 1 : h2[i] = h[i]
      /\ h2[t] = f
  BY <1>1, AppendFacts, SMTT(20)
<1> HIDE DEF h2, q2, n, m, t
<1>5. \A k \in 1..m : q2[n + k].to = t /\ q2[n + k].kind = kinds[k]
  BY <1>2, <1>3, SMTT(20)
<1>6. \A i \in 1..n : q[i] \in Reply /\ q[i].to \in 1..t - 1
  BY <1>1, SeqFacts DEF RepliesTrue, n
<1>7. \A i \in 1..n + m : i \in 1..n \/ \E k \in 1..m : i = n + k
  <2> SUFFICES ASSUME NEW i \in 1..n + m, i \notin 1..n PROVE \E k \in 1..m : i = n + k
    OBVIOUS
  <2>1. i - n \in 1..m /\ i = n + (i - n)
    BY <1>1, SMTT(20)
  <2> QED BY <2>1
<1>8. \A j \in 0..t - 1 : ActiveAfter(h2, j) = ActiveAfter(h, j)
  <2>1. ASSUME NEW j \in 0..t - 1 PROVE {h2[i] : i \in 1..j} = {h[i] : i \in 1..j}
    <3>1. \A i \in 1..j : h2[i] = h[i]
      BY <1>1, <1>4, SMTT(20)
    <3> QED BY <3>1
  <2> QED BY <2>1 DEF ActiveAfter
<1>9. RepliesTrue(h2, q2)
  <2> SUFFICES ASSUME NEW i \in 1..n + m
               PROVE  /\ q2[i].to \in 1..t
                      /\ h2[q2[i].to] \in Requests =>
                           (q2[i].kind = "NotLoggedOn" <=> ~ActiveAfter(h2, q2[i].to - 1))
    BY <1>3, <1>4 DEF RepliesTrue
  <2>1. CASE i \in 1..n
    <3>1. q2[i] = q[i] /\ q[i].to \in 1..t - 1
      BY <1>3, <1>6, <2>1
    <3>2. q[i].to \in 1..t /\ q[i].to - 1 \in 0..t - 1 /\ h2[q[i].to] = h[q[i].to]
      BY <1>1, <1>4, <3>1, SMTT(20)
    <3>3. h[q[i].to] \in Requests =>
            (q[i].kind = "NotLoggedOn" <=> ~ActiveAfter(h, q[i].to - 1))
      BY <2>1 DEF RepliesTrue, n
    <3>4. ActiveAfter(h2, q[i].to - 1) = ActiveAfter(h, q[i].to - 1)
      BY <1>8, <3>2
    <3> QED BY <3>1, <3>2, <3>3, <3>4
  <2>2. ASSUME NEW k \in 1..m, i = n + k
        PROVE  /\ q2[i].to \in 1..t
               /\ h2[q2[i].to] \in Requests =>
                    (q2[i].kind = "NotLoggedOn" <=> ~ActiveAfter(h2, q2[i].to - 1))
    <3>1. q2[i].to = t /\ q2[i].kind = kinds[k] /\ t \in 1..t /\ h2[t] = f
      BY <1>1, <1>4, <1>5, <2>2, SMTT(20)
    <3>2. ActiveAfter(h2, t - 1) = ActiveAfter(h, t - 1) /\ t - 1 = Len(h)
      BY <1>1, <1>8, SMTT(20)
    <3>3. f \in Requests => (kinds[k] = "NotLoggedOn" <=> ~ActiveAfter(h, Len(h)))
      BY DEF Proper, m
    <3> QED BY <3>1, <3>2, <3>3
  <2> QED BY <1>7, <2>1, <2>2
<1>10. \A i \in 1..n + m : q2[i].kind # "Fill" => i \in Verdicts(q) \/ i = n + 1
  <2>1. \A i \in 1..n : q2[i].kind # "Fill" => i \in Verdicts(q)
    BY <1>3 DEF Verdicts, n
  <2>2. \A k \in 1..m : q2[n + k].kind # "Fill" => n + k = n + 1
    <3>1. \A k \in 1..m : kinds[k] = "Fill" <=> k > 1
      BY DEF Proper, m
    <3>2. \A k \in 1..m : ~(k > 1) => n + k = n + 1
      BY <1>1, SMTT(20)
    <3> QED BY <1>5, <3>1, <3>2
  <2> QED BY <1>7, <2>1, <2>2
<1>11. InOrder(q2)
  <2>1. ASSUME NEW i \in Verdicts(q2), NEW j \in Verdicts(q2), i < j
        PROVE  q2[i].to < q2[j].to
    <3>1. /\ i \in 1..n + m /\ j \in 1..n + m
          /\ i \in Verdicts(q) \/ i = n + 1
          /\ j \in Verdicts(q) \/ j = n + 1
      BY <1>3, <1>10 DEF Verdicts
    <3>2. Verdicts(q) \subseteq 1..n
      BY DEF Verdicts, n
    <3>3. i \in Verdicts(q)
      BY <1>1, <2>1, <3>1, <3>2, SMTT(20)
    <3>4. CASE j \in Verdicts(q)
      BY <1>3, <2>1, <3>2, <3>3, <3>4 DEF InOrder
    <3>5. CASE j = n + 1
      <4>1. q2[i] = q[i] /\ q[i].to \in 1..t - 1
        BY <1>3, <1>6, <3>2, <3>3
      <4>2. 1 \in 1..m
        BY <1>1, <3>1, <3>5, SMTT(20)
      <4>3. q2[j].to = t
        BY <1>5, <3>5, <4>2
      <4> QED BY <1>1, <4>1, <4>3, SMTT(20)
    <3> QED BY <3>1, <3>4, <3>5
  <2>2. ASSUME NEW i \in 1..n + m, q2[i].kind = "Fill"
        PROVE  \E j \in 1..i - 1 : q2[j] = [to |-> q2[i].to, kind |-> "OrderAck"]
    <3>1. CASE i \in 1..n
      <4>1. PICK j \in 1..i - 1 : q[j] = [to |-> q[i].to, kind |-> "OrderAck"]
        BY <1>3, <2>2, <3>1 DEF InOrder, n
      <4>2. q2[j] = q[j] /\ q2[i] = q[i]
        BY <1>1, <1>3, <3>1, SMTT(20)
      <4> QED BY <4>1, <4>2
    <3>2. ASSUME NEW k \in 1..m, i = n + k
          PROVE  \E j \in 1..i - 1 : q2[j] = [to |-> q2[i].to, kind |-> "OrderAck"]
      <4>1. kinds[k] = "Fill" /\ q2[i].to = t
        BY <1>5, <2>2, <3>2
      <4>2. k > 1 /\ m > 1
        BY <1>1, <4>1, SMTT(20) DEF Proper, m
      <4>3. n + 1 \in 1..i - 1 /\ 1 \in 1..m
        BY <1>1, <3>2, <4>2, SMTT(20)
      <4>4. kinds[1] = "OrderAck"
        BY <4>2 DEF Proper, m
      <4>5. q2[n + 1] = [to |-> t, kind |-> "OrderAck"]
        BY <1>2, <1>3, <4>3, <4>4
      <4> QED BY <4>1, <4>3, <4>5
    <3> QED BY <1>7, <3>1, <3>2
  <2> QED BY <1>3, <2>1, <2>2 DEF InOrder
<1>12. AllAnswered(h2, q2)
  <2> SUFFICES ASSUME NEW a \in Asked(h2)
               PROVE  \E i \in Verdicts(q2) : q2[i].to = a
    BY DEF AllAnswered
  <2>1. a \in 1..t /\ h2[a] \in Requests \cup {"Logout", "Heartbeat"}
    BY <1>4 DEF Asked
  <2>2. CASE a = t
    <3>1. m >= 1
      BY <1>4, <2>1, <2>2 DEF Proper, m
    <3>2. n + 1 \in 1..n + m /\ 1 \in 1..m /\ ~(1 > 1)
      BY <1>1, <3>1, SMTT(20)
    <3>3. q2[n + 1].to = t /\ q2[n + 1].kind = kinds[1]
      BY <1>5, <3>2
    <3>4. kinds[1] # "Fill"
      BY <3>2 DEF Proper, m
    <3>5. n + 1 \in Verdicts(q2)
      BY <1>3, <3>2, <3>3, <3>4 DEF Verdicts
    <3> QED BY <2>2, <3>3, <3>5
  <2>3. CASE a # t
    <3>1. a \in Asked(h)
      BY <1>1, <1>4, <2>1, <2>3, SMTT(20) DEF Asked
    <3>2. PICK i \in Verdicts(q) : q[i].to = a
      BY <3>1 DEF AllAnswered
    <3>3. i \in 1..n /\ q[i].kind # "Fill"
      BY DEF Verdicts, n
    <3>4. i \in 1..n + m /\ q2[i] = q[i]
      BY <1>1, <1>3, <3>3, SMTT(20)
    <3>5. i \in Verdicts(q2)
      BY <1>3, <3>3, <3>4 DEF Verdicts
    <3> QED BY <3>2, <3>4, <3>5
  <2> QED BY <2>2, <2>3
<1> QED BY <1>9, <1>11, <1>12 DEF q2, h2, e

(* A client that got only the first of the replies. *)
LEMMA OnlyTheFirst ==
  ASSUME NEW h, NEW p \in Seq(Reply), NEW s \in Seq(Reply),
         RepliesTrue(h, p \o s), InOrder(p \o s)
  PROVE  RepliesTrue(h, p) /\ InOrder(p)
<1> DEFINE q == p \o s
<1>1. /\ Len(p) \in Nat /\ Len(q) \in Nat /\ Len(p) <= Len(q)
      /\ \A i \in 1..Len(p) : i \in 1..Len(q) /\ q[i] = p[i]
  BY SeqFacts, ConcatFacts, SMTT(20)
<1> HIDE DEF q
<1>2. RepliesTrue(h, q) /\ InOrder(q)
  BY DEF q
<1>3. RepliesTrue(h, p)
  <2> SUFFICES ASSUME NEW i \in 1..Len(p)
               PROVE  /\ p[i].to \in 1..Len(h)
                      /\ h[p[i].to] \in Requests =>
                           (p[i].kind = "NotLoggedOn" <=> ~ActiveAfter(h, p[i].to - 1))
    BY DEF RepliesTrue
  <2> QED BY <1>1, <1>2 DEF RepliesTrue
<1>4. Verdicts(p) \subseteq Verdicts(q) /\ Verdicts(p) \subseteq 1..Len(p)
  BY <1>1 DEF Verdicts
<1>5. ASSUME NEW i \in Verdicts(p), NEW j \in Verdicts(p), i < j PROVE p[i].to < p[j].to
  <2>1. i \in Verdicts(q) /\ j \in Verdicts(q) /\ q[i] = p[i] /\ q[j] = p[j]
    BY <1>1, <1>4
  <2>2. q[i].to < q[j].to
    BY <1>2, <1>5, <2>1 DEF InOrder
  <2> QED BY <2>1, <2>2
<1>6. ASSUME NEW i \in 1..Len(p), p[i].kind = "Fill"
      PROVE  \E j \in 1..i - 1 : p[j] = [to |-> p[i].to, kind |-> "OrderAck"]
  <2>1. PICK j \in 1..i - 1 : q[j] = [to |-> q[i].to, kind |-> "OrderAck"]
    BY <1>1, <1>2, <1>6 DEF InOrder
  <2>2. j \in 1..Len(p)
    BY <1>1, <2>1, SMTT(20)
  <2>3. q[j] = p[j] /\ q[i] = p[i]
    BY <1>1, <2>2
  <2> QED BY <2>1, <2>3
<1> QED BY <1>3, <1>5, <1>6 DEF InOrder

-----------------------------------------------------------------------------
(* A byte is known by its frame and its place in it. *)
Byte == Frames \X Nat

(* How the pieces of a byte stream are put together does not matter. *)
LEMMA BytesAssociative ==
  \A a, b, c \in Seq(Byte) : (a \o b) \o c = a \o (b \o c)
<1> TAKE a, b, c \in Seq(Byte)
<1> QED BY ConcatAssociates, SMTT(20)

(* The bytes of one frame. *)
LEMMA BytesOfFrame ==
  ASSUME NEW f \in Frames
  PROVE  /\ FrameSize(f) \in Nat /\ FrameSize(f) >= kHeaderSize /\ FrameSize(f) >= 1
         /\ Bytes(f) \in Seq(Byte) /\ Len(Bytes(f)) = FrameSize(f)
         /\ Bytes(f)[1] = <<f, 1>>
<1>1. FrameSize(f) \in Nat /\ FrameSize(f) >= kHeaderSize /\ FrameSize(f) >= 1
  BY SessionAssumption, SMTT(20) DEF FrameSize, body_length
<1> DEFINE z == FrameSize(f)
<1> HIDE DEF z
<1>2. Bytes(f) = [i \in 1..z |-> <<f, i>>]
  BY DEF Bytes, z
<1>3. z \in Nat /\ z >= 1
  BY <1>1 DEF z
<1>4. \A i \in 1..z : <<f, i>> \in Byte
  BY <1>3, SMTT(20) DEF Byte
<1>5. Bytes(f) \in Seq(Byte) /\ Len(Bytes(f)) = z
  BY <1>2, <1>3, <1>4, SMTT(20)
<1>6. Bytes(f)[1] = <<f, 1>>
  BY <1>2, <1>3, SMTT(20)
<1> QED BY <1>1, <1>5, <1>6 DEF z

(* The bytes of the first n frames, for every n: the recursion of Stream. *)
Spells(q, n, f) ==
  /\ DOMAIN f = 0..n
  /\ f[0] = <<>>
  /\ \A i \in 1..n : f[i] = f[i - 1] \o Bytes(q[i])

(* The recursion has a solution. *)
LEMMA SpellsExists ==
  ASSUME NEW q, NEW n \in Nat
  PROVE  \E f : Spells(q, n, f)
<1> DEFINE Bad == {k \in Nat : ~\E f : Spells(q, k, f)}
<1> SUFFICES ASSUME Bad # {} PROVE FALSE
  OBVIOUS
<1>b. Bad \subseteq Nat
  OBVIOUS
<1>1. PICK k \in Bad : \A j \in Bad : k <= j
  <2> HIDE DEF Bad
  <2> QED BY <1>b, LeastNat
<1>2. k # 0
  <2>1. Spells(q, 0, [i \in 0..0 |-> <<>>])
    BY SMTT(20) DEF Spells
  <2> QED BY <1>1, <2>1
<1>3. k - 1 \in Nat /\ k - 1 \notin Bad
  BY <1>1, <1>2, SMTT(20)
<1>4. PICK f : Spells(q, k - 1, f)
  BY <1>3
<1> DEFINE g == [i \in 0..k |-> IF i < k THEN f[i] ELSE f[k - 1] \o Bytes(q[k])]
<1>5. ASSUME NEW i \in 1..k PROVE g[i] = g[i - 1] \o Bytes(q[i])
  <2>0. g[i - 1] = f[i - 1]
    BY <1>1, SMTT(20)
  <2>1. CASE i < k
    <3>1. i \in 1..k - 1 /\ g[i] = f[i]
      BY <1>1, <2>1, SMTT(20)
    <3> QED BY <1>4, <2>0, <3>1 DEF Spells
  <2>2. CASE i = k
    <3>1. k \in 0..k /\ ~(k < k)
      BY <1>1, SMTT(20)
    <3>2. g[k] = f[k - 1] \o Bytes(q[k])
      BY <3>1
    <3> QED BY <2>0, <2>2, <3>2
  <2>3. i < k \/ i = k
    BY <1>1, SMTT(20)
  <2> QED BY <2>1, <2>2, <2>3
<1>6. g[0] = <<>>
  <2>1. g[0] = f[0]
    BY <1>1, <1>2, SMTT(20)
  <2> QED BY <1>4, <2>1 DEF Spells
<1>7. Spells(q, k, g)
  BY <1>5, <1>6 DEF Spells
<1> QED BY <1>1, <1>7

(* Stream is the last value of a solution. *)
LEMMA StreamIs ==
  ASSUME NEW q, Len(q) \in Nat
  PROVE  \E f : Spells(q, Len(q), f) /\ Stream(q) = f[Len(q)]
<1> DEFINE step(f) == [i \in 0..Len(q) |-> IF i = 0 THEN <<>> ELSE f[i - 1] \o Bytes(q[i])]
           h == CHOOSE f : f = step(f)
<1>1. Stream(q) = h[Len(q)]
  BY DEF Stream
<1>2. PICK f : Spells(q, Len(q), f)
  BY SpellsExists
<1> DEFINE e == [i \in 0..Len(q) |-> f[i]]
<1>3. e = step(e)
  <2>1. \A i \in 0..Len(q) : e[i] = f[i]
    OBVIOUS
  <2>2. \A i \in 0..Len(q) : i # 0 => i \in 1..Len(q) /\ e[i - 1] = f[i - 1]
    BY SMTT(20)
  <2>3. \A i \in 0..Len(q) : e[i] = IF i = 0 THEN <<>> ELSE e[i - 1] \o Bytes(q[i])
    BY <1>2, <2>1, <2>2 DEF Spells
  <2> HIDE DEF e
  <2>4. e = [i \in 0..Len(q) |-> e[i]]
    BY DEF e
  <2> QED BY <2>3, <2>4
<1>4. h = step(h)
  <2> HIDE DEF e, step
  <2>1. \E x : x = step(x)
    BY <1>3
  <2> QED BY <2>1
<1> HIDE DEF h
<1>5. Spells(q, Len(q), h)
  <2>1. 0 \in 0..Len(q) /\ \A i \in 1..Len(q) : i \in 0..Len(q) /\ i # 0
    BY SMTT(20)
  <2> QED BY <1>4, <2>1 DEF Spells
<1> QED BY <1>1, <1>5

(* Two solutions agree as long as the frames they spell do. *)
LEMMA SpellsUnique ==
  ASSUME NEW q \in Seq(Frames), NEW r, NEW n \in 0..Len(q), NEW m \in Nat, n <= m,
         \A i \in 1..n : q[i] = r[i],
         NEW f, NEW g, Spells(q, n, f), Spells(r, m, g)
  PROVE  \A i \in 0..n : f[i] = g[i] /\ f[i] \in Seq(Byte)
<1> DEFINE Bad == {i \in 0..n : ~(f[i] = g[i] /\ f[i] \in Seq(Byte))}
<1> SUFFICES ASSUME Bad # {} PROVE FALSE
  OBVIOUS
<1>0. Len(q) \in Nat /\ n \in Nat /\ \A i \in 1..n : q[i] \in Frames
  BY SeqFacts, SMTT(20)
<1>b. Bad \subseteq Nat
  BY <1>0, SMTT(20)
<1>1. PICK k \in Bad : \A j \in Bad : k <= j
  <2> HIDE DEF Bad
  <2> QED BY <1>b, LeastNat
<1>2. k # 0
  <2>1. f[0] = <<>> /\ g[0] = <<>> /\ <<>> \in Seq(Byte)
    BY EmptyFacts DEF Spells
  <2> QED BY <1>1, <2>1
<1>3. k \in 1..n /\ k \in 1..m /\ k - 1 \in 0..n /\ k - 1 \notin Bad
  BY <1>0, <1>1, <1>2, SMTT(20)
<1>4. f[k] = f[k - 1] \o Bytes(q[k]) /\ g[k] = g[k - 1] \o Bytes(q[k])
  BY <1>3 DEF Spells
<1>5. f[k - 1] = g[k - 1] /\ f[k - 1] \in Seq(Byte)
  BY <1>3
<1>6. Bytes(q[k]) \in Seq(Byte)
  BY <1>0, <1>3, BytesOfFrame
<1>7. f[k] \in Seq(Byte)
  BY <1>4, <1>5, <1>6, ConcatFacts
<1> QED BY <1>1, <1>4, <1>5, <1>7

(* The bytes of one more frame. *)
LEMMA StreamAppend ==
  ASSUME NEW h \in Seq(Frames), NEW f \in Frames
  PROVE  /\ Stream(<<>>) = <<>>
         /\ Stream(h) \in Seq(Byte)
         /\ Stream(Append(h, f)) = Stream(h) \o Bytes(f)
<1> DEFINE g == Append(h, f)
           n == Len(h)
<1>0. Stream(<<>>) = <<>>
  <2>1. Len(<<>>) = 0 /\ 0 \in Nat
    OBVIOUS
  <2> QED BY <2>1, StreamIs DEF Spells
<1>1. /\ n \in Nat /\ Len(g) = n + 1 /\ n + 1 \in Nat
      /\ (\A i \in 1..n : h[i] = g[i]) /\ g[n + 1] = f
  BY SeqFacts, AppendFacts, SMTT(20)
<1> HIDE DEF g
<1>2. PICK a : Spells(h, n, a) /\ Stream(h) = a[n]
  BY <1>1, StreamIs
<1>3. PICK b : Spells(g, n + 1, b) /\ Stream(g) = b[n + 1]
  BY <1>1, StreamIs
<1>4. n \in 0..Len(h) /\ n <= n + 1 /\ n \in 0..n /\ n + 1 \in 1..n + 1 /\ (n + 1) - 1 = n
  BY <1>1, SMTT(20)
<1>5. a[n] = b[n] /\ a[n] \in Seq(Byte)
  BY <1>1, <1>2, <1>3, <1>4, SpellsUnique
<1>6. b[n + 1] = b[(n + 1) - 1] \o Bytes(g[n + 1])
  BY <1>3, <1>4 DEF Spells
<1>7. b[n + 1] = b[n] \o Bytes(f)
  BY <1>1, <1>4, <1>6
<1> QED BY <1>0, <1>2, <1>3, <1>5, <1>7 DEF g

(* The bytes of the first frames come first. *)
LEMMA StreamPrefix ==
  ASSUME NEW s \in Seq(Frames), NEW n \in 0..Len(s)
  PROVE  \E r \in Seq(Byte) : Stream(s) = Stream(SubSeq(s, 1, n)) \o r
<1> DEFINE m == Len(s)
           Q(j) == \E r \in Seq(Byte) : Stream(s) = Stream(SubSeq(s, 1, j)) \o r
           Bad == {k \in 0..m : ~Q(m - k)}
<1>0. m \in Nat /\ \A i \in 1..m : s[i] \in Frames
  BY SeqFacts
<1>1. Q(m)
  <2>1. SubSeq(s, 1, m) = s
    BY CutMore
  <2>2. Stream(s) \in Seq(Byte)
    BY StreamAppend DEF Frames
  <2>3. Stream(s) = Stream(s) \o <<>> /\ <<>> \in Seq(Byte)
    BY <2>2, EmptyFacts
  <2> QED BY <2>1, <2>3
<1>2. ASSUME NEW j \in 0..m - 1, Q(j + 1) PROVE Q(j)
  <2>1. PICK r \in Seq(Byte) : Stream(s) = Stream(SubSeq(s, 1, j + 1)) \o r
    BY <1>2
  <2>2. 1 \in 1..m /\ j + 1 \in 1..m /\ j + 1 - 1 = j /\ j \in 0..m
    BY <1>0, SMTT(20)
  <2>3. SubSeq(s, 1, j) \in Seq(Frames) /\ s[j + 1] \in Frames
    BY <1>0, <2>2, Cut
  <2>4. SubSeq(s, 1, j + 1) = Append(SubSeq(s, 1, j), s[j + 1])
    BY CutMore
  <2> DEFINE a == Stream(SubSeq(s, 1, j))
             b == Bytes(s[j + 1])
  <2>5. a \in Seq(Byte) /\ b \in Seq(Byte) /\ Stream(SubSeq(s, 1, j + 1)) = a \o b
    BY <2>3, <2>4, StreamAppend, BytesOfFrame
  <2> HIDE DEF a, b
  <2>6. b \o r \in Seq(Byte) /\ (a \o b) \o r = a \o (b \o r)
    BY <2>5, ConcatFacts, ConcatAssociates, SMTT(20)
  <2>7. Stream(s) = a \o (b \o r)
    BY <2>1, <2>5, <2>6
  <2> QED BY <2>6, <2>7 DEF a
<1> HIDE DEF Q, m
<1>3. Bad = {}
  <2> SUFFICES ASSUME Bad # {} PROVE FALSE
    OBVIOUS
  <2>1. Bad \subseteq Nat
    BY <1>0, SMTT(20)
  <2>2. PICK k \in Bad : \A j \in Bad : k <= j
    <3> HIDE DEF Bad
    <3> QED BY <2>1, LeastNat
  <2>3. k \in 0..m /\ ~Q(m - k)
    BY <2>2
  <2>4. k # 0
    BY <1>0, <1>1, <2>3, SMTT(20)
  <2>5. m - k \in 0..m - 1 /\ k - 1 \in 0..m /\ m - (k - 1) = (m - k) + 1
    BY <1>0, <2>3, <2>4, SMTT(20)
  <2>6. Q(m - (k - 1))
    <3>1. k - 1 \notin Bad
      <4>1. ~(k <= k - 1)
        BY <1>0, <2>3, SMTT(20)
      <4> HIDE DEF Bad
      <4> QED BY <2>2, <4>1
    <3> QED BY <2>5, <3>1
  <2> QED BY <1>2, <2>3, <2>5, <2>6
<1>4. n \in 0..m /\ m - n \in 0..m /\ m - (m - n) = n
  BY <1>0, SMTT(20) DEF m
<1>5. Q(n)
  BY <1>3, <1>4
<1> QED BY <1>5 DEF Q

(* What next() finds at the front of the buffer is the frame the client    *)
(* sent next, and taking it off keeps the stream.                          *)
LEMMA NextFrame ==
  ASSUME NEW s \in Seq(Frames), NEW n \in 0..Len(s),
         NEW b \in Seq(Byte), NEW w \in Seq(Byte),
         Len(b) >= 1,
         (Stream(SubSeq(s, 1, n)) \o b) \o w = Stream(s)
  PROVE  /\ n + 1 \in 1..Len(s)
         /\ b[1][1] = s[n + 1]
         /\ SubSeq(s, 1, n + 1) = Append(SubSeq(s, 1, n), s[n + 1])
         /\ Len(b) >= FrameSize(s[n + 1]) =>
              (Stream(SubSeq(s, 1, n + 1)) \o SubSeq(b, FrameSize(s[n + 1]) + 1, Len(b))) \o w
                = Stream(s)
<1> DEFINE a == Stream(SubSeq(s, 1, n))
<1>0. /\ Len(s) \in Nat /\ n \in Nat /\ Len(b) \in Nat
      /\ \A i \in 1..Len(s) : s[i] \in Frames
      /\ SubSeq(s, 1, n) \in Seq(Frames)
  BY SeqFacts, Cut, SMTT(20)
<1>1. a \in Seq(Byte)
  BY <1>0, StreamAppend DEF Frames
<1>2. n # Len(s)
  <2> SUFFICES ASSUME n = Len(s) PROVE FALSE
    OBVIOUS
  <2>1. SubSeq(s, 1, n) = s
    BY CutMore
  <2>2. (a \o b) \o w = a
    BY <2>1
  <2> HIDE DEF a
  <2>3. b \o w \in Seq(Byte) /\ Len(b \o w) = Len(b) + Len(w) /\ Len(w) \in Nat
    BY ConcatFacts, SeqFacts
  <2>4. a \o (b \o w) = a
    BY <1>1, <2>2, ConcatAssociates, SMTT(20)
  <2>5. b \o w = <<>>
    BY <1>1, <2>3, <2>4, ConcatCancels, SMTT(20)
  <2>6. Len(b \o w) = 0
    BY <2>5, SMTT(20)
  <2> QED BY <1>0, <2>3, <2>6, SMTT(20)
<1>3. n + 1 \in 1..Len(s) /\ n + 1 \in 0..Len(s) /\ 1 \in 1..Len(s) /\ n + 1 - 1 = n
  BY <1>0, <1>2, SMTT(20)
<1> DEFINE f == s[n + 1]
<1>4. SubSeq(s, 1, n + 1) = Append(SubSeq(s, 1, n), f)
  <2>1. n \in 0..Len(s) - 1
    BY <1>0, <1>2, SMTT(20)
  <2> QED BY <2>1, CutMore
<1>5. f \in Frames
  BY <1>0, <1>3
<1>6. Stream(SubSeq(s, 1, n + 1)) = a \o Bytes(f)
  BY <1>0, <1>4, <1>5, StreamAppend
<1>7. PICK r \in Seq(Byte) : Stream(s) = Stream(SubSeq(s, 1, n + 1)) \o r
  BY <1>3, StreamPrefix
<1> HIDE DEF a, f
<1>8. (a \o b) \o w = (a \o Bytes(f)) \o r
  BY <1>6, <1>7 DEF a
<1> DEFINE z == FrameSize(f)
<1>9. /\ z \in Nat /\ z >= 1
      /\ Bytes(f) \in Seq(Byte) /\ Len(Bytes(f)) = z /\ Bytes(f)[1] = <<f, 1>>
  BY <1>5, BytesOfFrame
<1>10. /\ \A i \in 1..Len(Bytes(f)) : i <= Len(b) => b[i] = Bytes(f)[i]
       /\ Len(Bytes(f)) <= Len(b) =>
            ((a \o Bytes(f)) \o SubSeq(b, Len(Bytes(f)) + 1, Len(b))) \o w = (a \o b) \o w
  <2> DEFINE y == Bytes(f)
             m == Len(y)
             d == SubSeq(b, m + 1, Len(b))
  <2>1. y \in Seq(Byte) /\ (a \o b) \o w = (a \o y) \o r
    BY <1>8, <1>9
  <2> HIDE DEF y
  <2>2. m \in Nat /\ Len(b) \in Nat /\ b \o w \in Seq(Byte) /\ y \o r \in Seq(Byte)
    BY <2>1, SeqFacts, ConcatFacts
  <2>3. a \o (b \o w) = a \o (y \o r)
    BY <1>1, <2>1, BytesAssociative
  <2>4. b \o w = y \o r
    BY <1>1, <2>2, <2>3, ConcatCancels
  <2>5. /\ \A i \in 1..Len(b) : (b \o w)[i] = b[i]
        /\ \A i \in 1..m : (y \o r)[i] = y[i]
    BY <2>1, ConcatPlaces, SMTT(20)
  <2> HIDE DEF m
  <2>6. \A i \in 1..m : i <= Len(b) => b[i] = y[i]
    <3>1. \A i \in 1..m : i <= Len(b) => i \in 1..Len(b)
      BY <2>2, SMTT(20)
    <3> QED BY <2>4, <2>5, <3>1
  <2>7. ASSUME m <= Len(b) PROVE ((a \o y) \o d) \o w = (a \o b) \o w
    <3>1. m \in 0..Len(b)
      BY <2>2, <2>7, SMTT(20)
    <3>2. /\ SubSeq(b, 1, m) \in Seq(Byte) /\ d \in Seq(Byte) /\ Len(SubSeq(b, 1, m)) = m
          /\ \A i \in 1..m : SubSeq(b, 1, m)[i] = b[i]
          /\ SubSeq(b, 1, m) \o d = b
      BY <3>1, Cut
    <3>3. \A i \in 1..m : b[i] = y[i]
      BY <2>2, <2>6, <2>7, SMTT(20)
    <3>4. SubSeq(b, 1, m) = y
      BY <2>1, <3>2, <3>3, SameElements DEF m
    <3> HIDE DEF d
    <3>5. (a \o y) \o d = a \o (y \o d)
      <4>1. d \in Seq(Byte)
        BY <3>2
      <4> QED BY <1>1, <2>1, <4>1, BytesAssociative
    <3> QED BY <3>2, <3>4, <3>5
  <2> QED BY <2>6, <2>7 DEF m, y
<1> HIDE DEF z
<1>11. b[1] = <<f, 1>>
  BY <1>0, <1>9, <1>10, SMTT(20)
<1>12. b[1][1] = f
  BY <1>11, SMTT(20)
<1>13. Len(b) >= z => ((a \o Bytes(f)) \o SubSeq(b, z + 1, Len(b))) \o w = Stream(s)
  BY <1>0, <1>9, <1>10 DEF a
<1> QED BY <1>3, <1>4, <1>6, <1>12, <1>13 DEF f, z

-----------------------------------------------------------------------------
(* The invariant of a session. *)
(* The places of a session thread that may still answer. *)
Up == {"loop", "recv", "receiving", "pump", "send", "write"}

SessionTypes ==
  /\ buf \in [Conns -> Seq(Byte)] /\ wire \in [Conns -> Seq(Byte)]
  /\ error \in [Conns -> {"None"} \cup Malformed]
  /\ state \in [Conns -> States]
  /\ handled \in [Conns -> Seq(Frames)] /\ script \in [Conns -> Seq(Frames)]
  /\ outbound \in [Conns -> Seq(Reply)] /\ sending \in [Conns -> Seq(Reply)]
  /\ got \in [Conns -> Seq(Reply)]

(* The session state the frames decoded so far lead to. *)
StateAfter(frames) ==
  LET seen == {frames[i] : i \in 1..Len(frames)}
  IN IF "Logout" \in seen THEN "Closing"
     ELSE IF "Logon" \in seen THEN "Active" ELSE "NotLoggedOn"

(* Messages wait only where session_loop is about to write them, and a     *)
(* connection without a thread has done nothing yet.                       *)
Quiet(c) ==
  /\ outbound[c] # <<>> => thread[c] \in {"pump", "send"}
  /\ sending[c] # <<>> => thread[c] = "write"
  /\ thread[c] = "none" =>
       buf[c] = <<>> /\ handled[c] = <<>> /\ error[c] = "None" /\ got[c] = <<>>

(* What was said so far is in order, and complete while the session is up. *)
Talk(c) ==
  /\ RepliesTrue(handled[c], Replies(c))
  /\ InOrder(Replies(c))
  /\ thread[c] \in Up => AllAnswered(handled[c], Replies(c))

(* Nothing can be sent any more: the socket was closed or the client left. *)
CutOff(c) == file[fd[c]] # c \/ peer[c] = "gone"

(* A Logout is among the replies. *)
SaidLogout(replies) == \E i \in 1..Len(replies) : replies[i].kind = "Logout"

(* The answer to a Logout is on its way, or cannot be sent any more. *)
Farewell(c) ==
  /\ state[c] = StateAfter(handled[c])
  /\ state[c] = "Closing" =>
       /\ thread[c] \notin {"recv", "receiving"}
       /\ \/ SaidLogout(Replies(c))
          \/ thread[c] = "close" /\ CutOff(c)
          \/ thread[c] \in {"erase", "done"}

(* Until an error the frames decoded are the first ones the client sent,   *)
(* and the bytes of the others are buffered or still to come.              *)
Framing(c) ==
  /\ \A n \in 1..Len(handled[c]) : handled[c][n] \notin Malformed
  /\ error[c] = "None" =>
       /\ Len(handled[c]) <= Len(script[c])
       /\ handled[c] = SubSeq(script[c], 1, Len(handled[c]))
       /\ Stream(handled[c]) \o buf[c] \o wire[c] = Stream(script[c])

TalkInv(c) == Quiet(c) /\ Talk(c) /\ Farewell(c) /\ Framing(c)

SessionInv == SessionTypes /\ \A c \in Conns : TalkInv(c)

(* The session of the connection does nothing. *)
Idle(c) ==
  /\ buf'[c] = buf[c] /\ error'[c] = error[c] /\ state'[c] = state[c]
  /\ outbound'[c] = outbound[c] /\ handled'[c] = handled[c] /\ script'[c] = script[c]
  /\ wire'[c] = wire[c] /\ sending'[c] = sending[c] /\ got'[c] = got[c]
  /\ thread'[c] = thread[c]

-----------------------------------------------------------------------------
(* A connection whose session does nothing. *)
LEMMA SameInv ==
  ASSUME NEW c \in Conns, TalkInv(c), Idle(c),
         thread[c] = "close" /\ CutOff(c) => CutOff(c)'
  PROVE  TalkInv(c)'
<1>1. Replies(c)' = Replies(c)
  BY DEF Replies, Idle
<1>2. Quiet(c)'
  BY DEF Quiet, Idle, TalkInv
<1>3. Talk(c)'
  <2>1. handled'[c] = handled[c] /\ thread'[c] = thread[c]
    BY DEF Idle
  <2> QED BY <1>1, <2>1 DEF Talk, TalkInv
<1>4. Farewell(c)'
  <2>1. handled'[c] = handled[c] /\ state'[c] = state[c] /\ thread'[c] = thread[c]
    BY DEF Idle
  <2> QED BY <1>1, <2>1 DEF Farewell, TalkInv
<1>5. Framing(c)'
  BY DEF Framing, Idle, TalkInv
<1> QED BY <1>2, <1>3, <1>4, <1>5 DEF TalkInv

(* Before its thread runs, a session has heard and said nothing. *)
LEMMA FreshTalk ==
  /\ RepliesTrue(<<>>, <<>>) /\ InOrder(<<>>) /\ AllAnswered(<<>>, <<>>)
  /\ StateAfter(<<>>) = "NotLoggedOn"
<1>1. RepliesTrue(<<>>, <<>>)
  BY SMTT(20) DEF RepliesTrue
<1>2. InOrder(<<>>)
  BY SMTT(20) DEF InOrder, Verdicts
<1>3. AllAnswered(<<>>, <<>>)
  BY SMTT(20) DEF AllAnswered, Asked
<1>4. StateAfter(<<>>) = "NotLoggedOn"
  BY SMTT(20) DEF StateAfter
<1> QED BY <1>1, <1>2, <1>3, <1>4

(* The session state after one more frame. *)
LEMMA StateNext ==
  ASSUME NEW h \in Seq(Frames), NEW f \in Frames
  PROVE  /\ StateAfter(Append(h, f)) =
              IF f = "Logout" \/ StateAfter(h) = "Closing" THEN "Closing"
              ELSE IF f = "Logon" \/ StateAfter(h) = "Active" THEN "Active"
              ELSE "NotLoggedOn"
         /\ StateAfter(h) = "Active" <=> ActiveAfter(h, Len(h))
<1> DEFINE seen(s) == {s[i] : i \in 1..Len(s)}
<1>1. seen(Append(h, f)) = seen(h) \cup {f}
  <2> DEFINE g == Append(h, f)
             n == Len(h)
  <2>1. n \in Nat /\ Len(g) = n + 1 /\ (\A i \in 1..n : g[i] = h[i]) /\ g[n + 1] = f
    BY SeqFacts, AppendFacts, SMTT(20)
  <2> HIDE DEF g, n
  <2>2. seen(g) = {g[i] : i \in 1..n} \cup {g[n + 1]}
    <3>1. 1..Len(g) = (1..n) \cup {n + 1}
      BY <2>1, SMTT(20)
    <3> QED BY <3>1
  <2>3. {g[i] : i \in 1..n} = {h[i] : i \in 1..n}
    BY <2>1
  <2> QED BY <2>1, <2>2, <2>3 DEF g, n
<1>2. \A s : StateAfter(s) = IF "Logout" \in seen(s) THEN "Closing"
                             ELSE IF "Logon" \in seen(s) THEN "Active" ELSE "NotLoggedOn"
  BY DEF StateAfter
<1>3. ActiveAfter(h, Len(h)) <=> "Logon" \in seen(h) /\ "Logout" \notin seen(h)
  BY DEF ActiveAfter
<1> HIDE DEF seen
<1> QED BY <1>1, <1>2, <1>3

(* What a handler of the dispatcher does to its session. *)
LEMMA DispatchFacts ==
  ASSUME SessionTypes, NEW c \in Conns, NEW f \in Frames,
         state[c] = StateAfter(handled[c]), Dispatch(c, f)
  PROVE  /\ \E kinds :
              /\ Proper(handled[c], f, kinds)
              /\ outbound' = [outbound EXCEPT ![c] = @ \o Emitted(Len(handled[c]) + 1, kinds)]
         /\ state' = [state EXCEPT ![c] = StateAfter(Append(handled[c], f))]
<1> DEFINE h == handled[c]
           Does(kinds) ==
             outbound' = [outbound EXCEPT ![c] = @ \o Emitted(Len(h) + 1, kinds)]
           active == ActiveAfter(h, Len(h))
<1>1. /\ h \in Seq(Frames) /\ outbound \in [Conns -> Seq(Reply)]
      /\ state \in [Conns -> States]
  BY DEF SessionTypes
<1>2. \A kinds : emit(c, kinds) <=> Does(kinds)
  BY DEF emit, Emitted
<1>3. ASSUME UNCHANGED outbound PROVE Does(<<>>)
  <2>1. Emitted(Len(h) + 1, <<>>) = <<>>
    BY SMTT(20) DEF Emitted
  <2>2. outbound[c] \o <<>> = outbound[c]
    BY <1>1, EmptyFacts
  <2> QED BY <1>1, <1>3, <2>1, <2>2
<1>4. StateAfter(h) = "Active" <=> active
  BY <1>1, StateNext
<1> HIDE DEF Does
<1>5. \E kinds : Proper(h, f, kinds) /\ Does(kinds)
  <2> USE DEF Proper, Kinds, Requests
  <2> HIDE DEF h, active
  <2>a. ActiveAfter(h, Len(h)) = active
    BY DEF active
  <2>0. \A k \in Kinds : /\ <<k>> \in Seq(Kinds) /\ Len(<<k>>) = 1 /\ <<k>>[1] = k
                         /\ \A i \in 1..1 : i = 1
    BY SMTT(20)
  <2>1. CASE f \in {"Logon", "OrderAck"}
    <3>1. Does(<<>>) \/ Does(<<"Logon">>)
      BY <1>2, <1>3, <2>1 DEF Dispatch, handle_logon
    <3>2. Proper(h, f, <<>>)
      BY <2>1, SMTT(20)
    <3>3. Proper(h, f, <<"Logon">>)
      BY <2>1, SMTT(20)
    <3> QED BY <3>1, <3>2, <3>3
  <2>2. CASE f = "Logout"
    <3>1. Does(<<"Logout">>)
      BY <1>2, <2>2 DEF Dispatch, handle_logout
    <3>2. Proper(h, f, <<"Logout">>)
      BY <2>2, SMTT(20)
    <3> QED BY <3>1, <3>2
  <2>3. CASE f = "Heartbeat"
    <3>1. Does(<<"Heartbeat">>)
      BY <1>2, <2>3 DEF Dispatch, handle_heartbeat
    <3>2. Proper(h, f, <<"Heartbeat">>)
      BY <2>3, SMTT(20)
    <3> QED BY <3>1, <3>2
  <2>4. CASE f \in Requests
    <3>1. \/ ~active /\ Does(<<"NotLoggedOn">>)
          \/ active /\ Does(<<"OrderReject">>)
          \/ active /\ Does(<<"Cancelled">>)
          \/ active /\ \E n \in 0..MaxTrades :
                         Does(<<"OrderAck">> \o [i \in 1..n |-> "Fill"])
      BY <1>2, <1>4, <2>4 DEF Dispatch, handle_new_order, handle_cancel, h
    <3>2. ASSUME ~active, Does(<<"NotLoggedOn">>) PROVE Proper(h, f, <<"NotLoggedOn">>)
      BY <2>4, <2>a, <3>2, SMTT(20)
    <3>3. ASSUME active, NEW k \in {"OrderReject", "Cancelled"} PROVE Proper(h, f, <<k>>)
      BY <2>4, <2>a, <3>3, SMTT(20)
    <3>4. ASSUME active, NEW n \in 0..MaxTrades
          PROVE  Proper(h, f, <<"OrderAck">> \o [i \in 1..n |-> "Fill"])
      <4> DEFINE fills == [i \in 1..n |-> "Fill"]
                 one == <<"OrderAck">>
                 all == one \o fills
      <4>1. n \in Nat /\ fills \in Seq(Kinds) /\ Len(fills) = n
            /\ \A i \in 1..n : fills[i] = "Fill"
        BY SessionAssumption, SMTT(20)
      <4>2. one \in Seq(Kinds) /\ Len(one) = 1 /\ one[1] = "OrderAck" /\ 1 \in 1..1
        BY <2>0, SMTT(20)
      <4> HIDE DEF fills, one
      <4>3. /\ all \in Seq(Kinds) /\ Len(all) = Len(one) + Len(fills)
            /\ \A i \in 1..Len(one) : all[i] = one[i]
            /\ \A k \in 1..Len(fills) : all[Len(one) + k] = fills[k]
        <5>1. one \in Seq(Kinds) /\ fills \in Seq(Kinds)
          BY <4>1, <4>2
        <5> QED BY <5>1, ConcatPlaces, SMTT(20)
      <4> HIDE DEF all
      <4>4. Len(all) = 1 + n /\ all[1] = "OrderAck" /\ \A k \in 1..n : all[1 + k] = "Fill"
        BY <4>1, <4>2, <4>3
      <4>5. \A k \in 1..1 + n : k = 1 \/ (k > 1 /\ k - 1 \in 1..n /\ 1 + (k - 1) = k)
        BY <4>1, SMTT(20)
      <4>6. \A k \in 1..1 + n : /\ all[k] = "Fill" <=> k > 1
                                /\ all[k] # "NotLoggedOn"
        BY <4>4, <4>5, SMTT(20)
      <4>7. 1 + n >= 1
        BY <4>1, SMTT(20)
      <4>8. Proper(h, f, all)
        BY <2>4, <2>a, <3>4, <4>3, <4>4, <4>6, <4>7
      <4> QED BY <4>8 DEF all, one, fills
    <3> QED BY <3>1, <3>2, <3>3, <3>4
  <2> QED BY <2>1, <2>2, <2>3, <2>4 DEF Dispatch
<1>6. state' = [state EXCEPT ![c] = StateAfter(Append(h, f))]
  <2>1. /\ state[c] = StateAfter(h) /\ state[c] \in States
        /\ StateAfter(Append(h, f)) =
              IF f = "Logout" \/ StateAfter(h) = "Closing" THEN "Closing"
              ELSE IF f = "Logon" \/ StateAfter(h) = "Active" THEN "Active"
              ELSE "NotLoggedOn"
    BY <1>1, StateNext
  <2> HIDE DEF h
  <2>2. UNCHANGED state => state' = [state EXCEPT ![c] = state[c]]
    BY <1>1
  <2> QED BY <1>1, <2>1, <2>2 DEF Dispatch, handle_logon, handle_logout,
             handle_heartbeat, handle_new_order, handle_cancel, States
<1> QED BY <1>5, <1>6 DEF Does

-----------------------------------------------------------------------------
(* How the replies of a session are put together does not matter. *)
LEMMA RepliesAssociative ==
  \A a, b, c \in Seq(Reply) : (a \o b) \o c = a \o (b \o c)
<1> TAKE a, b, c \in Seq(Reply)
<1> QED BY ConcatAssociates, SMTT(20)

(* Emitted messages are replies. *)
LEMMA EmittedType ==
  ASSUME NEW n \in Nat, NEW kinds \in Seq(Kinds)
  PROVE  /\ Emitted(n, kinds) \in Seq(Reply) /\ Len(Emitted(n, kinds)) = Len(kinds)
         /\ \A i \in 1..Len(kinds) : Emitted(n, kinds)[i] = [to |-> n, kind |-> kinds[i]]
<1>1. Len(kinds) \in Nat /\ \A i \in 1..Len(kinds) : kinds[i] \in Kinds
  BY SeqFacts
<1> QED BY <1>1, SMTT(20) DEF Emitted, Reply

(* What a session said, is sending and will send are replies. *)
LEMMA RepliesType ==
  ASSUME SessionTypes, NEW c \in Conns
  PROVE  /\ got[c] \in Seq(Reply) /\ sending[c] \in Seq(Reply) /\ outbound[c] \in Seq(Reply)
         /\ Replies(c) \in Seq(Reply)
<1>1. got[c] \in Seq(Reply) /\ sending[c] \in Seq(Reply) /\ outbound[c] \in Seq(Reply)
  BY DEF SessionTypes
<1>2. got[c] \o sending[c] \in Seq(Reply)
  BY <1>1, ConcatFacts
<1>3. (got[c] \o sending[c]) \o outbound[c] \in Seq(Reply)
  BY <1>1, <1>2, ConcatFacts
<1> QED BY <1>1, <1>3 DEF Replies

(* A message is taken off the buffer and its handler runs. *)
LEMMA PumpTalk ==
  ASSUME SessionTypes, NEW c \in Conns, TalkInv(c), thread[c] = "pump",
         PumpMessage(c), UNCHANGED <<thread, netVars>>
  PROVE  TalkInv(c)' /\ SessionTypes'
<1> DEFINE b == buf[c]
           f == FrontFrame(c)
           h == handled[c]
           n == Len(h)
           s == script[c]
           w == wire[c]
<1>1. /\ b \in Seq(Byte) /\ w \in Seq(Byte) /\ h \in Seq(Frames) /\ s \in Seq(Frames)
      /\ error[c] = "None" /\ n \in Nat /\ Len(s) \in Nat /\ Len(b) \in Nat
      /\ \A i \in 1..n : h[i] \in Frames
  BY SeqFacts DEF SessionTypes, PumpMessage, Yields, HasFrame, HasHeader
<1>2. Len(b) >= 1 /\ f = b[1][1] /\ f \notin Malformed /\ Len(b) >= FrameSize(f)
  BY <1>1, SessionAssumption, SMTT(20) DEF PumpMessage, Yields, HasFrame, HasHeader,
     FrontFrame
<1>3. /\ n \in 0..Len(s) /\ h = SubSeq(s, 1, n) /\ (Stream(h) \o b) \o w = Stream(s)
      /\ \A i \in 1..n : h[i] \notin Malformed
  <2>1. /\ Len(h) <= Len(s) /\ h = SubSeq(s, 1, n) /\ (Stream(h) \o b) \o w = Stream(s)
        /\ \A i \in 1..n : h[i] \notin Malformed
    BY <1>1 DEF TalkInv, Framing
  <2>2. n \in 0..Len(s)
    BY <1>1, <2>1, SMTT(20)
  <2> QED BY <2>1, <2>2
<1>4. /\ n + 1 \in 1..Len(s) /\ f = s[n + 1] /\ SubSeq(s, 1, n + 1) = Append(h, f)
      /\ (Stream(SubSeq(s, 1, n + 1)) \o SubSeq(b, FrameSize(f) + 1, Len(b))) \o w = Stream(s)
  <2> HIDE DEF b, f, h, n, s, w
  <2>1. /\ n + 1 \in 1..Len(s)
        /\ b[1][1] = s[n + 1]
        /\ SubSeq(s, 1, n + 1) = Append(SubSeq(s, 1, n), s[n + 1])
        /\ Len(b) >= FrameSize(s[n + 1]) =>
              (Stream(SubSeq(s, 1, n + 1)) \o SubSeq(b, FrameSize(s[n + 1]) + 1, Len(b))) \o w
                = Stream(s)
    <3>1. (Stream(SubSeq(s, 1, n)) \o b) \o w = Stream(s)
      BY <1>3
    <3>2. s \in Seq(Frames) /\ n \in 0..Len(s) /\ b \in Seq(Byte) /\ w \in Seq(Byte) /\ Len(b) >= 1
      BY <1>1, <1>2, <1>3
    <3> QED BY <3>1, <3>2, NextFrame
  <2> QED BY <1>2, <1>3, <2>1
<1>5. f \in Frames
  <2> HIDE DEF f, s, n
  <2> QED BY <1>1, <1>4, SeqFacts
<1>6. state[c] = StateAfter(h) /\ Quiet(c) /\ Talk(c) /\ Farewell(c)
  BY DEF TalkInv, Farewell
<1>7. PICK kinds :
        /\ Proper(h, f, kinds)
        /\ outbound' = [outbound EXCEPT ![c] = @ \o Emitted(n + 1, kinds)]
  <2> HIDE DEF f
  <2> QED BY <1>5, <1>6, DispatchFacts DEF PumpMessage, Handle, f
<1>8. state' = [state EXCEPT ![c] = StateAfter(Append(h, f))]
  <2> HIDE DEF f
  <2> QED BY <1>5, <1>6, DispatchFacts DEF PumpMessage, Handle, f
<1> DEFINE e == Emitted(n + 1, kinds)
           b2 == SubSeq(b, FrameSize(f) + 1, Len(b))
<1>9. /\ kinds \in Seq(Kinds) /\ Len(kinds) \in Nat
      /\ e \in Seq(Reply) /\ Len(e) = Len(kinds)
      /\ \A i \in 1..Len(kinds) : e[i] = [to |-> n + 1, kind |-> kinds[i]]
  <2>1. kinds \in Seq(Kinds) /\ n + 1 \in Nat
    <3>1. kinds \in Seq(Kinds)
      BY <1>7 DEF Proper
    <3> QED BY <1>1, <3>1, SMTT(20)
  <2> QED BY <2>1, EmittedType, SeqFacts
<1>10. b2 \in Seq(Byte) /\ Append(h, f) \in Seq(Frames)
       /\ StateAfter(Append(h, f)) \in States /\ outbound[c] \o e \in Seq(Reply)
  <2>1. FrameSize(f) \in 0..Len(b)
    BY <1>1, <1>2, <1>5, BytesOfFrame, SMTT(20)
  <2>2. b2 \in Seq(Byte)
    <3> HIDE DEF f, b
    <3> QED BY <1>1, <2>1, Cut
  <2>3. Append(h, f) \in Seq(Frames)
    BY <1>1, <1>5, AppendFacts
  <2>4. outbound[c] \o e \in Seq(Reply)
    <3> HIDE DEF e
    <3> QED BY <1>9, RepliesType, ConcatFacts
  <2>5. StateAfter(Append(h, f)) \in States
    BY DEF StateAfter, States
  <2> QED BY <2>2, <2>3, <2>4, <2>5
<1>11. /\ buf' = [buf EXCEPT ![c] = b2] /\ handled' = [handled EXCEPT ![c] = Append(h, f)]
       /\ outbound' = [outbound EXCEPT ![c] = outbound[c] \o e]
       /\ UNCHANGED <<error, wire, script, sending, got, thread>>
  BY <1>7 DEF PumpMessage, Handle, netVars
<1> HIDE DEF e, b2
<1>12. SessionTypes'
  BY <1>8, <1>10, <1>11 DEF SessionTypes
<1>13. /\ buf'[c] = b2 /\ handled'[c] = Append(h, f) /\ outbound'[c] = outbound[c] \o e
       /\ state'[c] = StateAfter(Append(h, f)) /\ wire'[c] = w /\ script'[c] = s
       /\ error'[c] = error[c] /\ sending'[c] = sending[c] /\ got'[c] = got[c]
       /\ thread'[c] = "pump"
  BY <1>8, <1>11 DEF SessionTypes
<1>14. Replies(c)' = Replies(c) \o e
  <2>1. Replies(c)' = (got[c] \o sending[c]) \o (outbound[c] \o e)
    BY <1>13 DEF Replies
  <2>2. got[c] \o sending[c] \in Seq(Reply) /\ outbound[c] \in Seq(Reply)
    BY RepliesType, ConcatFacts
  <2>3. ((got[c] \o sending[c]) \o outbound[c]) \o e
          = (got[c] \o sending[c]) \o (outbound[c] \o e)
    BY <1>9, <2>2, RepliesAssociative
  <2> QED BY <2>1, <2>3 DEF Replies
<1> HIDE DEF f, h, b, s, w
<1>15. Quiet(c)'
  <2>1. sending[c] = <<>>
    BY <1>6 DEF Quiet
  <2> QED BY <1>13, <2>1 DEF Quiet
<1>16. Talk(c)'
  <2>1. RepliesTrue(h, Replies(c)) /\ InOrder(Replies(c)) /\ AllAnswered(h, Replies(c))
    BY <1>6 DEF Talk, Up, h
  <2>2. Replies(c) \in Seq(Reply)
    BY RepliesType
  <2>3. /\ RepliesTrue(Append(h, f), Replies(c) \o e)
        /\ InOrder(Replies(c) \o e)
        /\ AllAnswered(Append(h, f), Replies(c) \o e)
    BY <1>1, <1>5, <1>7, <2>1, <2>2, OneMore DEF e, n
  <2> QED BY <1>13, <1>14, <2>3 DEF Talk
<1>17. Farewell(c)'
  <2>1. state'[c] = StateAfter(handled'[c])
    BY <1>13
  <2>2. ASSUME state'[c] = "Closing" PROVE SaidLogout(Replies(c) \o e)
    <3> DEFINE q == Replies(c)
    <3>1. /\ q \o e \in Seq(Reply) /\ Len(q \o e) = Len(q) + Len(e)
          /\ \A i \in 1..Len(q) : (q \o e)[i] = q[i]
          /\ \A k \in 1..Len(e) : (q \o e)[Len(q) + k] = e[k]
      <4> HIDE DEF q
      <4>1. q \in Seq(Reply)
        BY RepliesType DEF q
      <4>2. e \in Seq(Reply)
        BY <1>9
      <4> QED BY <4>1, <4>2, ConcatPlaces, SMTT(20)
    <3>2. Len(q) \in Nat
      BY RepliesType, SeqFacts
    <3>3. f = "Logout" \/ StateAfter(h) = "Closing"
      <4>1. StateAfter(Append(h, f)) =
              IF f = "Logout" \/ StateAfter(h) = "Closing" THEN "Closing"
              ELSE IF f = "Logon" \/ StateAfter(h) = "Active" THEN "Active"
              ELSE "NotLoggedOn"
        BY <1>1, <1>5, StateNext
      <4> QED BY <1>13, <2>2, <4>1
    <3>4. CASE StateAfter(h) = "Closing"
      <4>1. SaidLogout(q)
        BY <1>6, <3>4 DEF Farewell, h
      <4> HIDE DEF q
      <4>2. PICK i \in 1..Len(q) : q[i].kind = "Logout"
        BY <4>1 DEF SaidLogout
      <4>3. i \in 1..Len(q \o e)
        BY <1>9, <3>1, <3>2, SMTT(20)
      <4>4. (q \o e)[i].kind = "Logout"
        BY <3>1, <4>2
      <4>5. SaidLogout(q \o e)
        BY <4>3, <4>4 DEF SaidLogout
      <4> QED BY <4>5 DEF q
    <3>5. CASE f = "Logout"
      <4> HIDE DEF q
      <4>1. Len(kinds) >= 1 /\ kinds[1] = "Logout"
        BY <1>7, <3>5 DEF Proper
      <4>2. Len(q) + 1 \in 1..Len(q \o e) /\ 1 \in 1..Len(e)
        BY <1>9, <3>1, <3>2, <4>1, SMTT(20)
      <4>3. (q \o e)[Len(q) + 1] = e[1] /\ e[1].kind = "Logout"
        <5>1. 1 \in 1..Len(kinds) /\ (q \o e)[Len(q) + 1] = e[1]
          BY <1>9, <3>1, <4>2
        <5>2. e[1] = [to |-> n + 1, kind |-> kinds[1]]
          BY <1>9, <5>1
        <5> QED BY <4>1, <5>1, <5>2, SMTT(20)
      <4>4. SaidLogout(q \o e)
        BY <4>2, <4>3 DEF SaidLogout
      <4> QED BY <4>4 DEF q
    <3> QED BY <3>3, <3>4, <3>5
  <2> QED BY <1>13, <1>14, <2>1, <2>2 DEF Farewell
<1>18. Framing(c)'
  <2>1. /\ Len(Append(h, f)) = n + 1
        /\ \A i \in 1..n : Append(h, f)[i] = h[i]
        /\ Append(h, f)[n + 1] = f
    BY <1>1, <1>5, AppendFacts, SMTT(20) DEF n
  <2>2. \A i \in 1..n + 1 : Append(h, f)[i] \notin Malformed
    BY <1>1, <1>2, <1>3, <2>1, SMTT(20)
  <2>3. n + 1 <= Len(s) /\ Append(h, f) = SubSeq(s, 1, n + 1)
    <3> HIDE DEF b, f, h, n, s, w
    <3>1. n + 1 <= Len(s)
      BY <1>1, <1>4, SMTT(20)
    <3> QED BY <1>4, <3>1
  <2>4. (Stream(Append(h, f)) \o b2) \o w = Stream(s)
    BY <1>4 DEF b2
  <2> QED BY <1>13, <2>1, <2>2, <2>3, <2>4 DEF Framing
<1> QED BY <1>12, <1>15, <1>16, <1>17, <1>18 DEF TalkInv
=============================================================================
