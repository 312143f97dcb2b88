-------------------------- MODULE StreamQueueProofs --------------------------
(* Proofs about the queues of StreamSource, for streams, buffers and limits of any
   size: how many buffers there can be, what they hold, and that they stay in the
   order of the stream. *)
EXTENDS StreamSourceProofs, WellFoundedInduction

Buf == {b \in [pos : Int, at : Places, len : 1 .. Block, start : 0 .. Block - 1] : b.start < b.len}
-----------------------------------------------------------------------------
(* Sums over a queue. *)
LEMMA LeastElement == ASSUME NEW T \in SUBSET Nat, T # {} PROVE \E m \in T : \A k \in T : m <= k
  <1> DEFINE R == OpToRel(<, Nat)
  <1>1. IsWellFoundedOn(R, Nat) BY NatLessThanWellFounded
  <1>2. \E x \in T : \A y \in T : ~ (<<y, x>> \in R) BY <1>1, WFMin
  <1>3. \A x, y \in Nat : y < x => <<y, x>> \in R BY DEF OpToRel
  <1> HIDE DEF R
  <1>4. PICK x \in T : \A y \in T : ~ (<<y, x>> \in R) BY <1>2
  <1>5. \A y \in T : ~ (y < x) BY <1>3, <1>4
  <1>6. QED BY <1>5

Sums(q, n, f) == f = [i \in 0 .. n |-> IF i = 0 THEN 0 ELSE f[i - 1] + q[i].len]

LEMMA SumsExist == ASSUME NEW q \in Seq(Buf) PROVE \E f : Sums(q, Len(q), f)
  <1> DEFINE T == {n \in 0 .. Len(q) : ~ \E f : Sums(q, n, f)}
  <1>1. SUFFICES ASSUME T # {} PROVE FALSE
    <2>1. Len(q) \in 0 .. Len(q) OBVIOUS
    <2>2. QED BY <1>1, <2>1
  <1>2. T \in SUBSET Nat OBVIOUS
  <1>3. \E n \in T : \A k \in T : n <= k
    <2> HIDE DEF T
    <2>1. QED BY <1>1, <1>2, LeastElement
  <1>4. PICK n \in T : \A k \in T : n <= k BY <1>3
  <1>5. n # 0
    <2>1. Sums(q, 0, [i \in 0 .. 0 |-> 0]) BY DEF Sums
    <2>2. QED BY <1>4, <2>1
  <1>6. n \in Nat /\ n - 1 \in 0 .. Len(q) /\ n - 1 \notin T BY <1>4, <1>5
  <1>7. PICK f : Sums(q, n - 1, f) BY <1>6
  <1> DEFINE g == [i \in 0 .. n |-> IF i = n THEN f[n - 1] + q[n].len ELSE f[i]]
  <1>8. \A i \in 0 .. n : g[i] = IF i = 0 THEN 0 ELSE g[i - 1] + q[i].len
    <2> SUFFICES ASSUME NEW i \in 0 .. n PROVE g[i] = IF i = 0 THEN 0 ELSE g[i - 1] + q[i].len OBVIOUS
    <2>1. CASE i = n
      <3>1. g[i] = f[n - 1] + q[n].len BY <2>1
      <3>2. n - 1 \in 0 .. n /\ n - 1 # n BY <1>6
      <3>3. g[i - 1] = f[n - 1] BY <2>1, <3>2
      <3>4. QED BY <2>1, <3>1, <3>3, <1>5
    <2>2. CASE i # n
      <3>1. g[i] = f[i] /\ i \in 0 .. n - 1 BY <2>2, <1>6
      <3>2. f[i] = IF i = 0 THEN 0 ELSE f[i - 1] + q[i].len BY <3>1, <1>7 DEF Sums
      <3>3. i # 0 => g[i - 1] = f[i - 1] BY <3>1, <1>6
      <3>4. QED BY <3>1, <3>2, <3>3
    <2>3. QED BY <2>1, <2>2
  <1>9. Sums(q, n, g)
    <2>1. g = [i \in 0 .. n |-> g[i]] OBVIOUS
    <2> HIDE DEF g
    <2>2. g = [i \in 0 .. n |-> IF i = 0 THEN 0 ELSE g[i - 1] + q[i].len] BY <1>8, <2>1
    <2>3. QED BY <2>2 DEF Sums
  <1>10. QED BY <1>4, <1>9

(* A queue holds at least a byte for each of its buffers. *)
LEMMA DataSizeBounds ==
  ASSUME NEW q \in Seq(Buf)
  PROVE  DataSize(q) \in Nat /\ Len(q) <= DataSize(q)
  <1> DEFINE f == CHOOSE f : Sums(q, Len(q), f)
             T == {n \in 0 .. Len(q) : ~ (f[n] \in Nat /\ n <= f[n])}
  <1>1. Sums(q, Len(q), f) BY SumsExist
  <1>2. DataSize(q) = f[Len(q)] BY DEF DataSize, Sums
  <1> HIDE DEF f
  <1>3. T = {}
    <2> SUFFICES ASSUME T # {} PROVE FALSE OBVIOUS
    <2>1. T \in SUBSET Nat OBVIOUS
    <2>2. \E n \in T : \A k \in T : n <= k
      <3> HIDE DEF T
      <3>1. QED BY <2>1, LeastElement
    <2>3. PICK n \in T : \A k \in T : n <= k BY <2>2
    <2>4. f[0] = 0 BY <1>1 DEF Sums
    <2>5. n # 0 BY <2>3, <2>4
    <2>6. n - 1 \in 0 .. Len(q) /\ n - 1 \notin T /\ n \in 1 .. Len(q) BY <2>3, <2>5
    <2>7. f[n] = f[n - 1] + q[n].len BY <1>1, <2>6 DEF Sums
    <2>8. q[n] \in Buf BY <2>6
    <2>9. q[n].len \in Nat /\ q[n].len >= 1
      <3>1. q[n].len \in 1 .. Block BY <2>8 DEF Buf
      <3>2. QED BY <3>1, StreamAssumption, SMTT(30)
    <2>10. QED BY <2>3, <2>6, <2>7, <2>9
  <1>4. Len(q) \in 0 .. Len(q) OBVIOUS
  <1>5. QED BY <1>2, <1>3, <1>4

LEMMA NothingInNone == DataSize(<<>>) = 0
  <1> DEFINE f == CHOOSE f : Sums(<<>>, Len(<<>>), f)
  <1>1. <<>> \in Seq(Buf) OBVIOUS
  <1>2. Sums(<<>>, Len(<<>>), f) BY <1>1, SumsExist
  <1>3. DataSize(<<>>) = f[Len(<<>>)] BY DEF DataSize, Sums
  <1> HIDE DEF f
  <1>4. Len(<<>>) = 0 OBVIOUS
  <1>5. QED BY <1>2, <1>3, <1>4 DEF Sums
-----------------------------------------------------------------------------
(* Sequences, place by place. *)
LEMMA PartAt ==
  ASSUME NEW S, NEW s \in Seq(S), NEW m \in Nat \ {0}, NEW n \in Int, n <= Len(s)
  PROVE  /\ SubSeq(s, m, n) \in Seq(S)
         /\ Len(SubSeq(s, m, n)) = IF m <= n THEN n - m + 1 ELSE 0
         /\ \A i \in 1 .. n - m + 1 : SubSeq(s, m, n)[i] = s[m + i - 1]
  <1>1. CASE m <= n BY <1>1, SubSeqProperties
  <1>2. CASE m > n BY <1>2, SubSeqProperties
  <1>3. QED BY <1>1, <1>2

LEMMA HeadReplaced ==
  ASSUME NEW S, NEW s \in Seq(S), s # <<>>, NEW x \in S
  PROVE  /\ <<x>> \o Tail(s) \in Seq(S) /\ Len(<<x>> \o Tail(s)) = Len(s)
         /\ (<<x>> \o Tail(s))[1] = x
         /\ \A i \in 2 .. Len(s) : (<<x>> \o Tail(s))[i] = s[i]
  <1>1. <<x>> \in Seq(S) /\ Len(<<x>>) = 1 /\ <<x>>[1] = x OBVIOUS
  <1>2. Tail(s) \in Seq(S) /\ Len(Tail(s)) = Len(s) - 1 /\ \A i \in 1 .. Len(s) - 1 : Tail(s)[i] = s[i + 1]
        OBVIOUS
  <1>3. Len(s) \in Nat /\ Len(s) >= 1 OBVIOUS
  <1> DEFINE t == Tail(s)
             h == <<x>>
  <1> HIDE DEF t, h
  <1>4. h \in Seq(S) /\ Len(h) = 1 /\ h[1] = x /\ t \in Seq(S) /\ Len(t) = Len(s) - 1
        /\ \A i \in 1 .. Len(s) - 1 : t[i] = s[i + 1]
        BY <1>1, <1>2 DEF t, h
  <1>5. /\ h \o t \in Seq(S) /\ Len(h \o t) = 1 + Len(t)
        /\ \A i \in 1 .. 1 + Len(t) : (h \o t)[i] = IF i <= 1 THEN h[i] ELSE t[i - 1]
    <2>1. /\ h \o t \in Seq(S) /\ Len(h \o t) = Len(h) + Len(t)
          /\ \A i \in 1 .. Len(h) + Len(t) : (h \o t)[i] = IF i <= Len(h) THEN h[i] ELSE t[i - Len(h)]
      <3>1. h \in Seq(S) /\ t \in Seq(S) BY <1>4
      <3>2. QED BY <3>1, ConcatProperties
    <2>2. Len(h) = 1 BY <1>4
    <2>3. QED BY <2>1, <2>2
  <1>6. \A i \in 2 .. Len(s) : (h \o t)[i] = s[i]
    <2> SUFFICES ASSUME NEW i \in 2 .. Len(s) PROVE (h \o t)[i] = s[i] OBVIOUS
    <2>1. i \in 1 .. 1 + Len(t) /\ ~(i <= 1) /\ i - 1 \in 1 .. Len(s) - 1 BY <1>3, <1>4
    <2>2. (h \o t)[i] = t[i - 1] BY <2>1, <1>5
    <2>3. t[i - 1] = s[i - 1 + 1] BY <2>1, <1>4
    <2>4. QED BY <2>2, <2>3, <2>1
  <1>7. (h \o t)[1] = x BY <1>3, <1>4, <1>5
  <1>8. QED BY <1>3, <1>4, <1>5, <1>6, <1>7 DEF t, h
-----------------------------------------------------------------------------
(* The two queues as one, place by place. *)
Nth(old, new, i) == IF i <= Len(old) THEN old[i] ELSE new[i - Len(old)]
Alike(b, c)      == b.at = c.at /\ b.len = c.len

QueuesIn == newdata \in Seq(Buf) /\ oldqueue \in Seq(Buf)
(* Only the first buffer of the new data may have been read in part. *)
Starts(old, new) == /\ \A i \in 1 .. Len(old) : old[i].start = 0
                    /\ \A i \in 2 .. Len(new) : new[i].start = 0

(* The buffers have changed queues, and no more; or some of them are gone. *)
Moved(old, new, lost) ==
  /\ old \in Seq(Buf) /\ new \in Seq(Buf)
  /\ Len(old) + Len(new) + lost = Len(oldqueue) + Len(newdata)
  /\ Starts(old, new)
  /\ lost = 0 => \A i \in 1 .. Len(old) + Len(new) : Alike(Nth(old, new, i), Nth(oldqueue, newdata, i))

LEMMA BufStart ==
  ASSUME NEW b \in Buf, NEW x \in 0 .. b.len - 1
  PROVE  LET c == [b EXCEPT !.start = x] IN c \in Buf /\ Alike(c, b) /\ c.start = x
  <1>1. b.len \in 1 .. Block /\ Block \in Nat BY StreamAssumption DEF Buf
  <1>2. x \in 0 .. Block - 1 /\ x < b.len BY <1>1
  <1>3. QED BY <1>2 DEF Buf, Alike

LEMMA BufParts ==
  ASSUME NEW b \in Buf
  PROVE  /\ b.pos \in Int /\ b.at \in Int /\ b.at \in Places /\ b.len \in Nat \ {0} /\ b.start \in 0 .. b.len - 1
  BY StreamAssumption DEF Buf, Places

(* The first of the buffers gets another start. *)
LEMMA HeadStarts ==
  ASSUME NEW s \in Seq(Buf), s # <<>>, NEW x \in 0 .. Head(s).len - 1
  PROVE  LET t == <<[Head(s) EXCEPT !.start = x]>> \o Tail(s)
         IN /\ t \in Seq(Buf) /\ Len(t) = Len(s) /\ t[1].start = x
            /\ \A i \in 1 .. Len(s) : Alike(t[i], s[i])
            /\ \A i \in 2 .. Len(s) : t[i] = s[i]
  <1> DEFINE c == [Head(s) EXCEPT !.start = x]
             t == <<c>> \o Tail(s)
  <1>1. Head(s) \in Buf /\ Head(s) = s[1] /\ Len(s) \in Nat \ {0} OBVIOUS
  <1>2. c \in Buf /\ Alike(c, Head(s)) /\ c.start = x BY <1>1, BufStart
  <1> HIDE DEF c
  <1>3. t \in Seq(Buf) /\ Len(t) = Len(s) /\ t[1] = c /\ \A i \in 2 .. Len(s) : t[i] = s[i]
        BY <1>2, HeadReplaced
  <1> HIDE DEF t
  <1>4. \A i \in 1 .. Len(s) : Alike(t[i], s[i])
    <2> SUFFICES ASSUME NEW i \in 1 .. Len(s) PROVE Alike(t[i], s[i]) OBVIOUS
    <2>1. CASE i = 1 BY <1>1, <1>2, <1>3, <2>1
    <2>2. CASE i # 1
      <3>1. i \in 2 .. Len(s) BY <1>1, <2>2
      <3>2. QED BY <1>3, <3>1 DEF Alike
    <2>3. QED BY <2>1, <2>2
  <1>5. QED BY <1>2, <1>3, <1>4 DEF t, c

LEMMA RewoundShape ==
  ASSUME QueuesIn, Starts(oldqueue, newdata)
  PROVE  /\ Rewound \in Seq(Buf) /\ Len(Rewound) = Len(newdata)
         /\ \A i \in 1 .. Len(newdata) : Alike(Rewound[i], newdata[i]) /\ Rewound[i].start = 0
  <1>1. CASE newdata = <<>>
    <2>1. Rewound = newdata /\ Len(newdata) = 0 BY <1>1 DEF Rewound
    <2>2. QED BY <2>1 DEF QueuesIn
  <1>2. CASE newdata # <<>>
    <2>1. newdata \in Seq(Buf) /\ Head(newdata) \in Buf BY <1>2 DEF QueuesIn
    <2>2. 0 \in 0 .. Head(newdata).len - 1 BY <2>1, BufParts
    <2>3. Rewound = <<[Head(newdata) EXCEPT !.start = 0]>> \o Tail(newdata) BY <1>2 DEF Rewound
    <2>4. /\ Rewound \in Seq(Buf) /\ Len(Rewound) = Len(newdata) /\ Rewound[1].start = 0
          /\ \A i \in 1 .. Len(newdata) : Alike(Rewound[i], newdata[i])
          /\ \A i \in 2 .. Len(newdata) : Rewound[i] = newdata[i]
          BY <1>2, <2>1, <2>2, <2>3, HeadStarts
    <2>5. \A i \in 1 .. Len(newdata) : Rewound[i].start = 0
      <3> SUFFICES ASSUME NEW i \in 1 .. Len(newdata) PROVE Rewound[i].start = 0 OBVIOUS
      <3>1. CASE i = 1 BY <2>4, <3>1
      <3>2. CASE i # 1
        <4>1. i \in 2 .. Len(newdata) BY <2>1, <3>2
        <4>2. QED BY <2>4, <4>1 DEF Starts
      <3>3. QED BY <3>1, <3>2
    <2>6. QED BY <2>4, <2>5
  <1>3. QED BY <1>1, <1>2

LEMMA RewoundMoved ==
  ASSUME QueuesIn, Starts(oldqueue, newdata)
  PROVE  Moved(oldqueue, Rewound, 0)
  <1> DEFINE n == Len(newdata)
             o == Len(oldqueue)
  <1>0. /\ Rewound \in Seq(Buf) /\ Len(Rewound) = n /\ n \in Nat /\ o \in Nat
        /\ \A i \in 1 .. n : Alike(Rewound[i], newdata[i]) /\ Rewound[i].start = 0
        BY RewoundShape DEF QueuesIn
  <1>1. Starts(oldqueue, Rewound)
    <2>1. \A i \in 2 .. n : i \in 1 .. n BY <1>0
    <2>2. QED BY <1>0, <2>1 DEF Starts
  <1>2. \A i \in 1 .. o + n : Alike(Nth(oldqueue, Rewound, i), Nth(oldqueue, newdata, i))
    <2> SUFFICES ASSUME NEW i \in 1 .. o + n
                 PROVE  Alike(Nth(oldqueue, Rewound, i), Nth(oldqueue, newdata, i))
        OBVIOUS
    <2>1. CASE i <= o BY <2>1 DEF Nth, Alike
    <2>2. CASE ~(i <= o)
      <3>1. i - o \in 1 .. n BY <1>0, <2>2
      <3>2. QED BY <1>0, <2>2, <3>1 DEF Nth
    <2>3. QED BY <2>1, <2>2
  <1>3. Len(oldqueue) + Len(Rewound) = o + n /\ o + n + 0 = o + n BY <1>0
  <1>4. QED BY <1>0, <1>1, <1>2, <1>3 DEF Moved, QueuesIn

(* The first of the buffers that a seek leaves to be read, where it can. *)
LEMMA FromShape ==
  ASSUME NEW b \in Buf, Within(b), call.off \in Int
  PROVE  From(b) \in Buf /\ Alike(From(b), b)
  <1>1. call.off - b.pos \in Int /\ b.len \in Int BY BufParts
  <1>2. call.off - b.pos \in 0 .. b.len - 1 BY <1>1 DEF Within
  <1>3. QED BY <1>2, BufStart DEF From

(* A seek forward moves the first buffers to the old data. *)
LEMMA ForwardMoves ==
  ASSUME QueuesIn, Starts(oldqueue, newdata), call.off \in Int
  PROVE  Moved(Forward.old, Forward.new, 0)
  <1> DEFINE D    == {i \in DOMAIN Rewound : \A j \in 1 .. i : Rewound[j].pos + Rewound[j].len < call.off}
             past == Cardinality(D)
             rest == SubSeq(Rewound, past + 1, Len(Rewound))
             gone == SubSeq(Rewound, 1, past)
             ok   == rest # <<>> /\ Within(Head(rest))
             new  == IF ok THEN <<From(Head(rest))>> \o Tail(rest) ELSE rest
             old  == oldqueue \o gone
             n    == Len(newdata)
             o    == Len(oldqueue)
  <1>1. /\ Rewound \in Seq(Buf) /\ Len(Rewound) = n /\ n \in Nat /\ o \in Nat
        /\ \A i \in 1 .. n : Alike(Rewound[i], newdata[i]) /\ Rewound[i].start = 0
        BY RewoundShape DEF QueuesIn
  <1>2. past \in 0 .. n
    <2>1. IsSeq(Rewound) BY <1>1 DEF IsSeq
    <2>2. D \in SUBSET DOMAIN Rewound OBVIOUS
    <2> HIDE DEF D
    <2>3. QED BY <1>1, <2>1, <2>2, CountInSeq
  <1>3. Forward = IF call.off - call.cur > DataSize(newdata)
                  THEN [new |-> Rewound, old |-> oldqueue, ok |-> FALSE]
                  ELSE [new |-> new, old |-> old, ok |-> ok]
        BY DEF Forward
  <1> HIDE DEF past, D
  <1>4. /\ rest \in Seq(Buf) /\ Len(rest) = n - past
        /\ \A i \in 1 .. n - past : rest[i] = Rewound[past + i]
    <2>1. past + 1 \in Nat \ {0} /\ n \in Int /\ n <= Len(Rewound) BY <1>1, <1>2
    <2>2. /\ rest \in Seq(Buf) /\ Len(rest) = IF past + 1 <= n THEN n - (past + 1) + 1 ELSE 0
          /\ \A i \in 1 .. n - (past + 1) + 1 : rest[i] = Rewound[past + 1 + i - 1]
          BY <1>1, <2>1, PartAt
    <2> HIDE DEF rest
    <2>3. QED BY <1>1, <1>2, <2>2
  <1>5. /\ gone \in Seq(Buf) /\ Len(gone) = past /\ \A i \in 1 .. past : gone[i] = Rewound[i]
    <2>1. past \in Int /\ past <= Len(Rewound) BY <1>1, <1>2
    <2>2. /\ gone \in Seq(Buf) /\ Len(gone) = IF 1 <= past THEN past - 1 + 1 ELSE 0
          /\ \A i \in 1 .. past - 1 + 1 : gone[i] = Rewound[1 + i - 1]
          BY <1>1, <2>1, PartAt
    <2> HIDE DEF gone
    <2>3. QED BY <1>1, <1>2, <2>2
  <1> HIDE DEF rest, gone
  <1>6. /\ old \in Seq(Buf) /\ Len(old) = o + past
        /\ \A i \in 1 .. o + past : old[i] = IF i <= o THEN oldqueue[i] ELSE Rewound[i - o]
    <2>1. oldqueue \in Seq(Buf) /\ gone \in Seq(Buf) BY <1>5 DEF QueuesIn
    <2>2. /\ old \in Seq(Buf) /\ Len(old) = o + Len(gone)
          /\ \A i \in 1 .. o + Len(gone) : old[i] = IF i <= o THEN oldqueue[i] ELSE gone[i - o]
          BY <2>1, ConcatProperties
    <2> HIDE DEF old
    <2>3. QED BY <1>1, <1>2, <1>5, <2>2
  <1>7. /\ new \in Seq(Buf) /\ Len(new) = n - past
        /\ \A i \in 1 .. n - past : Alike(new[i], Rewound[past + i])
        /\ \A i \in 2 .. n - past : new[i].start = 0
    <2>1. CASE ok
      <3>1. rest # <<>> /\ Head(rest) \in Buf /\ Within(Head(rest)) BY <1>4, <2>1
      <3>2. LET x == call.off - Head(rest).pos
            IN x \in 0 .. Head(rest).len - 1 /\ From(Head(rest)) = [Head(rest) EXCEPT !.start = x]
        <4>1. call.off - Head(rest).pos \in Int /\ Head(rest).len \in Int BY <3>1, BufParts
        <4>2. QED BY <3>1, <4>1 DEF From, Within
      <3>3. new = <<From(Head(rest))>> \o Tail(rest) BY <2>1
      <3> HIDE DEF new
      <3>4. /\ new \in Seq(Buf) /\ Len(new) = Len(rest)
            /\ \A i \in 1 .. Len(rest) : Alike(new[i], rest[i])
            /\ \A i \in 2 .. Len(rest) : new[i] = rest[i]
            BY <1>4, <3>1, <3>2, <3>3, HeadStarts, SMTT(30)
      <3>5. \A i \in 2 .. n - past : i \in 1 .. n - past /\ past + i \in 1 .. n BY <1>1, <1>2
      <3>6. QED BY <1>1, <1>4, <3>4, <3>5
    <2>2. CASE ~ok
      <3>1. new = rest BY <2>2
      <3>2. \A i \in 1 .. n - past : past + i \in 1 .. n /\ i \in 1 .. n - past BY <1>1, <1>2
      <3>3. \A i \in 2 .. n - past : i \in 1 .. n - past BY <1>1, <1>2
      <3> HIDE DEF new
      <3>4. QED BY <1>1, <1>4, <3>1, <3>2, <3>3 DEF Alike
    <2>3. QED BY <2>1, <2>2
  <1> HIDE DEF old, new, ok
  <1>8. Starts(old, new)
    <2>1. \A i \in 1 .. o + past : old[i].start = 0
      <3> SUFFICES ASSUME NEW i \in 1 .. o + past PROVE old[i].start = 0 OBVIOUS
      <3>1. CASE i <= o BY <1>1, <1>6, <3>1 DEF Starts
      <3>2. CASE i > o
        <4>1. old[i] = Rewound[i - o] /\ i - o \in 1 .. n BY <1>1, <1>2, <1>6, <3>2
        <4>2. QED BY <1>1, <4>1
      <3>3. QED BY <1>1, <3>1, <3>2
    <2>2. QED BY <1>6, <1>7, <2>1 DEF Starts
  <1>9. \A i \in 1 .. o + n : Alike(Nth(old, new, i), Nth(oldqueue, newdata, i))
    <2> SUFFICES ASSUME NEW i \in 1 .. o + n
                 PROVE  Alike(Nth(old, new, i), Nth(oldqueue, newdata, i))
        OBVIOUS
    <2>1. CASE i <= o
      <3>1. old[i] = oldqueue[i] /\ i <= Len(old) BY <1>1, <1>2, <1>6, <2>1
      <3>2. QED BY <2>1, <3>1 DEF Nth, Alike
    <2>2. CASE i > o /\ i <= o + past
      <3>1. old[i] = Rewound[i - o] /\ i <= Len(old) /\ i - o \in 1 .. n BY <1>1, <1>2, <1>6, <2>2
      <3>2. Alike(Rewound[i - o], newdata[i - o]) BY <1>1, <3>1
      <3>3. ~(i <= Len(oldqueue)) BY <1>1, <2>2
      <3>4. QED BY <3>1, <3>2, <3>3 DEF Nth
    <2>3. CASE i > o + past
      <3>1. /\ i - Len(old) \in 1 .. n - past /\ ~(i <= Len(old)) /\ ~(i <= o)
            /\ past + (i - Len(old)) = i - o /\ i - o \in 1 .. n
        <4>1. Len(old) = o + past /\ o \in Nat /\ past \in Nat /\ n \in Nat /\ i \in 1 .. o + n /\ i > o + past
              BY <1>1, <1>2, <1>6, <2>3
        <4>2. QED BY <4>1
      <3>2. Alike(new[i - Len(old)], Rewound[i - o]) BY <1>7, <3>1
      <3>3. Alike(Rewound[i - o], newdata[i - o]) BY <1>1, <3>1
      <3>4. QED BY <3>1, <3>2, <3>3 DEF Nth, Alike
    <2>4. QED BY <1>1, <1>2, <2>1, <2>2, <2>3
  <1>10. Moved(old, new, 0)
    <2>1. Len(old) + Len(new) = o + n /\ Len(old) + Len(new) + 0 = Len(oldqueue) + Len(newdata)
          BY <1>1, <1>2, <1>6, <1>7
    <2>2. QED BY <1>6, <1>7, <1>8, <1>9, <2>1 DEF Moved
  <1>11. Moved(oldqueue, Rewound, 0) BY RewoundMoved
  <1>12. QED BY <1>3, <1>10, <1>11

(* A seek backward moves the last of the old data back.  One buffer at most is lost. *)
LEMMA BackwardMoves ==
  ASSUME QueuesIn, Starts(oldqueue, newdata), call.off \in Int
  PROVE  Moved(Backward.old, Backward.new, 0) \/ Moved(Backward.old, Backward.new, 1)
  <1> DEFINE D    == {i \in DOMAIN oldqueue : \A j \in i .. Len(oldqueue) : oldqueue[j].pos > call.off}
             last == Len(oldqueue) - Cardinality(D)
             back == SubSeq(oldqueue, last + 1, Len(oldqueue))
             rest == back \o Rewound
             ok   == last > 0 /\ Within(oldqueue[last])
             new  == IF ok THEN <<From(oldqueue[last])>> \o rest ELSE rest
             old  == SubSeq(oldqueue, 1, last - 1)
             n    == Len(newdata)
             o    == Len(oldqueue)
  <1>1. /\ Rewound \in Seq(Buf) /\ Len(Rewound) = n /\ n \in Nat /\ o \in Nat
        /\ \A i \in 1 .. n : Alike(Rewound[i], newdata[i]) /\ Rewound[i].start = 0
        BY RewoundShape DEF QueuesIn
  <1>2. last \in 0 .. o
    <2>1. IsSeq(oldqueue) BY DEF IsSeq, QueuesIn
    <2>2. D \in SUBSET DOMAIN oldqueue OBVIOUS
    <2> HIDE DEF D
    <2>3. Cardinality(D) \in 0 .. o BY <2>1, <2>2, CountInSeq
    <2>4. QED BY <1>1, <2>3
  <1>3. Backward = IF call.cur - call.off > DataSize(oldqueue)
                   THEN [new |-> Rewound, old |-> oldqueue, ok |-> FALSE]
                   ELSE [new |-> new, old |-> old, ok |-> ok]
        BY DEF Backward
  <1> HIDE DEF last, D
  <1>4. /\ back \in Seq(Buf) /\ Len(back) = o - last
        /\ \A i \in 1 .. o - last : back[i] = oldqueue[last + i]
    <2>1. last + 1 \in Nat \ {0} /\ o \in Int /\ o <= Len(oldqueue) BY <1>1, <1>2
    <2>2. /\ back \in Seq(Buf) /\ Len(back) = IF last + 1 <= o THEN o - (last + 1) + 1 ELSE 0
          /\ \A i \in 1 .. o - (last + 1) + 1 : back[i] = oldqueue[last + 1 + i - 1]
          BY <2>1, PartAt DEF QueuesIn
    <2> HIDE DEF back
    <2>3. QED BY <1>1, <1>2, <2>2, SMTT(30)
  <1>5. /\ old \in Seq(Buf) /\ Len(old) = IF last = 0 THEN 0 ELSE last - 1
        /\ \A i \in 1 .. last - 1 : old[i] = oldqueue[i]
    <2>1. last - 1 \in Int /\ last - 1 <= Len(oldqueue) BY <1>1, <1>2
    <2>2. /\ old \in Seq(Buf) /\ Len(old) = IF 1 <= last - 1 THEN last - 1 - 1 + 1 ELSE 0
          /\ \A i \in 1 .. last - 1 - 1 + 1 : old[i] = oldqueue[1 + i - 1]
          BY <1>1, <2>1, PartAt DEF QueuesIn
    <2> HIDE DEF old
    <2>3. QED BY <1>1, <1>2, <2>2
  <1> HIDE DEF back, old
  <1>6. /\ rest \in Seq(Buf) /\ Len(rest) = o - last + n
        /\ \A i \in 1 .. o - last + n :
             rest[i] = IF i <= o - last THEN oldqueue[last + i] ELSE Rewound[i - (o - last)]
    <2>1. /\ rest \in Seq(Buf) /\ Len(rest) = Len(back) + n
          /\ \A i \in 1 .. Len(back) + n : rest[i] = IF i <= Len(back) THEN back[i] ELSE Rewound[i - Len(back)]
      <3>1. back \in Seq(Buf) /\ Rewound \in Seq(Buf) BY <1>1, <1>4
      <3>2. /\ rest \in Seq(Buf) /\ Len(rest) = Len(back) + Len(Rewound)
            /\ \A i \in 1 .. Len(back) + Len(Rewound) :
                 rest[i] = IF i <= Len(back) THEN back[i] ELSE Rewound[i - Len(back)]
            BY <3>1, ConcatProperties
      <3>3. Len(Rewound) = n BY <1>1
      <3>4. QED BY <3>2, <3>3
    <2> HIDE DEF rest
    <2>2. QED BY <1>1, <1>2, <1>4, <2>1
  <1> HIDE DEF rest
  <1>7. /\ \A i \in 1 .. o - last + n : rest[i].start = 0
        /\ \A i \in 1 .. o - last + n : Alike(rest[i], Nth(oldqueue, newdata, last + i))
    <2> SUFFICES ASSUME NEW i \in 1 .. o - last + n
                 PROVE  rest[i].start = 0 /\ Alike(rest[i], Nth(oldqueue, newdata, last + i))
        OBVIOUS
    <2>1. CASE i <= o - last
      <3>1. rest[i] = oldqueue[last + i] /\ last + i \in 1 .. o /\ last + i <= o
            BY <1>1, <1>2, <1>6, <2>1
      <3>2. QED BY <3>1 DEF Starts, Nth, Alike
    <2>2. CASE i > o - last
      <3>1. i - (o - last) \in 1 .. n /\ (last + i) - o = i - (o - last) /\ ~(last + i <= o)
            BY <1>1, <1>2, <2>2
      <3>2. rest[i] = Rewound[i - (o - last)] BY <1>1, <1>2, <1>6, <2>2
      <3>3. Nth(oldqueue, newdata, last + i) = newdata[i - (o - last)]
        <4>1. Nth(oldqueue, newdata, last + i) = newdata[(last + i) - o] BY <3>1 DEF Nth
        <4>2. QED BY <3>1, <4>1
      <3>4. QED BY <1>1, <3>1, <3>2, <3>3
    <2>3. QED BY <1>1, <1>2, <2>1, <2>2
  <1>8. ASSUME last > 0, ~ok PROVE Moved(old, new, 1)
    <2>1. new = rest BY <1>8
    <2>2. Len(old) + Len(new) + 1 = o + n
      <3>1. Len(old) = last - 1 /\ Len(new) = o - last + n BY <1>2, <1>5, <1>6, <1>8, <2>1
      <3>2. QED BY <1>1, <1>2, <3>1
    <2>3. Starts(old, new)
      <3>1. \A i \in 1 .. Len(old) : i \in 1 .. last - 1 /\ i \in 1 .. o BY <1>1, <1>2, <1>5
      <3>2. \A i \in 2 .. Len(new) : i \in 1 .. o - last + n BY <1>1, <1>2, <1>6, <2>1
      <3>3. QED BY <1>5, <1>7, <2>1, <3>1, <3>2 DEF Starts
    <2> HIDE DEF new
    <2>4. QED BY <1>5, <1>6, <2>1, <2>2, <2>3 DEF Moved
  <1>9. ASSUME ok PROVE Moved(old, new, 0)
    <2>1. /\ last \in 1 .. o /\ oldqueue[last] \in Buf /\ Within(oldqueue[last]) BY <1>1, <1>2, <1>9 DEF QueuesIn
    <2>2. From(oldqueue[last]) \in Buf /\ Alike(From(oldqueue[last]), oldqueue[last]) BY <2>1, FromShape
    <2> DEFINE h == <<From(oldqueue[last])>>
    <2>3. h \in Seq(Buf) /\ Len(h) = 1 /\ h[1] = From(oldqueue[last]) BY <2>2
    <2>4. new = h \o rest BY <1>9
    <2> HIDE DEF h, new, ok
    <2>5. /\ new \in Seq(Buf) /\ Len(new) = 1 + (o - last + n)
          /\ \A i \in 1 .. 1 + (o - last + n) : new[i] = IF i <= 1 THEN h[i] ELSE rest[i - 1]
      <3>1. /\ h \o rest \in Seq(Buf) /\ Len(h \o rest) = Len(h) + Len(rest)
            /\ \A i \in 1 .. Len(h) + Len(rest) : (h \o rest)[i] = IF i <= Len(h) THEN h[i] ELSE rest[i - Len(h)]
        <4>1. h \in Seq(Buf) /\ rest \in Seq(Buf) BY <1>6, <2>3
        <4>2. QED BY <4>1, ConcatProperties
      <3>2. Len(h) = 1 /\ Len(rest) = o - last + n BY <1>6, <2>3
      <3>3. QED BY <2>4, <3>1, <3>2
    <2>6. Len(old) = last - 1 BY <1>5, <2>1
    <2>7. Len(old) + Len(new) = o + n /\ Len(old) + Len(new) + 0 = o + n BY <1>1, <2>1, <2>5, <2>6
    <2>8. Starts(old, new)
      <3>1. \A i \in 1 .. Len(old) : old[i].start = 0
        <4>1. \A i \in 1 .. Len(old) : i \in 1 .. last - 1 /\ i \in 1 .. o BY <1>1, <2>1, <2>6
        <4>2. QED BY <1>5, <4>1 DEF Starts
      <3>2. \A i \in 2 .. Len(new) : new[i].start = 0
        <4>1. \A i \in 2 .. Len(new) : /\ i \in 1 .. 1 + (o - last + n) /\ ~(i <= 1)
                                       /\ i - 1 \in 1 .. o - last + n
              BY <1>1, <2>1, <2>5
        <4>2. QED BY <1>7, <2>5, <4>1
      <3>3. QED BY <3>1, <3>2 DEF Starts
    <2>9. \A i \in 1 .. o + n : Alike(Nth(old, new, i), Nth(oldqueue, newdata, i))
      <3> SUFFICES ASSUME NEW i \in 1 .. o + n
                   PROVE  Alike(Nth(old, new, i), Nth(oldqueue, newdata, i))
          OBVIOUS
      <3>1. CASE i < last
        <4>1. i \in 1 .. last - 1 /\ i <= Len(old) /\ i <= o BY <1>1, <2>1, <2>6, <3>1
        <4>2. QED BY <1>5, <4>1 DEF Nth, Alike
      <3>2. CASE i = last
        <4>1. i - Len(old) = 1 /\ ~(i <= Len(old)) /\ i <= o /\ 1 \in 1 .. 1 + (o - last + n)
              BY <1>1, <2>1, <2>6, <3>2
        <4>2. new[1] = From(oldqueue[last]) BY <2>3, <2>5, <4>1
        <4>3. QED BY <2>2, <3>2, <4>1, <4>2 DEF Nth
      <3>3. CASE i > last
        <4> DEFINE k == i - last
        <4>1. /\ k \in 1 .. o - last + n /\ i - Len(old) = k + 1 /\ ~(i <= Len(old)) /\ i = last + k
              /\ k + 1 \in 1 .. 1 + (o - last + n) /\ ~(k + 1 <= 1) /\ k + 1 - 1 = k
              BY <1>1, <2>1, <2>6, <3>3
        <4> HIDE DEF k
        <4>2. new[k + 1] = rest[k] BY <2>5, <4>1
        <4>3. Nth(old, new, i) = rest[k] BY <4>1, <4>2 DEF Nth
        <4>4. QED BY <1>7, <4>1, <4>3
      <3>4. QED BY <1>1, <2>1, <3>1, <3>2, <3>3
    <2>10. QED BY <1>5, <2>5, <2>7, <2>8, <2>9 DEF Moved
  <1>10. ASSUME last = 0 PROVE Moved(old, new, 0)
    <2>1. new = rest BY <1>10
    <2> HIDE DEF new, ok
    <2>2. Len(old) = 0 /\ Len(new) = o + n /\ Len(old) + Len(new) = o + n /\ Len(old) + Len(new) + 0 = o + n
          BY <1>1, <1>5, <1>6, <1>10, <2>1
    <2>3. Starts(old, new)
      <3>1. \A i \in 2 .. o + n : i \in 1 .. o - last + n BY <1>1, <1>10
      <3>2. QED BY <1>7, <2>1, <2>2, <3>1 DEF Starts
    <2>4. \A i \in 1 .. o + n : Alike(Nth(old, new, i), Nth(oldqueue, newdata, i))
      <3> SUFFICES ASSUME NEW i \in 1 .. o + n
                   PROVE  Alike(Nth(old, new, i), Nth(oldqueue, newdata, i))
          OBVIOUS
      <3>1. i \in 1 .. o - last + n /\ last + i = i /\ ~(i <= Len(old)) /\ i - Len(old) = i
            BY <1>1, <1>10, <2>2
      <3>2. Nth(old, new, i) = rest[i] BY <2>1, <3>1 DEF Nth
      <3>3. QED BY <1>7, <3>1, <3>2
    <2>5. QED BY <1>5, <1>6, <2>1, <2>2, <2>3, <2>4 DEF Moved
  <1>11. Moved(oldqueue, Rewound, 0) BY RewoundMoved
  <1> HIDE DEF new
  <1>12. Moved(old, new, 0) \/ Moved(old, new, 1)
    <2>1. last = 0 \/ last > 0 BY <1>2
    <2>2. QED BY <1>8, <1>9, <1>10, <2>1
  <1> HIDE DEF ok
  <1>13. QED BY <1>3, <1>11, <1>12

(* A read takes of the first of the new data; a buffer read to its end is old. *)
LEMMA SmallerOfTwo ==
  ASSUME NEW a \in Int, NEW b \in Int
  PROVE  Min({a, b}) = IF a <= b THEN a ELSE b
  <1> DEFINE m == IF a <= b THEN a ELSE b
  <1>1. m \in {a, b} /\ \A y \in {a, b} : m <= y OBVIOUS
  <1>2. \A x \in {a, b} : (\A y \in {a, b} : x <= y) => x = m OBVIOUS
  <1>3. Min({a, b}) = CHOOSE x \in {a, b} : \A y \in {a, b} : x <= y BY DEF Min
  <1> HIDE DEF m
  <1>4. Min({a, b}) = m BY <1>1, <1>2, <1>3
  <1>5. QED BY <1>4 DEF m

LEMMA TakeMoves ==
  ASSUME QueuesIn, Starts(oldqueue, newdata), call.size \in Nat, Take
  PROVE  Moved(oldqueue', newdata', 0)
  <1> DEFINE buf == Head(newdata)
             n   == Min({buf.len - buf.start, call.size})
             N   == Len(newdata)
             o   == Len(oldqueue)
  <1>1. newdata # <<>> /\ newdata \in Seq(Buf) /\ oldqueue \in Seq(Buf) BY DEF Take, QueuesIn
  <1>2. buf \in Buf /\ buf = newdata[1] /\ N \in Nat \ {0} /\ o \in Nat BY <1>1
  <1>3. buf.len \in Nat \ {0} /\ buf.start \in 0 .. buf.len - 1 BY <1>2, BufParts
  <1>4. n \in Nat /\ n <= buf.len - buf.start
    <2>1. buf.len - buf.start \in Nat BY <1>3
    <2> HIDE DEF buf
    <2>2. QED BY <2>1, SmallerOfTwo
  <1>5. \/ /\ n < buf.len - buf.start /\ oldqueue' = oldqueue
           /\ newdata' = <<[buf EXCEPT !.start = @ + n]>> \o Tail(newdata)
        \/ newdata' = Tail(newdata) /\ oldqueue' = Append(oldqueue, [buf EXCEPT !.start = 0])
        BY DEF Take
  <1> HIDE DEF n
  <1>6. CASE /\ n < buf.len - buf.start /\ oldqueue' = oldqueue
             /\ newdata' = <<[buf EXCEPT !.start = @ + n]>> \o Tail(newdata)
    <2> DEFINE x == buf.start + n
    <2>1. x \in 0 .. buf.len - 1 BY <1>3, <1>4, <1>6
    <2>2. newdata' = <<[Head(newdata) EXCEPT !.start = x]>> \o Tail(newdata) BY <1>6
    <2> HIDE DEF x
    <2>3. /\ newdata' \in Seq(Buf) /\ Len(newdata') = N
          /\ \A i \in 1 .. N : Alike(newdata'[i], newdata[i])
          /\ \A i \in 2 .. N : newdata'[i] = newdata[i]
          BY <1>1, <2>1, <2>2, HeadStarts
    <2>4. Starts(oldqueue', newdata') BY <1>6, <2>3 DEF Starts
    <2>5. \A i \in 1 .. o + N : Alike(Nth(oldqueue', newdata', i), Nth(oldqueue, newdata, i))
      <3> SUFFICES ASSUME NEW i \in 1 .. o + N
                   PROVE  Alike(Nth(oldqueue', newdata', i), Nth(oldqueue, newdata, i))
          OBVIOUS
      <3>1. CASE i <= o BY <1>6, <3>1 DEF Nth, Alike
      <3>2. CASE ~(i <= o)
        <4>1. i - o \in 1 .. N BY <1>2, <3>2
        <4>2. QED BY <1>6, <2>3, <3>2, <4>1 DEF Nth
      <3>3. QED BY <3>1, <3>2
    <2>6. Len(oldqueue') + Len(newdata') = o + N /\ Len(oldqueue') + Len(newdata') + 0 = o + N
          BY <1>2, <1>6, <2>3
    <2>7. QED BY <1>1, <1>6, <2>3, <2>4, <2>5, <2>6 DEF Moved
  <1>7. CASE newdata' = Tail(newdata) /\ oldqueue' = Append(oldqueue, [buf EXCEPT !.start = 0])
    <2> DEFINE c == [buf EXCEPT !.start = 0]
    <2>1. 0 \in 0 .. buf.len - 1 BY <1>3
    <2>2. c \in Buf /\ Alike(c, buf) /\ c.start = 0 BY <1>2, <2>1, BufStart
    <2> HIDE DEF c
    <2>3. newdata' \in Seq(Buf) /\ Len(newdata') = N - 1 /\ \A i \in 1 .. N - 1 : newdata'[i] = newdata[i + 1]
          BY <1>1, <1>7
    <2>4. /\ oldqueue' \in Seq(Buf) /\ Len(oldqueue') = o + 1
          /\ \A i \in 1 .. o : oldqueue'[i] = oldqueue[i]
          /\ oldqueue'[o + 1] = c
      <3>1. oldqueue' = Append(oldqueue, c) BY <1>7 DEF c
      <3>2. QED BY <1>1, <2>2, <3>1, AppendProperties
    <2>5. Starts(oldqueue', newdata')
      <3>1. \A i \in 1 .. o + 1 : oldqueue'[i].start = 0
        <4> SUFFICES ASSUME NEW i \in 1 .. o + 1 PROVE oldqueue'[i].start = 0 OBVIOUS
        <4>1. CASE i = o + 1 BY <2>2, <2>4, <4>1
        <4>2. CASE i # o + 1
          <5>1. i \in 1 .. o BY <1>2, <4>2
          <5>2. QED BY <2>4, <5>1 DEF Starts
        <4>3. QED BY <4>1, <4>2
      <3>2. \A i \in 2 .. N - 1 : newdata'[i].start = 0
        <4>1. \A i \in 2 .. N - 1 : i \in 1 .. N - 1 /\ i + 1 \in 2 .. N BY <1>2
        <4>2. QED BY <2>3, <4>1 DEF Starts
      <3>3. QED BY <2>3, <2>4, <3>1, <3>2 DEF Starts
    <2>6. \A i \in 1 .. o + N : Alike(Nth(oldqueue', newdata', i), Nth(oldqueue, newdata, i))
      <3> SUFFICES ASSUME NEW i \in 1 .. o + N
                   PROVE  Alike(Nth(oldqueue', newdata', i), Nth(oldqueue, newdata, i))
          OBVIOUS
      <3>1. CASE i <= o
        <4>1. i \in 1 .. o /\ i <= o + 1 BY <1>2, <3>1
        <4>2. QED BY <2>4, <4>1 DEF Nth, Alike
      <3>2. CASE i = o + 1
        <4>1. i <= o + 1 /\ ~(i <= o) /\ i - o = 1 BY <1>2, <3>2
        <4>2. QED BY <1>2, <2>2, <2>4, <3>2, <4>1 DEF Nth
      <3>3. CASE i > o + 1
        <4>1. i - (o + 1) \in 1 .. N - 1 /\ (i - (o + 1)) + 1 = i - o /\ ~(i <= o + 1) /\ ~(i <= o)
              BY <1>2, <3>3
        <4>2. newdata'[i - (o + 1)] = newdata[i - o] BY <2>3, <4>1
        <4>3. Nth(oldqueue', newdata', i) = newdata'[i - (o + 1)] BY <2>4, <4>1 DEF Nth
        <4>4. Nth(oldqueue, newdata, i) = newdata[i - o] BY <4>1 DEF Nth
        <4>5. QED BY <4>2, <4>3, <4>4 DEF Alike
      <3>4. QED BY <1>2, <3>1, <3>2, <3>3
    <2>7. Len(oldqueue') + Len(newdata') = o + N /\ Len(oldqueue') + Len(newdata') + 0 = o + N
          BY <1>2, <2>3, <2>4
    <2>8. QED BY <2>3, <2>4, <2>5, <2>6, <2>7 DEF Moved
  <1>8. QED BY <1>5, <1>6, <1>7
-----------------------------------------------------------------------------
(* The invariant.  What the fields hold, but for the answers of a seek, whose
   places must be ones that an int of the code can hold: *)
FieldsOK ==
  /\ opened \in BOOLEAN /\ request_exit \in BOOLEAN /\ request_seek \in BOOLEAN /\ inseeking \in BOOLEAN
  /\ error \in Errors \cup {0} /\ fatal_error \in Errors \cup {0}
  /\ tpc \in SeekSteps \cup {"loop", "get", "few", "read", "push", "exited"}
  /\ rpc \in {"open", "idle", "take", "check", "look", "where", "move", "range", "see", "ask", "wait",
              "join", "released"}
  /\ seeks \in 0 .. MaxSeeks
CallIn ==
  /\ IsCall(call) /\ call.off \in Places /\ call.size \in 0 .. ReadSize
  /\ call.op \in {"none", "open", "read", "seek", "close"}
  /\ seek_offset \in Places
AnswersOK == LET PlaceOrNone == Places \cup {NONE}
             IN seek_ret \in PlaceOrNone /\ ret \in PlaceOrNone /\ answer \in PlaceOrNone

(* the buffers in hand and in the queues, and how many there are: *)
HandIn == IF tpc = "push" THEN hand \in Buf /\ hand.start = 0 /\ hand.at + hand.len = place
                          ELSE hand = NoBuffer
StoreOK ==
  /\ QueuesIn /\ Starts(oldqueue, newdata)
  /\ freequeue \in Nat /\ allocated \in Nat /\ startpos \in Int /\ place \in Places /\ s_off \in Int
  /\ HandIn
  /\ Buffers <= allocated /\ Buffers <= NEWDATA_MAX + OLDDATA_MAX + 1

(* and that, until one is lost, they are one stretch of the stream.  The source
   is ahead of it only while the queues wait for the reset of a seek. *)
ThreadAt == IF tpc = "push" THEN hand.at ELSE place
Adjacent(old, new) ==
  \A i \in 1 .. Len(old) + Len(new) - 1 :
     Nth(old, new, i).at + Nth(old, new, i).len = Nth(old, new, i + 1).at
EndsAt(old, new, end) ==
  LET n == Len(old) + Len(new)
  IN n > 0 => Nth(old, new, n).at + Nth(old, new, n).len = end
(* How many buffers no queue has any more. *)
Lost == allocated - Buffers
StretchOK ==
  Buffers = allocated =>
    Adjacent(oldqueue, newdata) /\ (tpc # "reset" => EndsAt(oldqueue, newdata, ThreadAt))

(* Of buffers that have the same places a stretch stays one. *)
LEMMA AlikeStretch ==
  ASSUME NEW o \in Seq(Buf), NEW n \in Seq(Buf), NEW o2 \in Seq(Buf), NEW n2 \in Seq(Buf),
         Len(o2) + Len(n2) = Len(o) + Len(n),
         \A i \in 1 .. Len(o) + Len(n) : Alike(Nth(o2, n2, i), Nth(o, n, i))
  PROVE  /\ Adjacent(o, n) => Adjacent(o2, n2)
         /\ \A end : EndsAt(o, n, end) => EndsAt(o2, n2, end)
  <1> DEFINE k == Len(o) + Len(n)
  <1>1. k \in Nat /\ Len(o2) + Len(n2) = k OBVIOUS
  <1> HIDE DEF k
  <1>2. \A i \in 1 .. k : Nth(o2, n2, i).at = Nth(o, n, i).at /\ Nth(o2, n2, i).len = Nth(o, n, i).len
        BY DEF k, Alike
  <1>3. Adjacent(o, n) => Adjacent(o2, n2)
    <2> SUFFICES ASSUME Adjacent(o, n), NEW i \in 1 .. k - 1
                 PROVE  Nth(o2, n2, i).at + Nth(o2, n2, i).len = Nth(o2, n2, i + 1).at
        BY <1>1 DEF Adjacent
    <2>1. i \in 1 .. k /\ i + 1 \in 1 .. k BY <1>1
    <2>2. Nth(o, n, i).at + Nth(o, n, i).len = Nth(o, n, i + 1).at BY DEF Adjacent, k
    <2>3. QED BY <1>2, <2>1, <2>2
  <1>4. ASSUME NEW end, EndsAt(o, n, end) PROVE EndsAt(o2, n2, end)
    <2>1. k > 0 => k \in 1 .. k BY <1>1
    <2>2. k > 0 => Nth(o, n, k).at + Nth(o, n, k).len = end BY <1>4 DEF EndsAt, k
    <2>3. k > 0 => Nth(o2, n2, k).at + Nth(o2, n2, k).len = end BY <1>2, <2>1, <2>2
    <2>4. QED BY <1>1, <2>3 DEF EndsAt
  <1>5. QED BY <1>3, <1>4

LEMMA InitStore == Init => FieldsOK /\ CallIn /\ AnswersOK /\ StoreOK /\ StretchOK
  <1> SUFFICES ASSUME Init PROVE FieldsOK /\ CallIn /\ AnswersOK /\ StoreOK /\ StretchOK OBVIOUS
  <1>1. FieldsOK
    <2>1. seeks \in 0 .. MaxSeeks BY StreamAssumption DEF Init
    <2>2. /\ opened \in BOOLEAN /\ request_exit \in BOOLEAN /\ request_seek \in BOOLEAN /\ inseeking \in BOOLEAN
          BY DEF Init
    <2>3. error \in Errors \cup {0} /\ fatal_error \in Errors \cup {0} BY DEF Init
    <2>4. QED BY <2>1, <2>2, <2>3 DEF Init, FieldsOK
  <1>2. CallIn BY StreamAssumption DEF Init, CallIn, IsCall, Call, Places
  <1>3. AnswersOK BY StreamAssumption DEF Init, AnswersOK, Places
  <1>4. newdata = <<>> /\ oldqueue = <<>> /\ Len(<<>>) = 0 /\ <<>> \in Seq(Buf) BY DEF Init
  <1>5. StoreOK
    <2>1. QueuesIn /\ Starts(oldqueue, newdata) BY <1>4 DEF QueuesIn, Starts
    <2>2. Buffers = 0 BY <1>4 DEF Init, Buffers, Taken
    <2>3. QED BY <2>1, <2>2, StreamAssumption DEF Init, StoreOK, HandIn, Places
  <1>6. StretchOK BY <1>4 DEF StretchOK, Adjacent, EndsAt
  <1>7. QED BY <1>1, <1>2, <1>3, <1>5, <1>6
-----------------------------------------------------------------------------
(* Steps that leave the buffers where they are. *)
Idle == /\ UNCHANGED <<queues, source, hand>>
        /\ \/ tpc' = tpc
           \/ /\ {tpc, tpc'} \cap {"read", "push"} = {}
              /\ tpc = "reset" => tpc' = "reset"
LEMMA IdleKeeps == ASSUME Idle PROVE (StoreOK => StoreOK') /\ (StretchOK => StretchOK') /\ Lost' = Lost
  <1>1. /\ newdata' = newdata /\ oldqueue' = oldqueue /\ freequeue' = freequeue /\ startpos' = startpos
        /\ allocated' = allocated /\ place' = place /\ s_off' = s_off /\ hand' = hand
        BY DEF Idle, queues, source
  <1>2. Taken' = Taken /\ (tpc' = "push" <=> tpc = "push") /\ (tpc = "reset" => tpc' = "reset")
        BY DEF Idle, Taken
  <1>3. Buffers' = Buffers BY <1>1, <1>2 DEF Buffers
  <1>4. ThreadAt' = ThreadAt BY <1>1, <1>2 DEF ThreadAt
  <1>5. HandIn' <=> HandIn BY <1>1, <1>2 DEF HandIn
  <1>6. StoreOK => StoreOK' BY <1>1, <1>3, <1>5 DEF StoreOK, QueuesIn
  <1>7. StretchOK => StretchOK' BY <1>1, <1>2, <1>3, <1>4 DEF StretchOK
  <1>8. QED BY <1>1, <1>3, <1>6, <1>7 DEF Lost

(* Steps that move buffers between the queues. *)
LEMMA MovedKeeps ==
  ASSUME StoreOK, UNCHANGED <<freequeue, startpos, allocated, source, thread>>,
         NEW lost \in {0, 1}, Moved(oldqueue', newdata', lost)
  PROVE  StoreOK' /\ (StretchOK => StretchOK') /\ Lost' = Lost + lost
  <1>1. /\ freequeue' = freequeue /\ startpos' = startpos /\ allocated' = allocated
        /\ place' = place /\ s_off' = s_off /\ tpc' = tpc /\ hand' = hand
        BY DEF source, thread
  <1>2. /\ oldqueue' \in Seq(Buf) /\ newdata' \in Seq(Buf) /\ Starts(oldqueue', newdata')
        /\ Len(oldqueue') + Len(newdata') + lost = Len(oldqueue) + Len(newdata)
        BY DEF Moved
  <1>3. oldqueue \in Seq(Buf) /\ newdata \in Seq(Buf) BY DEF StoreOK, QueuesIn
  <1>4. /\ Len(oldqueue) \in Nat /\ Len(newdata) \in Nat /\ Len(oldqueue') \in Nat /\ Len(newdata') \in Nat
        /\ freequeue \in Nat /\ allocated \in Nat
        BY <1>2, <1>3 DEF StoreOK
  <1>5. Buffers' = Buffers - lost /\ Buffers \in Nat
    <2>1. Taken' = Taken /\ Taken \in Nat BY <1>1 DEF Taken
    <2>2. QED BY <1>1, <1>2, <1>4, <2>1 DEF Buffers
  <1>6. StoreOK'
    <2>1. Buffers' <= Buffers BY <1>5
    <2>2. Buffers' <= allocated' /\ Buffers' <= NEWDATA_MAX + OLDDATA_MAX + 1
      <3>1. Buffers' \in Int BY <1>5
      <3>2. Buffers <= allocated /\ Buffers <= NEWDATA_MAX + OLDDATA_MAX + 1 BY DEF StoreOK
      <3>3. allocated' = allocated /\ allocated \in Nat BY <1>1, <1>4
      <3>4. NEWDATA_MAX + OLDDATA_MAX + 1 \in Int BY StreamAssumption
      <3> HIDE DEF Buffers
      <3>5. QED BY <1>5, <2>1, <3>1, <3>2, <3>3, <3>4
    <2>3. HandIn' BY <1>1 DEF StoreOK, HandIn
    <2>4. QED BY <1>1, <1>2, <2>2, <2>3 DEF StoreOK, QueuesIn
  <1>7. StretchOK => StretchOK'
    <2> SUFFICES ASSUME StretchOK, Buffers' = allocated'
                 PROVE  /\ Adjacent(oldqueue', newdata')
                        /\ tpc' # "reset" => EndsAt(oldqueue', newdata', ThreadAt')
        BY DEF StretchOK
    <2>1. lost = 0 /\ Buffers = allocated
      <3>1. Buffers <= allocated BY DEF StoreOK
      <3>2. QED BY <1>1, <1>4, <1>5, <3>1
    <2>2. /\ Len(oldqueue') + Len(newdata') = Len(oldqueue) + Len(newdata)
          /\ \A i \in 1 .. Len(oldqueue) + Len(newdata) :
               Alike(Nth(oldqueue', newdata', i), Nth(oldqueue, newdata, i))
      <3>1. Len(oldqueue') + Len(newdata') = Len(oldqueue) + Len(newdata) BY <1>2, <1>4, <2>1
      <3>2. QED BY <2>1, <3>1 DEF Moved
    <2>3. /\ Adjacent(oldqueue, newdata) => Adjacent(oldqueue', newdata')
          /\ \A end : EndsAt(oldqueue, newdata, end) => EndsAt(oldqueue', newdata', end)
          BY <1>2, <1>3, <2>2, AlikeStretch
    <2>4. ThreadAt' = ThreadAt BY <1>1 DEF ThreadAt
    <2>5. QED BY <1>1, <2>1, <2>3, <2>4 DEF StretchOK
  <1>8. Lost' = Lost + lost BY <1>1, <1>4, <1>5 DEF Lost
  <1>9. QED BY <1>6, <1>7, <1>8
-----------------------------------------------------------------------------
(* The fields. *)
LEMMA ThreadFields == ASSUME FieldsOK, CallIn, Thread PROVE FieldsOK' /\ CallIn'
  <1>1. rpc' = rpc /\ seeks' = seeks /\ call' = call /\ seek_offset' = seek_offset /\ request_exit' = request_exit
        BY DEF Thread, Exit, Round, SeekStream, Reset, Tell, SeekEnds, Clear, GetBuf, TooFew, Download,
               DownloadFails, Push, Goes, flags, seekv, reader
  <1>2. CallIn' BY <1>1 DEF CallIn
  <1>3. tpc' \in SeekSteps \cup {"loop", "get", "few", "read", "push", "exited"}
    <2>1. CASE Exit \/ Tell \/ SeekEnds \/ Clear \/ Reset \/ Download \/ Push
          BY <2>1 DEF Exit, Tell, SeekEnds, Clear, Reset, Download, Push, Goes, SeekSteps
    <2>2. CASE Round BY <2>2 DEF Round, SeekSteps
    <2>3. CASE SeekStream BY <2>3 DEF SeekStream, SeekSteps
    <2>4. CASE GetBuf BY <2>4 DEF GetBuf
    <2>5. CASE TooFew BY <2>5 DEF TooFew
    <2>6. CASE DownloadFails BY <2>6 DEF DownloadFails
    <2>7. QED BY <2>1, <2>2, <2>3, <2>4, <2>5, <2>6 DEF Thread
  <1>4. opened' \in BOOLEAN /\ request_seek' \in BOOLEAN /\ inseeking' \in BOOLEAN
    <2>1. CASE Round BY <2>1 DEF Round, FieldsOK
    <2>2. CASE Tell \/ SeekEnds \/ Clear BY <2>2 DEF Tell, SeekEnds, Clear, flags, FieldsOK
    <2>3. CASE Exit \/ SeekStream \/ Reset \/ GetBuf \/ TooFew \/ Download \/ DownloadFails \/ Push
          BY <2>3 DEF Exit, SeekStream, Reset, GetBuf, TooFew, Download, DownloadFails, Push, flags,
                      seekv, FieldsOK
    <2>4. QED BY <2>1, <2>2, <2>3 DEF Thread
  <1>5. error' \in Errors \cup {0} /\ fatal_error' \in Errors \cup {0}
    <2>1. CASE Round
      <3>1. /\ error' \in {error, EIO, 0}
            /\ fatal_error' \in {fatal_error, 0}
            BY <2>1 DEF Round
      <3>2. QED BY <3>1 DEF FieldsOK, Errors
    <2>2. CASE TooFew BY <2>2 DEF TooFew, FieldsOK, Errors
    <2>3. CASE DownloadFails
      <3>1. PICK r \in {EOF, EAGAIN, EIO} : /\ error' = r
                                            /\ fatal_error' = IF r = EOF THEN fatal_error ELSE r
            BY <2>3 DEF DownloadFails
      <3>2. QED BY <3>1 DEF FieldsOK, Errors
    <2>4. CASE Exit \/ SeekStream \/ Reset \/ Tell \/ SeekEnds \/ Clear \/ GetBuf \/ Download \/ Push
          BY <2>4 DEF Exit, SeekStream, Reset, Tell, SeekEnds, Clear, GetBuf, Download, Push, flags,
                      FieldsOK
    <2>5. QED BY <2>1, <2>2, <2>3, <2>4 DEF Thread
  <1>6. QED BY <1>1, <1>2, <1>3, <1>4, <1>5 DEF FieldsOK

(* The call in progress, as it goes on. *)
LEMMA NoCallIn == IsCall(NoCall) /\ NoCall.off \in Places /\ NoCall.size \in 0 .. ReadSize /\ NoCall.op = "none"
  BY StreamAssumption DEF NoCall, Call, IsCall, Places

CallKept == \/ call' = call \/ call' = NoCall
            \/ /\ IsCall(call') /\ call'.op = call.op /\ call'.off = call.off
               /\ call'.size = ReadSize \/ call'.size \in 0 .. call.size
LEMMA CallKeptIn == ASSUME CallIn, CallKept, seek_offset' \in Places PROVE CallIn'
  <1>1. ReadSize \in Nat BY StreamAssumption
  <1>2. CASE call' = call BY <1>2 DEF CallIn
  <1>3. CASE call' = NoCall BY <1>3, NoCallIn DEF CallIn
  <1>4. CASE /\ IsCall(call') /\ call'.op = call.op /\ call'.off = call.off
             /\ call'.size = ReadSize \/ call'.size \in 0 .. call.size
    <2>1. call'.size \in 0 .. ReadSize BY <1>1, <1>4 DEF CallIn
    <2>2. QED BY <1>4, <2>1 DEF CallIn
  <1>5. QED BY <1>2, <1>3, <1>4 DEF CallKept

LEMMA ReadEndsIn == ASSUME CallIn, NEW n, ReadEnds(n) PROVE CallKept /\ rpc' \in {"idle", "take", "see"}
  <1>1. CASE Return BY <1>1 DEF Return, CallKept
  <1>2. CASE /\ rpc' = IF call.left - n > 0 THEN "take" ELSE "see"
             /\ call' = [call EXCEPT !.left = call.left - n, !.size = ReadSize, !.got = 0]
    <2>1. call' = [op |-> call.op, size |-> ReadSize, got |-> 0, off |-> call.off, pos |-> call.pos,
                   cur |-> call.cur, left |-> call.left - n]
          BY <1>2 DEF CallIn, IsCall
    <2>2. IsCall(call') /\ call'.op = call.op /\ call'.off = call.off /\ call'.size = ReadSize
          BY <2>1 DEF IsCall
    <2>3. QED BY <1>2, <2>2 DEF CallKept
  <1>3. QED BY <1>1, <1>2 DEF ReadEnds

(* Fields of the call that say nothing of its size. *)
Reckons == \/ \E x : call' = [call EXCEPT !.pos = x]
           \/ \E x : call' = [call EXCEPT !.cur = x]
           \/ \E x : call' = [call EXCEPT !.left = x, !.size = ReadSize]
LEMMA Reckoned == ASSUME CallIn, Reckons PROVE CallKept
  <1>1. IsCall(call) /\ call.size \in 0 .. call.size
    <2>1. IsCall(call) /\ call.size \in 0 .. ReadSize BY DEF CallIn
    <2>2. ReadSize \in Nat BY StreamAssumption
    <2>3. \A r \in Nat : \A x \in 0 .. r : x \in 0 .. x OBVIOUS
    <2>4. QED BY <2>1, <2>2, <2>3, Zenon
  <1>2. CASE \E x : call' = [call EXCEPT !.pos = x] BY <1>1, <1>2 DEF IsCall, CallKept
  <1>3. CASE \E x : call' = [call EXCEPT !.cur = x] BY <1>1, <1>3 DEF IsCall, CallKept
  <1>4. CASE \E x : call' = [call EXCEPT !.left = x, !.size = ReadSize] BY <1>1, <1>4 DEF IsCall, CallKept
  <1>5. QED BY <1>2, <1>3, <1>4 DEF Reckons

LEMMA CallsFields == ASSUME FieldsOK, CallIn, Calls PROVE FieldsOK' /\ CallIn'
  <1>1. /\ opened' = opened /\ error' = error /\ fatal_error' = fatal_error /\ tpc' = tpc
        /\ request_seek' = request_seek /\ inseeking' = inseeking /\ seek_offset' = seek_offset
        BY DEF Calls, Read, Seek, Close, flags, seekv, thread
  <1>2. request_exit' \in BOOLEAN BY DEF Calls, Read, Seek, Close, flags, FieldsOK
  <1>3. rpc' \in {"take", "open", "join"} BY DEF Calls, Read, Seek, Close
  <1>4. seeks' \in 0 .. MaxSeeks
    <2>1. seeks \in 0 .. MaxSeeks /\ MaxSeeks \in Nat BY StreamAssumption DEF FieldsOK
    <2>2. seeks' = seeks \/ (seeks < MaxSeeks /\ seeks' = seeks + 1) BY DEF Calls, Read, Seek, Close
    <2>3. QED BY <2>1, <2>2
  <1>5. FieldsOK' BY <1>1, <1>2, <1>3, <1>4 DEF FieldsOK
  <1>6. /\ IsCall(call') /\ call'.off \in Places /\ call'.size \in 0 .. ReadSize
        /\ call'.op \in {"read", "seek", "close"}
    <2>1. 0 \in Places /\ 0 \in 0 .. ReadSize BY StreamAssumption DEF Places
    <2>2. \A size \in 1 .. ReadSize : size \in 0 .. ReadSize BY StreamAssumption
    <2>3. CASE Read BY <2>1, <2>2, <2>3 DEF Read, Call, IsCall
    <2>4. CASE Seek BY <2>1, <2>4 DEF Seek, Call, IsCall
    <2>5. CASE Close BY <2>1, <2>5 DEF Close, Call, IsCall
    <2>6. QED BY <2>3, <2>4, <2>5 DEF Calls
  <1>7. CallIn' BY <1>1, <1>6 DEF CallIn
  <1>8. QED BY <1>5, <1>7

LEMMA TakeCall ==
  ASSUME CallIn, QueuesIn, Take
  PROVE  CallKept /\ rpc' \in {"idle", "take", "see"}
  <1> DEFINE buf == Head(newdata)
             n   == Min({buf.len - buf.start, call.size})
  <1>1. call.size \in Nat /\ IsCall(call) /\ rpc = "take" BY StreamAssumption DEF CallIn, Take
  <1>2. n \in 0 .. call.size
    <2>1. newdata # <<>> BY DEF Take
    <2>2. buf \in Buf BY <2>1 DEF QueuesIn
    <2>3. buf.len - buf.start \in Nat BY <2>2, BufParts
    <2> HIDE DEF buf
    <2>4. QED BY <1>1, <2>3, SmallerOfTwo
  <1>3. \/ ReadEnds(call.got + n)
        \/ call' = [call EXCEPT !.size = @ - n, !.got = @ + n] /\ UNCHANGED rpc
        BY DEF Take
  <1> HIDE DEF n
  <1>4. CASE ReadEnds(call.got + n) BY <1>4, ReadEndsIn
  <1>5. CASE call' = [call EXCEPT !.size = @ - n, !.got = @ + n] /\ UNCHANGED rpc
    <2>1. call' = [op |-> call.op, size |-> call.size - n, got |-> call.got + n, off |-> call.off,
                   pos |-> call.pos, cur |-> call.cur, left |-> call.left]
          BY <1>1, <1>5 DEF IsCall
    <2>2. call.size - n \in 0 .. call.size BY <1>1, <1>2
    <2>3. IsCall(call') /\ call'.op = call.op /\ call'.off = call.off /\ call'.size = call.size - n
          BY <2>1 DEF IsCall
    <2>4. QED BY <1>1, <1>5, <2>2, <2>3 DEF CallKept
  <1>6. QED BY <1>3, <1>4, <1>5

LEMMA ReaderFields == ASSUME FieldsOK, CallIn, QueuesIn, ReaderSteps \/ Interrupt PROVE FieldsOK' /\ CallIn'
  <1>1. /\ opened' = opened /\ error' = error /\ fatal_error' = fatal_error /\ tpc' = tpc
        /\ request_exit' = request_exit /\ seeks' = seeks
        BY DEF ReaderSteps, Join, IsOpen, Take, FindsNone, Check, Look, Where, Move, InRange, See, Ask,
               Answered, Interrupt, flags, thread
  <1>2. seek_offset' \in Places
    <2>1. CASE Ask BY <2>1 DEF Ask, CallIn
    <2>2. CASE ~Ask
          BY <2>2 DEF ReaderSteps, Join, IsOpen, Take, FindsNone, Check, Look, Where, Move, InRange, See,
                      Answered, Interrupt, seekv, CallIn
    <2>3. QED BY <2>1, <2>2
  <1>3. request_seek' \in BOOLEAN /\ inseeking' \in BOOLEAN
    <2>1. CASE Ask BY <2>1 DEF Ask
    <2>2. CASE ~Ask
          BY <2>2 DEF ReaderSteps, Join, IsOpen, Take, FindsNone, Check, Look, Where, Move, InRange, See,
                      Answered, Interrupt, seekv, FieldsOK
    <2>3. QED BY <2>1, <2>2
  <1>4. /\ CallKept
        /\ rpc' \in {"idle", "take", "check", "look", "where", "move", "range", "see", "ask", "wait", "released"}
    <2>1. CASE Join BY <2>1 DEF Join, CallKept
    <2>2. CASE IsOpen BY <2>2 DEF IsOpen, Return, CallKept
    <2>3. CASE Take BY <2>3, TakeCall
    <2>4. CASE FindsNone
      <3>1. ReadEnds(call.got) \/ (rpc' = "check" /\ call' = call) BY <2>4 DEF FindsNone
      <3>2. QED BY <3>1, ReadEndsIn DEF CallKept
    <2>5. CASE Check BY <2>5 DEF Check, Return, CallKept
    <2>6. CASE Look BY <2>6, Reckoned DEF Look, Reckons
    <2>7. CASE Where
      <3>1. CASE Return BY <3>1 DEF Return, CallKept
      <3>2. CASE rpc' \in {"range", "move"} /\ call' = [call EXCEPT !.cur = BufPos] BY <3>2, Reckoned DEF Reckons
      <3>3. QED BY <2>7, <3>1, <3>2 DEF Where
    <2>8. CASE Move BY <2>8 DEF Move, Return, CallKept
    <2>9. CASE InRange
      <3>1. /\ rpc' \in {"take", "see"}
            /\ \E x : call' = [call EXCEPT !.left = x, !.size = ReadSize]
            BY <2>9 DEF InRange
      <3>2. QED BY <3>1, Reckoned DEF Reckons
    <2>10. CASE See BY <2>10 DEF See, Return, CallKept
    <2>11. CASE Ask BY <2>11 DEF Ask, CallKept
    <2>12. CASE Answered BY <2>12 DEF Answered, Return, CallKept
    <2>13. CASE Interrupt BY <2>13 DEF Interrupt, Return, CallKept
    <2>14. QED BY <2>1, <2>2, <2>3, <2>4, <2>5, <2>6, <2>7, <2>8, <2>9, <2>10, <2>11, <2>12, <2>13
               DEF ReaderSteps
  <1>5. FieldsOK' BY <1>1, <1>3, <1>4 DEF FieldsOK
  <1>6. QED BY <1>2, <1>4, <1>5, CallKeptIn
-----------------------------------------------------------------------------
(* The thread and the buffers. *)
LEMMA ResetStore == ASSUME StoreOK, Reset PROVE StoreOK' /\ StretchOK' /\ Lost' = Lost
  <1>1. /\ newdata' = <<>> /\ oldqueue' = <<>> /\ tpc = "reset" /\ tpc' = "tell" /\ hand' = hand
        /\ freequeue' = freequeue + Len(newdata) + Len(oldqueue)
        /\ startpos' = startpos + DataSize(newdata)
        /\ allocated' = allocated /\ place' = place /\ s_off' = s_off
        BY DEF Reset, Goes, source
  <1>2. newdata \in Seq(Buf) /\ oldqueue \in Seq(Buf) BY DEF StoreOK, QueuesIn
  <1>3. Len(newdata) \in Nat /\ Len(oldqueue) \in Nat /\ freequeue \in Nat BY <1>2 DEF StoreOK
  <1>4. Len(<<>>) = 0 /\ <<>> \in Seq(Buf) OBVIOUS
  <1>5. Buffers' = Buffers
    <2>1. Taken = 0 /\ Taken' = 0 BY <1>1 DEF Taken
    <2>2. Buffers = Len(newdata) + Len(oldqueue) + freequeue BY <1>3, <2>1 DEF Buffers
    <2>3. Buffers' = freequeue + Len(newdata) + Len(oldqueue) BY <1>1, <1>3, <1>4, <2>1 DEF Buffers
    <2>4. QED BY <1>3, <2>2, <2>3
  <1>6. startpos' \in Int BY <1>1, <1>2, DataSizeBounds DEF StoreOK
  <1>7. QueuesIn' /\ Starts(oldqueue', newdata') BY <1>1, <1>4 DEF QueuesIn, Starts
  <1>8. HandIn' BY <1>1 DEF StoreOK, HandIn
  <1>9. freequeue' \in Nat BY <1>1, <1>3
  <1>10. StoreOK' BY <1>1, <1>5, <1>6, <1>7, <1>8, <1>9 DEF StoreOK
  <1>11. StretchOK' BY <1>1, <1>4 DEF StretchOK, Adjacent, EndsAt
  <1>12. QED BY <1>1, <1>5, <1>10, <1>11 DEF Lost

(* The source is sought, and the reset comes next; or it stays where it was. *)
LEMMA SeekStreamStore ==
  ASSUME StoreOK, CallIn, SeekStream
  PROVE  StoreOK' /\ (FileSize <= IntMax /\ StretchOK => StretchOK') /\ Lost' = Lost
  <1>1. /\ newdata' = newdata /\ oldqueue' = oldqueue /\ freequeue' = freequeue /\ startpos' = startpos
        /\ allocated' = allocated /\ hand' = hand /\ tpc = "seek" /\ tpc' \in {"reset", "tell"}
        BY DEF SeekStream, queues
  <1>2. Buffers' = Buffers BY <1>1 DEF Buffers, Taken
  <1>3. place' \in Places /\ s_off' \in Int
    <2>1. seek_offset \in Places /\ seek_offset \in Int BY StreamAssumption DEF CallIn, Places
    <2>2. QED BY <2>1 DEF SeekStream, source, StoreOK
  <1>4. HandIn' BY <1>1 DEF StoreOK, HandIn
  <1>5. StoreOK' BY <1>1, <1>2, <1>3, <1>4 DEF StoreOK, QueuesIn
  <1>6. ASSUME FileSize <= IntMax, StretchOK PROVE StretchOK'
    <2>1. Int32(seek_offset) = seek_offset /\ seek_offset >= 0
          BY <1>6, IntHolds, StreamAssumption DEF CallIn, Places
    <2>2. tpc' = "reset" \/ place' = place BY <2>1 DEF SeekStream, source
    <2>3. tpc' # "reset" => ThreadAt' = ThreadAt BY <1>1, <2>2 DEF ThreadAt
    <2>4. QED BY <1>1, <1>2, <1>6, <2>3 DEF StretchOK
  <1>7. QED BY <1>1, <1>2, <1>5, <1>6 DEF Lost

(* streambuf_getbuf gives a buffer that was free, the oldest of the old data, or a
   new one where neither queue is full. *)
LEMMA GetBufStore == ASSUME StoreOK, GetBuf PROVE StoreOK' /\ (StretchOK => StretchOK') /\ Lost' = Lost
  <1> DEFINE o == Len(oldqueue)
             n == Len(newdata)
  <1>1. /\ newdata' = newdata /\ startpos' = startpos /\ place' = place /\ s_off' = s_off /\ hand' = hand
        /\ tpc = "get" /\ tpc' \in {"read", "few"}
        BY DEF GetBuf, source
  <1>2. /\ newdata \in Seq(Buf) /\ oldqueue \in Seq(Buf) /\ n \in Nat /\ o \in Nat /\ freequeue \in Nat
        /\ allocated \in Nat
        BY DEF StoreOK, QueuesIn
  <1>3. Taken = 0 /\ Buffers = n + o + freequeue /\ Buffers <= allocated /\ Buffers <= NEWDATA_MAX + OLDDATA_MAX + 1
    <2>1. Taken = 0 BY <1>1 DEF Taken
    <2>2. QED BY <1>2, <2>1 DEF Buffers, StoreOK
  <1>4. Taken' = IF tpc' = "read" THEN 1 ELSE 0 BY <1>1 DEF Taken
  <1>5. Buffers' = n + Len(oldqueue') + freequeue' + Taken' BY <1>1 DEF Buffers
  <1>6. HandIn' /\ ThreadAt' = ThreadAt BY <1>1 DEF StoreOK, HandIn, ThreadAt
  <1>7. NEWDATA_MAX \in Nat /\ OLDDATA_MAX \in Nat BY StreamAssumption
  <1>8. CASE oldqueue' = oldqueue
    <2>1. /\ freequeue' \in Nat /\ allocated' \in Nat
          /\ Buffers' <= allocated' /\ Buffers' <= NEWDATA_MAX + OLDDATA_MAX + 1
          /\ allocated' - Buffers' = allocated - Buffers
          /\ Buffers' = allocated' => Buffers = allocated
      <3>1. \/ freequeue > 0 /\ freequeue' = freequeue - 1 /\ tpc' = "read" /\ allocated' = allocated
            \/ tpc' = "few" /\ freequeue' = freequeue /\ allocated' = allocated
            \/ /\ freequeue <= 0 /\ DataSize(oldqueue) <= OLDDATA_MAX /\ DataSize(newdata) <= NEWDATA_MAX
               /\ allocated' = allocated + 1 /\ tpc' = "read" /\ freequeue' = freequeue
            \/ oldqueue # <<>> /\ oldqueue' = Tail(oldqueue)
        <4>1. DataSize(oldqueue) \in Nat /\ DataSize(newdata) \in Nat BY <1>2, DataSizeBounds
        <4>2. DataSize(oldqueue) > OLDDATA_MAX => oldqueue # <<>> BY <1>7, NothingInNone
        <4>3. QED BY <1>2, <1>7, <4>1, <4>2 DEF GetBuf
      <3>2. CASE freequeue > 0 /\ freequeue' = freequeue - 1 /\ tpc' = "read" /\ allocated' = allocated
            BY <1>2, <1>3, <1>4, <1>5, <1>8, <3>2
      <3>3. CASE tpc' = "few" /\ freequeue' = freequeue /\ allocated' = allocated
            BY <1>2, <1>3, <1>4, <1>5, <1>8, <3>3
      <3>4. CASE /\ freequeue <= 0 /\ DataSize(oldqueue) <= OLDDATA_MAX /\ DataSize(newdata) <= NEWDATA_MAX
                 /\ allocated' = allocated + 1 /\ tpc' = "read" /\ freequeue' = freequeue
        <4>1. o <= OLDDATA_MAX /\ n <= NEWDATA_MAX
          <5>1. /\ DataSize(oldqueue) \in Nat /\ o <= DataSize(oldqueue)
                /\ DataSize(newdata) \in Nat /\ n <= DataSize(newdata)
                BY <1>2, DataSizeBounds
          <5>2. QED BY <1>2, <1>7, <3>4, <5>1
        <4>2. freequeue = 0 BY <1>2, <3>4
        <4>3. Buffers = n + o /\ Buffers' = n + o + 1 BY <1>2, <1>3, <1>4, <1>5, <1>8, <3>4, <4>2
        <4>4. QED BY <1>2, <1>3, <1>7, <3>4, <4>1, <4>3
      <3>5. CASE oldqueue # <<>> /\ oldqueue' = Tail(oldqueue)
        <4>1. Len(Tail(oldqueue)) = o - 1 BY <1>2, <3>5
        <4>2. QED BY <1>2, <1>8, <3>5, <4>1
      <3>6. QED BY <3>1, <3>2, <3>3, <3>4, <3>5
    <2>2. StoreOK' BY <1>1, <1>2, <1>6, <1>8, <2>1 DEF StoreOK, QueuesIn
    <2>3. StretchOK => StretchOK' BY <1>1, <1>6, <1>8, <2>1 DEF StretchOK
    <2>4. QED BY <2>1, <2>2, <2>3 DEF Lost
  <1>9. CASE oldqueue # <<>> /\ oldqueue' = Tail(oldqueue)
    <2>1. /\ oldqueue' \in Seq(Buf) /\ Len(oldqueue') = o - 1 /\ o >= 1
          /\ \A i \in 1 .. o - 1 : oldqueue'[i] = oldqueue[i + 1]
          BY <1>2, <1>9
    <2>2. freequeue' = freequeue /\ allocated' = allocated /\ tpc' = "read"
      <3>1. oldqueue' # oldqueue BY <1>2, <2>1
      <3>2. QED BY <3>1 DEF GetBuf
    <2>3. Buffers' = Buffers BY <1>2, <1>3, <1>4, <1>5, <2>1, <2>2
    <2>4. Starts(oldqueue', newdata')
      <3>1. \A i \in 1 .. o - 1 : i + 1 \in 1 .. o BY <1>2
      <3>2. QED BY <1>1, <2>1, <3>1 DEF StoreOK, Starts
    <2>5. StoreOK' BY <1>1, <1>2, <1>3, <1>6, <2>1, <2>2, <2>3, <2>4 DEF StoreOK, QueuesIn
    <2>6. \A i \in 1 .. o - 1 + n : Nth(oldqueue', newdata', i) = Nth(oldqueue, newdata, i + 1)
      <3> SUFFICES ASSUME NEW i \in 1 .. o - 1 + n
                   PROVE  Nth(oldqueue', newdata', i) = Nth(oldqueue, newdata, i + 1)
          OBVIOUS
      <3>1. CASE i <= o - 1
        <4>1. i \in 1 .. o - 1 /\ i + 1 <= o BY <1>2, <2>1, <3>1
        <4>2. QED BY <2>1, <3>1, <4>1 DEF Nth
      <3>2. CASE ~(i <= o - 1)
        <4>1. i - (o - 1) = (i + 1) - o /\ ~(i + 1 <= o) BY <1>2, <2>1, <3>2
        <4>2. QED BY <1>1, <2>1, <3>2, <4>1 DEF Nth
      <3>3. QED BY <3>1, <3>2
    <2>7. StretchOK => StretchOK'
      <3> SUFFICES ASSUME StretchOK, Buffers = allocated
                   PROVE  Adjacent(oldqueue', newdata') /\ EndsAt(oldqueue', newdata', ThreadAt)
          BY <1>6, <2>2, <2>3 DEF StretchOK
      <3>1. Adjacent(oldqueue, newdata) /\ EndsAt(oldqueue, newdata, ThreadAt) BY <1>1 DEF StretchOK
      <3>2. Len(oldqueue') + Len(newdata') = o - 1 + n BY <1>1, <2>1
      <3>3. Adjacent(oldqueue', newdata')
        <4> SUFFICES ASSUME NEW i \in 1 .. o - 1 + n - 1
                     PROVE  Nth(oldqueue', newdata', i).at + Nth(oldqueue', newdata', i).len
                            = Nth(oldqueue', newdata', i + 1).at
            BY <3>2 DEF Adjacent
        <4>1. i \in 1 .. o - 1 + n /\ i + 1 \in 1 .. o - 1 + n /\ i + 1 \in 1 .. o + n - 1 BY <1>2, <2>1
        <4>2. Nth(oldqueue, newdata, i + 1).at + Nth(oldqueue, newdata, i + 1).len
              = Nth(oldqueue, newdata, i + 1 + 1).at
              BY <3>1, <4>1 DEF Adjacent
        <4>3. QED BY <2>6, <4>1, <4>2
      <3>4. EndsAt(oldqueue', newdata', ThreadAt)
        <4> SUFFICES ASSUME o - 1 + n > 0
                     PROVE  Nth(oldqueue', newdata', o - 1 + n).at + Nth(oldqueue', newdata', o - 1 + n).len
                            = ThreadAt
            BY <3>2 DEF EndsAt
        <4>1. o - 1 + n \in 1 .. o - 1 + n /\ (o - 1 + n) + 1 = o + n /\ o + n > 0 BY <1>2, <2>1
        <4>2. Nth(oldqueue, newdata, o + n).at + Nth(oldqueue, newdata, o + n).len = ThreadAt
              BY <3>1, <4>1 DEF EndsAt
        <4>3. Nth(oldqueue', newdata', o - 1 + n) = Nth(oldqueue, newdata, o + n) BY <2>6, <4>1
        <4>4. QED BY <4>2, <4>3
      <3>5. QED BY <3>3, <3>4
    <2>8. QED BY <2>2, <2>3, <2>5, <2>7 DEF Lost
  <1>10. oldqueue' = oldqueue \/ (oldqueue # <<>> /\ oldqueue' = Tail(oldqueue))
    <2>1. DataSize(oldqueue) > OLDDATA_MAX => oldqueue # <<>> BY <1>7, NothingInNone
    <2>2. QED BY <2>1 DEF GetBuf
  <1>11. QED BY <1>8, <1>9, <1>10

LEMMA DownloadStore == ASSUME StoreOK, Download PROVE StoreOK' /\ (StretchOK => StretchOK') /\ Lost' = Lost
  <1>1. PICK n \in 1 .. Block : /\ place + n <= FileSize
                                /\ hand' = Buffer(s_off, place, n, 0)
                                /\ place' = place + n /\ s_off' = s_off + n
        BY DEF Download
  <1>2. /\ newdata' = newdata /\ oldqueue' = oldqueue /\ freequeue' = freequeue /\ startpos' = startpos
        /\ allocated' = allocated /\ tpc = "read" /\ tpc' = "push"
        BY DEF Download, Goes, queues
  <1>3. place \in 0 .. FileSize /\ s_off \in Int /\ Block \in Nat /\ FileSize \in Nat
        BY StreamAssumption DEF StoreOK, Places
  <1>4. place' \in Places /\ s_off' \in Int /\ n \in 1 .. Block /\ n \in Int /\ n > 0 BY <1>1, <1>3 DEF Places
  <1>5. hand' = [pos |-> s_off, at |-> place, len |-> n, start |-> 0] BY <1>1 DEF Buffer
  <1>6. HandIn'
    <2>1. 0 \in 0 .. Block - 1 /\ 0 < n BY <1>3, <1>4
    <2>2. hand' \in Buf BY <1>3, <1>4, <1>5, <2>1 DEF Buf, Places
    <2>3. QED BY <1>1, <1>2, <1>5, <2>2 DEF HandIn
  <1>7. Buffers' = Buffers BY <1>2 DEF Buffers, Taken
  <1>8. StoreOK' BY <1>2, <1>4, <1>6, <1>7 DEF StoreOK, QueuesIn
  <1>9. ThreadAt' = ThreadAt BY <1>2, <1>5 DEF ThreadAt
  <1>10. StretchOK => StretchOK' BY <1>2, <1>7, <1>9 DEF StretchOK
  <1>11. QED BY <1>2, <1>7, <1>8, <1>10 DEF Lost

(* The buffer goes back to the free ones. *)
LEMMA DownloadFailsStore == ASSUME StoreOK, DownloadFails PROVE StoreOK' /\ (StretchOK => StretchOK') /\ Lost' = Lost
  <1>1. /\ newdata' = newdata /\ oldqueue' = oldqueue /\ startpos' = startpos /\ allocated' = allocated
        /\ place' = place /\ hand' = hand /\ tpc = "read" /\ tpc' \in {"exited", "loop"}
        /\ freequeue' = freequeue + 1
        BY DEF DownloadFails
  <1>2. s_off' \in Int
    <2>1. PICK r \in {EOF, EAGAIN, EIO} : s_off' = s_off + r BY DEF DownloadFails
    <2>2. QED BY <2>1 DEF StoreOK, EOF, EAGAIN, EIO
  <1>3. newdata \in Seq(Buf) /\ oldqueue \in Seq(Buf) /\ freequeue \in Nat BY DEF StoreOK, QueuesIn
  <1>4. Buffers' = Buffers
    <2>1. Taken = 1 /\ Taken' = 0 BY <1>1 DEF Taken
    <2>2. QED BY <1>1, <1>3, <2>1 DEF Buffers
  <1>5. HandIn' BY <1>1 DEF StoreOK, HandIn
  <1>6. StoreOK' BY <1>1, <1>2, <1>3, <1>4, <1>5 DEF StoreOK, QueuesIn
  <1>7. ThreadAt' = ThreadAt BY <1>1 DEF ThreadAt
  <1>8. StretchOK => StretchOK' BY <1>1, <1>4, <1>7 DEF StretchOK
  <1>9. QED BY <1>1, <1>4, <1>6, <1>8 DEF Lost

(* What was read next becomes the last of the new data. *)
LEMMA PushStore == ASSUME StoreOK, Push PROVE StoreOK' /\ (StretchOK => StretchOK') /\ Lost' = Lost
  <1> DEFINE o == Len(oldqueue)
             n == Len(newdata)
  <1>1. /\ newdata' = Append(newdata, hand) /\ oldqueue' = oldqueue /\ freequeue' = freequeue
        /\ allocated' = allocated /\ place' = place /\ s_off' = s_off /\ hand' = NoBuffer
        /\ tpc = "push" /\ tpc' = "loop" /\ startpos' \in {hand.pos, startpos}
        BY DEF Push, Goes, source
  <1>2. /\ newdata \in Seq(Buf) /\ oldqueue \in Seq(Buf) /\ n \in Nat /\ o \in Nat /\ freequeue \in Nat
        BY DEF StoreOK, QueuesIn
  <1>3. hand \in Buf /\ hand.start = 0 /\ hand.at + hand.len = place BY <1>1 DEF StoreOK, HandIn
  <1>4. /\ newdata' \in Seq(Buf) /\ Len(newdata') = n + 1 /\ newdata'[n + 1] = hand
        /\ \A i \in 1 .. n : newdata'[i] = newdata[i]
        BY <1>1, <1>2, <1>3, AppendProperties
  <1>5. startpos' \in Int BY <1>1, <1>3, BufParts DEF StoreOK
  <1>6. Buffers' = Buffers
    <2>1. Taken = 1 /\ Taken' = 0 BY <1>1 DEF Taken
    <2>2. QED BY <1>1, <1>2, <1>4, <2>1 DEF Buffers
  <1>7. Starts(oldqueue', newdata')
    <2>1. \A i \in 2 .. n + 1 : newdata'[i].start = 0
      <3> SUFFICES ASSUME NEW i \in 2 .. n + 1 PROVE newdata'[i].start = 0 OBVIOUS
      <3>1. CASE i = n + 1 BY <1>3, <1>4, <3>1
      <3>2. CASE i # n + 1
        <4>1. i \in 1 .. n /\ i \in 2 .. n BY <1>2, <3>2
        <4>2. QED BY <1>4, <4>1 DEF StoreOK, Starts
      <3>3. QED BY <3>1, <3>2
    <2>2. QED BY <1>1, <1>4, <2>1 DEF StoreOK, Starts
  <1>8. HandIn' BY <1>1 DEF HandIn
  <1>9. StoreOK' BY <1>1, <1>2, <1>4, <1>5, <1>6, <1>7, <1>8 DEF StoreOK, QueuesIn
  <1>10. /\ \A i \in 1 .. o + n : Nth(oldqueue', newdata', i) = Nth(oldqueue, newdata, i)
         /\ Nth(oldqueue', newdata', o + n + 1) = hand
    <2>1. ASSUME NEW i \in 1 .. o + n PROVE Nth(oldqueue', newdata', i) = Nth(oldqueue, newdata, i)
      <3>1. CASE i <= o BY <1>1, <3>1 DEF Nth
      <3>2. CASE ~(i <= o)
        <4>1. i - o \in 1 .. n BY <1>2, <3>2
        <4>2. QED BY <1>1, <1>4, <3>2, <4>1 DEF Nth
      <3>3. QED BY <3>1, <3>2
    <2>2. Nth(oldqueue', newdata', o + n + 1) = hand
      <3>1. ~(o + n + 1 <= o) /\ (o + n + 1) - o = n + 1 BY <1>2
      <3>2. QED BY <1>1, <1>4, <3>1 DEF Nth
    <2>3. QED BY <2>1, <2>2
  <1>11. StretchOK => StretchOK'
    <2> SUFFICES ASSUME StretchOK, Buffers = allocated
                 PROVE  Adjacent(oldqueue', newdata') /\ EndsAt(oldqueue', newdata', place)
        BY <1>1, <1>6 DEF StretchOK, ThreadAt
    <2>1. Adjacent(oldqueue, newdata) /\ EndsAt(oldqueue, newdata, hand.at)
          BY <1>1 DEF StretchOK, ThreadAt
    <2>2. Len(oldqueue') + Len(newdata') = o + n + 1 BY <1>1, <1>2, <1>4
    <2>3. Adjacent(oldqueue', newdata')
      <3> SUFFICES ASSUME NEW i \in 1 .. o + n
                   PROVE  Nth(oldqueue', newdata', i).at + Nth(oldqueue', newdata', i).len
                          = Nth(oldqueue', newdata', i + 1).at
        <4>1. o + n + 1 - 1 = o + n BY <1>2
        <4>2. QED BY <2>2, <4>1 DEF Adjacent
      <3>1. CASE i = o + n
        <4>1. o + n > 0 BY <1>2, <3>1
        <4>2. Nth(oldqueue, newdata, o + n).at + Nth(oldqueue, newdata, o + n).len = hand.at
              BY <2>1, <4>1 DEF EndsAt
        <4>3. QED BY <1>10, <3>1, <4>2
      <3>2. CASE i # o + n
        <4>1. i \in 1 .. o + n - 1 /\ i + 1 \in 1 .. o + n BY <1>2, <3>2
        <4>2. Nth(oldqueue, newdata, i).at + Nth(oldqueue, newdata, i).len = Nth(oldqueue, newdata, i + 1).at
              BY <2>1, <4>1 DEF Adjacent
        <4>3. QED BY <1>10, <4>1, <4>2
      <3>3. QED BY <3>1, <3>2
    <2>4. EndsAt(oldqueue', newdata', place) BY <1>3, <1>10, <2>2 DEF EndsAt
    <2>5. QED BY <2>3, <2>4
  <1>12. QED BY <1>1, <1>6, <1>9, <1>11 DEF Lost
-----------------------------------------------------------------------------
(* All of it. *)
LEMMA ThreadStore ==
  ASSUME StoreOK, CallIn, Thread
  PROVE  StoreOK' /\ (FileSize <= IntMax /\ StretchOK => StretchOK') /\ Lost' = Lost
  <1>1. CASE Exit \/ Round \/ Tell \/ SeekEnds \/ Clear \/ TooFew
    <2>1. UNCHANGED <<queues, source, hand>>
          BY <1>1 DEF Exit, Round, Tell, SeekEnds, Clear, TooFew
    <2>2. tpc \notin {"read", "push", "reset"} /\ tpc' \notin {"read", "push"}
          BY <1>1 DEF Exit, Round, Tell, SeekEnds, Clear, TooFew, Goes
    <2>3. Idle BY <2>1, <2>2 DEF Idle
    <2>4. QED BY <2>3, IdleKeeps
  <1>2. CASE SeekStream BY <1>2, SeekStreamStore
  <1>3. CASE Reset BY <1>3, ResetStore
  <1>4. CASE GetBuf BY <1>4, GetBufStore
  <1>5. CASE Download BY <1>5, DownloadStore
  <1>6. CASE DownloadFails BY <1>6, DownloadFailsStore
  <1>7. CASE Push BY <1>7, PushStore
  <1>8. QED BY <1>1, <1>2, <1>3, <1>4, <1>5, <1>6, <1>7 DEF Thread

LEMMA ReaderStore ==
  ASSUME StoreOK, CallIn, Calls \/ ReaderSteps \/ Interrupt
  PROVE  /\ StoreOK' /\ (StretchOK => StretchOK')
         /\ Lost' = Lost \/ (Move /\ ~(call.off > call.cur) /\ Lost' = Lost + 1)
  <1>1. QueuesIn /\ Starts(oldqueue, newdata) BY DEF StoreOK
  <1>2. call.off \in Int /\ call.size \in Nat BY StreamAssumption DEF CallIn, Places
  <1>3. Lost \in Int
    <2>1. Len(newdata) \in Nat /\ Len(oldqueue) \in Nat /\ Taken \in {0, 1} BY DEF StoreOK, QueuesIn, Taken
    <2>2. QED BY <2>1 DEF StoreOK, Lost, Buffers
  <1>4. CASE Take
    <2>1. Moved(oldqueue', newdata', 0) BY <1>1, <1>2, <1>4, TakeMoves
    <2>2. UNCHANGED <<freequeue, startpos, allocated, source, thread>> BY <1>4 DEF Take
    <2>3. StoreOK' /\ (StretchOK => StretchOK') /\ Lost' = Lost + 0 BY <2>1, <2>2, MovedKeeps
    <2>4. QED BY <1>3, <2>3
  <1>5. CASE Move
    <2>1. \/ newdata' = Forward.new /\ oldqueue' = Forward.old
          \/ newdata' = Backward.new /\ oldqueue' = Backward.old /\ ~(call.off > call.cur)
          BY <1>5 DEF Move
    <2>2. Moved(oldqueue', newdata', 0) \/ (Moved(oldqueue', newdata', 1) /\ ~(call.off > call.cur))
          BY <1>1, <1>2, <2>1, ForwardMoves, BackwardMoves
    <2>3. UNCHANGED <<freequeue, startpos, allocated, source, thread>> BY <1>5 DEF Move
    <2>4. PICK lost \in {0, 1} : /\ StoreOK' /\ (StretchOK => StretchOK') /\ Lost' = Lost + lost
                                 /\ lost = 1 => ~(call.off > call.cur)
          BY <2>2, <2>3, MovedKeeps
    <2>5. QED BY <1>5, <1>3, <2>4
  <1>6. CASE ~Take /\ ~Move
    <2>1. Idle
          BY <1>6 DEF Calls, Read, Seek, Close, ReaderSteps, Join, IsOpen, FindsNone, Check, Look, Where,
                      InRange, See, Ask, Answered, Interrupt, thread, Idle
    <2>2. QED BY <2>1, IdleKeeps
  <1>7. QED BY <1>4, <1>5, <1>6

QInv == FieldsOK /\ CallIn /\ StoreOK
LEMMA NextQInv == ASSUME QInv, [Next]_vars PROVE QInv'
  <1>1. QueuesIn BY DEF QInv, StoreOK
  <1>2. CASE Thread BY <1>2, ThreadFields, ThreadStore DEF QInv
  <1>3. CASE Calls BY <1>3, CallsFields, ReaderStore DEF QInv
  <1>4. CASE ReaderSteps \/ Interrupt BY <1>1, <1>4, ReaderFields, ReaderStore DEF QInv
  <1>5. CASE UNCHANGED vars
    <2>1. Idle BY <1>5 DEF vars, thread, Idle
    <2>2. StoreOK' BY <2>1, IdleKeeps DEF QInv
    <2>3. FieldsOK' /\ CallIn' BY <1>5 DEF vars, flags, seekv, thread, reader, FieldsOK, CallIn, QInv
    <2>4. QED BY <2>2, <2>3 DEF QInv
  <1>6. QED BY <1>2, <1>3, <1>4, <1>5 DEF Next

LEMMA NextStretch == ASSUME FileSize <= IntMax, QInv, StretchOK, [Next]_vars PROVE StretchOK'
  <1>1. CASE Thread BY <1>1, ThreadStore DEF QInv
  <1>2. CASE Calls \/ ReaderSteps \/ Interrupt BY <1>2, ReaderStore DEF QInv
  <1>3. CASE UNCHANGED vars
    <2>1. Idle BY <1>3 DEF vars, thread, Idle
    <2>2. QED BY <2>1, IdleKeeps
  <1>4. QED BY <1>1, <1>2, <1>3 DEF Next

LEMMA NextAnswers == ASSUME FileSize <= IntMax, QInv, AnswersOK, [Next]_vars PROVE AnswersOK'
  <1>1. CASE SeekStream
    <2>1. ret' \in {seek_offset, NONE} BY <1>1, IntHolds DEF SeekStream, QInv, CallIn
    <2>2. QED BY <1>1, <2>1 DEF SeekStream, seekv, reader, AnswersOK, QInv, CallIn
  <1>2. CASE Thread /\ ~SeekStream
    <2>1. ret' = ret /\ answer' = answer /\ seek_ret' \in {seek_ret, ret}
          BY <1>2 DEF Thread, Exit, Round, Reset, Tell, SeekEnds, Clear, GetBuf, TooFew, Download,
                      DownloadFails, Push, seekv, reader
    <2>2. QED BY <2>1 DEF AnswersOK
  <1>3. CASE Calls \/ ReaderSteps \/ Interrupt
    <2>1. ret' = ret /\ answer' \in {answer, seek_ret, NONE} /\ seek_ret' \in {seek_ret, NONE}
          BY <1>3 DEF Calls, Read, Seek, Close, ReaderSteps, Join, IsOpen, Take, FindsNone, Check, Look,
                      Where, Move, InRange, See, Ask, Answered, Interrupt, seekv, thread
    <2>2. QED BY <2>1 DEF AnswersOK
  <1>4. CASE UNCHANGED vars BY <1>4 DEF vars, seekv, thread, reader, AnswersOK
  <1>5. QED BY <1>1, <1>2, <1>3, <1>4 DEF Next

(* What the buffers hold and how many there are, after any reads, seeks and errors:
   for streams that do not fit an int, too. *)
THEOREM QueuesInvariant == Spec => []QInv
  <1>1. Init => QInv BY InitStore DEF QInv
  <1>2. QInv /\ [Next]_vars => QInv' BY NextQInv
  <1>3. QED BY <1>1, <1>2, PTL DEF Spec

(* Until a seek backward loses a buffer, the two queues are one stretch of the
   stream, and it ends where the thread reads on; and a seek of the thread answers
   with a place of the stream. *)
THEOREM StretchInvariant == ASSUME FileSize <= IntMax PROVE Spec => [](StretchOK /\ AnswersOK)
  <1>1. Init => StretchOK /\ AnswersOK BY InitStore
  <1>2. QInv /\ StretchOK /\ AnswersOK /\ [Next]_vars => (StretchOK /\ AnswersOK)' BY NextStretch, NextAnswers
  <1>3. QED BY <1>1, <1>2, QueuesInvariant, PTL DEF Spec

(* The buffers the stream owns are never more than the two limits allow, for
   streams and ints of any size: streambuf_getbuf allocates one only where neither
   queue is beyond its own. *)
THEOREM BuffersAreBounded == Spec => []BuffersBounded
  <1>1. QInv => BuffersBounded BY DEF QInv, StoreOK, BuffersBounded
  <1>2. QED BY <1>1, QueuesInvariant, PTL

(* Every field holds what its type says. *)
THEOREM TypeCorrect == ASSUME FileSize <= IntMax PROVE Spec => []TypeOK
  <1>1. QInv /\ AnswersOK => TypeOK
    <2> SUFFICES ASSUME QInv, AnswersOK PROVE TypeOK OBVIOUS
    <2>1. ASSUME NEW q \in Seq(Buf), NEW i \in DOMAIN q
          PROVE  q[i].at \in Places /\ q[i].len \in 1 .. Block /\ q[i].start \in 0 .. q[i].len - 1
      <3>1. q[i] \in Buf BY <2>1
      <3>2. QED BY <3>1, BufParts DEF Buf
    <2>2. \A q \in {newdata, oldqueue} : \A i \in DOMAIN q :
            q[i].at \in Places /\ q[i].len \in 1 .. Block /\ q[i].start \in 0 .. q[i].len - 1
          BY <2>1 DEF QInv, StoreOK, QueuesIn
    <2>3. freequeue \in 0 .. allocated
      <3>1. newdata \in Seq(Buf) /\ oldqueue \in Seq(Buf) /\ freequeue \in Nat /\ allocated \in Nat
            /\ Buffers <= allocated
            BY DEF QInv, StoreOK, QueuesIn
      <3>2. Len(newdata) \in Nat /\ Len(oldqueue) \in Nat /\ Taken \in {0, 1} BY <3>1 DEF Taken
      <3>3. QED BY <3>1, <3>2 DEF Buffers
    <2>4. startpos \in Int /\ place \in Places /\ s_off \in Int BY DEF QInv, StoreOK
    <2>5. {opened, request_exit, request_seek, inseeking} \subseteq BOOLEAN BY DEF QInv, FieldsOK
    <2>6. {error, fatal_error} \subseteq Errors \cup {0} BY DEF QInv, FieldsOK
    <2>7. seek_offset \in Places /\ {seek_ret, ret, answer} \subseteq Places \cup {NONE}
          BY DEF QInv, CallIn, AnswersOK
    <2>8. hand.len \in 0 .. Block
      <3>1. CASE tpc = "push"
        <4>1. hand \in Buf BY <3>1 DEF QInv, StoreOK, HandIn
        <4>2. QED BY <4>1, StreamAssumption DEF Buf
      <3>2. CASE tpc # "push" BY <3>2, StreamAssumption DEF QInv, StoreOK, HandIn, NoBuffer, Buffer
      <3>3. QED BY <3>1, <3>2
    <2>9. /\ tpc \in SeekSteps \cup {"loop", "get", "few", "read", "push", "exited"}
          /\ rpc \in {"open", "idle", "take", "check", "look", "where", "move", "range", "see", "ask", "wait",
                      "join", "released"}
          /\ seeks \in 0 .. MaxSeeks
          BY DEF QInv, FieldsOK
    <2>10. call.op \in {"none", "open", "read", "seek", "close"} /\ call.size \in 0 .. ReadSize
          BY DEF QInv, CallIn
    <2> HIDE DEF QInv, AnswersOK
    <2>11. QED BY <2>2, <2>3, <2>4, <2>5, <2>6, <2>7, <2>8, <2>9, <2>10 DEF TypeOK
  <1>2. QED BY <1>1, QueuesInvariant, StretchInvariant, PTL

(* The old data and the new are one stretch of the stream, in order, up to where
   the source goes on: streambuf_once_read, streambuf_seek, streambuf_getbuf and
   streambuf_reset, as long as a seek backward loses no buffer. *)
THEOREM OrderIsKept == ASSUME FileSize <= IntMax PROVE Spec => []OrderKept
  <1>1. QInv /\ StretchOK => OrderKept
    <2> DEFINE o    == Len(oldqueue)
               n    == Len(newdata)
               both == oldqueue \o newdata
               last == IF Held THEN <<hand>> ELSE <<>>
               all  == both \o last
               h    == IF Held THEN 1 ELSE 0
    <2> SUFFICES ASSUME QInv, StretchOK, Buffers = allocated
                 PROVE  /\ \A i \in 1 .. Len(all) - 1 : all[i].at + all[i].len = all[i + 1].at
                        /\ \A i \in DOMAIN all : all[i].start > 0 => i = o + 1
                        /\ all # <<>> /\ tpc # "reset" => Last(all).at + Last(all).len = place
        BY DEF OrderKept
    <2>1. newdata \in Seq(Buf) /\ oldqueue \in Seq(Buf) /\ n \in Nat /\ o \in Nat /\ Starts(oldqueue, newdata)
          BY DEF QInv, StoreOK, QueuesIn
    <2>2. (Held <=> tpc = "push") /\ (Held => hand \in Buf /\ hand.start = 0 /\ hand.at + hand.len = place)
      <3>1. CASE tpc = "push"
        <4>1. hand \in Buf /\ hand.start = 0 /\ hand.at + hand.len = place BY <3>1 DEF QInv, StoreOK, HandIn
        <4>2. hand.len > 0 BY <4>1, BufParts
        <4>3. QED BY <3>1, <4>1, <4>2 DEF Held
      <3>2. CASE tpc # "push" BY <3>2 DEF QInv, StoreOK, HandIn, Held, NoBuffer, Buffer
      <3>3. QED BY <3>1, <3>2
    <2>3. /\ both \in Seq(Buf) /\ Len(both) = o + n
          /\ \A i \in 1 .. o + n : both[i] = Nth(oldqueue, newdata, i)
      <3>1. /\ both \in Seq(Buf) /\ Len(both) = o + n
            /\ \A i \in 1 .. o + n : both[i] = IF i <= o THEN oldqueue[i] ELSE newdata[i - o]
            BY <2>1, ConcatProperties
      <3>2. QED BY <3>1 DEF Nth
    <2>4. last \in Seq(Buf) /\ Len(last) = h /\ h \in {0, 1} /\ (Held => last[1] = hand)
      <3>1. CASE Held BY <2>2, <3>1
      <3>2. CASE ~Held BY <3>2
      <3>3. QED BY <3>1, <3>2
    <2> HIDE DEF both, last
    <2>5. /\ all \in Seq(Buf) /\ Len(all) = o + n + h
          /\ \A i \in 1 .. o + n : all[i] = Nth(oldqueue, newdata, i)
          /\ Held => all[o + n + 1] = hand
      <3>1. /\ all \in Seq(Buf) /\ Len(all) = Len(both) + Len(last)
            /\ \A i \in 1 .. Len(both) + Len(last) :
                 all[i] = IF i <= Len(both) THEN both[i] ELSE last[i - Len(both)]
        <4>1. both \in Seq(Buf) /\ last \in Seq(Buf) BY <2>3, <2>4
        <4>2. QED BY <4>1, ConcatProperties
      <3> HIDE DEF all
      <3>2. \A i \in 1 .. o + n + h : all[i] = IF i <= o + n THEN both[i] ELSE last[i - (o + n)]
            BY <2>3, <2>4, <3>1
      <3>3. ASSUME NEW i \in 1 .. o + n PROVE all[i] = Nth(oldqueue, newdata, i)
        <4>1. i \in 1 .. o + n + h /\ i <= o + n BY <2>1, <2>4
        <4>2. QED BY <2>3, <3>2, <4>1
      <3>4. ASSUME Held PROVE all[o + n + 1] = hand
        <4>1. h = 1 BY <3>4
        <4>2. o + n + 1 \in 1 .. o + n + h /\ ~(o + n + 1 <= o + n) /\ (o + n + 1) - (o + n) = 1
              BY <2>1, <4>1
        <4>3. QED BY <2>4, <3>2, <3>4, <4>2
      <3>5. QED BY <2>3, <2>4, <3>1, <3>3, <3>4
    <2> HIDE DEF all
    <2>6. Adjacent(oldqueue, newdata) /\ (tpc # "reset" => EndsAt(oldqueue, newdata, ThreadAt))
          BY DEF StretchOK
    <2>7. \A i \in 1 .. Len(all) - 1 : all[i].at + all[i].len = all[i + 1].at
      <3> SUFFICES ASSUME NEW i \in 1 .. o + n + h - 1
                   PROVE  all[i].at + all[i].len = all[i + 1].at
          BY <2>5
      <3>1. CASE i < o + n
        <4>1. i \in 1 .. o + n /\ i + 1 \in 1 .. o + n /\ i \in 1 .. o + n - 1 BY <2>1, <2>4, <3>1
        <4>2. Nth(oldqueue, newdata, i).at + Nth(oldqueue, newdata, i).len = Nth(oldqueue, newdata, i + 1).at
              BY <2>6, <4>1 DEF Adjacent
        <4>3. QED BY <2>5, <4>1, <4>2
      <3>2. CASE ~(i < o + n)
        <4>1. i = o + n /\ i \in 1 .. o + n /\ o + n > 0 /\ h = 1 BY <2>1, <2>4, <3>2
        <4>2. Held BY <4>1
        <4>3. Nth(oldqueue, newdata, o + n).at + Nth(oldqueue, newdata, o + n).len = hand.at
              BY <2>2, <2>6, <4>1, <4>2 DEF EndsAt, ThreadAt
        <4>4. QED BY <2>5, <4>1, <4>2, <4>3
      <3>3. QED BY <3>1, <3>2
    <2>8. \A i \in DOMAIN all : all[i].start > 0 => i = o + 1
      <3> SUFFICES ASSUME NEW i \in 1 .. o + n + h, i # o + 1 PROVE all[i].start = 0
        <4>1. DOMAIN all = 1 .. o + n + h BY <2>5
        <4>2. QED BY <4>1
      <3>1. CASE i <= o
        <4>1. i \in 1 .. o /\ i \in 1 .. o + n BY <2>1, <2>4, <3>1
        <4>2. QED BY <2>1, <2>5, <3>1, <4>1 DEF Nth, Starts
      <3>2. CASE i > o /\ i <= o + n
        <4>1. i - o \in 2 .. n /\ i \in 1 .. o + n /\ ~(i <= o) BY <2>1, <2>4, <3>2
        <4>2. QED BY <2>1, <2>5, <4>1 DEF Nth, Starts
      <3>3. CASE i > o + n
        <4>1. h = 1 /\ i = o + n + 1 BY <2>1, <2>4, <3>3
        <4>2. Held BY <4>1
        <4>3. QED BY <2>2, <2>5, <4>1, <4>2
      <3>4. QED BY <2>1, <2>4, <3>1, <3>2, <3>3
    <2>9. ASSUME all # <<>>, tpc # "reset" PROVE Last(all).at + Last(all).len = place
      <3>1. Last(all) = all[o + n + h] /\ o + n + h > 0 BY <2>1, <2>4, <2>5, <2>9 DEF Last
      <3>2. CASE Held BY <2>2, <2>5, <3>1, <3>2
      <3>3. CASE ~Held
        <4>1. h = 0 BY <3>3
        <4>2. o + n + h = o + n /\ o + n > 0 /\ o + n \in 1 .. o + n BY <2>1, <3>1, <4>1
        <4>3. Nth(oldqueue, newdata, o + n).at + Nth(oldqueue, newdata, o + n).len = place
              BY <2>2, <2>6, <2>9, <3>3, <4>2 DEF EndsAt, ThreadAt
        <4>4. QED BY <2>5, <3>1, <4>2, <4>3
      <3>4. QED BY <3>2, <3>3
    <2>10. QED BY <2>7, <2>8, <2>9
  <1>2. QED BY <1>1, QueuesInvariant, StretchInvariant, PTL

(* Lost counts the buffers that are in no queue: it changes in a seek backward only,
   by one. *)
OnlySeeksLose == [][Lost' # Lost => Move /\ ~(call.off > call.cur) /\ Lost' = Lost + 1]_vars

(* Only a seek backward loses a buffer, and it loses one: streambuf_seek takes it
   from the old data and puts it in no queue where the byte sought is not in it. *)
THEOREM OnlySeeksBackLose == Spec => OnlySeeksLose
  <1>1. QInv /\ [Next]_vars => [Lost' # Lost => Move /\ ~(call.off > call.cur) /\ Lost' = Lost + 1]_vars
    <2> SUFFICES ASSUME QInv, Next
                 PROVE  Lost' = Lost \/ (Move /\ ~(call.off > call.cur) /\ Lost' = Lost + 1)
        OBVIOUS
    <2>1. CASE Thread BY <2>1, ThreadStore DEF QInv
    <2>2. CASE Calls \/ ReaderSteps \/ Interrupt BY <2>2, ReaderStore DEF QInv
    <2>3. QED BY <2>1, <2>2 DEF Next
  <1>2. QED BY <1>1, QueuesInvariant, PTL DEF Spec, OnlySeeksLose
=============================================================================
