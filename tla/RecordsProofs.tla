---------------------------- MODULE RecordsProofs ----------------------------
(***************************************************************************)
(* Theorems about what the gateway writes down: its log (Journal), the     *)
(* results of probes (Probes), its backups (Backups) and the upstream keys *)
(* with their buckets (Keyring).                                           *)
(***************************************************************************)
EXTENDS Journal, Probes, Backups, Keyring, Lemmas, SequenceTheorems

(***************************************************************************)
(* Journal.  A line goes from its writer through queue and batch into the  *)
(* rows.  Of one writer, what is further on was logged earlier.            *)
(***************************************************************************)
Row == [line : Line, ts : 0..LastDay, pruned : BOOLEAN]

Earlier(l, m) == l[1] = m[1] => l[2] < m[2]

InOrder(s) == \A i, j \in DOMAIN s : i < j => Earlier(s[i], s[j])

(* rs are the rows, b the batch, q the queue, n what each writer has said. *)
InPipeline(rs, b, q, n) ==
  /\ \A i, j \in DOMAIN rs : i < j => Earlier(rs[i].line, rs[j].line)
  /\ InOrder(b) /\ InOrder(q)
  /\ \A i \in DOMAIN rs : /\ \A j \in DOMAIN b : Earlier(rs[i].line, b[j])
                          /\ \A j \in DOMAIN q : Earlier(rs[i].line, q[j])
  /\ \A i \in DOMAIN b, j \in DOMAIN q : Earlier(b[i], q[j])
  /\ \A i \in DOMAIN rs : rs[i].line[2] <= n[rs[i].line[1]]
  /\ \A i \in DOMAIN b : b[i][2] <= n[b[i][1]]
  /\ \A i \in DOMAIN q : q[i][2] <= n[q[i][1]]

(* What Close was called for is on its way or done with, and once the      *)
(* goroutine has ended it is done with.                                    *)
OwedIsFollowed ==
  /\ owed \subseteq Accepted \cup Written \cup wasted
  /\ drain = "ended" => owed \subseteq Written \cup wasted
  /\ drain # "running" => closing # "open"
  /\ closing = "closed" => drain = "ended"

JournalInv ==
  /\ JournalTypeOK
  /\ \A w \in passed : said[w] < LinesEach
  /\ InPipeline(rows, batch, queue, said)
  /\ OwedIsFollowed

-------------------------------------------------------------------------------
LEMMA JournalNumbers ==
  /\ LinesEach \in Nat \ {0} /\ QueueSize \in Nat \ {0} /\ BatchSize \in Nat \ {0}
  /\ PageSize \in Nat \ {0} /\ Retention \in Nat /\ LastDay \in Nat
BY JournalAssumption

(* ToSet says which elements a sequence has. *)
LEMMA MembersOf ==
  ASSUME NEW S, NEW s \in Seq(S), NEW x
  PROVE  x \in ToSet(s) <=> \E i \in 1..Len(s) : s[i] = x
BY DEF ToSet

LEMMA Concatenated ==
  ASSUME NEW S, NEW s \in Seq(S), NEW t \in Seq(S)
  PROVE  /\ s \o t \in Seq(S) /\ Len(s \o t) = Len(s) + Len(t)
         /\ \A i \in 1..Len(s) : (s \o t)[i] = s[i]
         /\ \A i \in 1..Len(t) : (s \o t)[Len(s) + i] = t[i]
BY ConcatProperties

(* What becomes of batch b at a flush. *)
Inserts(b) ==
  /\ wasted' = wasted
  /\ rows' \in Seq(Row)
  /\ Len(rows') = Len(rows) + Len(b)
  /\ \A i \in 1..Len(rows) : rows'[i] = rows[i]
  /\ \A i \in 1..Len(b) : rows'[Len(rows) + i].line = b[i]

LEMMA FlushOutcome ==
  ASSUME JournalTypeOK, NEW b \in Seq(Line), Flush(b)
  PROVE  /\ batch' = <<>>
         /\ \/ Inserts(b)
            \/ rows' = rows /\ wasted' = wasted \cup ToSet(b)
<1>1. CASE rows' = rows \o [i \in DOMAIN b |-> Stored(b[i])] /\ wasted' = wasted
  <2> DEFINE new == [i \in DOMAIN b |-> Stored(b[i])]
  <2>1. new \in Seq(Row) /\ Len(new) = Len(b) /\ \A i \in 1..Len(b) : new[i].line = b[i]
    <3>1. DOMAIN b = 1..Len(b) /\ Len(b) \in Nat
      OBVIOUS
    <3>2. \A i \in 1..Len(b) : Stored(b[i]) \in Row /\ Stored(b[i]).line = b[i]
      BY DEF Stored, Row, JournalTypeOK
    <3>3. new \in [1..Len(b) -> Row]
      BY <3>1, <3>2
    <3>4. QED
      BY <3>1, <3>2, <3>3
  <2>2. rows \in Seq(Row)
    BY DEF JournalTypeOK, Row
  <2>3. rows' = rows \o new
    BY <1>1
  <2> HIDE DEF new
  <2>4. /\ rows \o new \in Seq(Row) /\ Len(rows \o new) = Len(rows) + Len(new)
        /\ \A i \in 1..Len(rows) : (rows \o new)[i] = rows[i]
        /\ \A i \in 1..Len(new) : (rows \o new)[Len(rows) + i] = new[i]
    <3>1. new \in Seq(Row) /\ rows \in Seq(Row)
      BY <2>1, <2>2
    <3>2. QED
      BY ONLY <3>1, Concatenated
  <2>5. QED
    BY <1>1, <2>1, <2>3, <2>4 DEF Flush, Inserts
<1>2. CASE rows' = rows /\ wasted' = wasted \cup ToSet(b)
  BY <1>2 DEF Flush
<1>3. QED
  BY <1>1, <1>2 DEF Flush

(* The lines of a flushed batch become rows, or leave the pipeline.        *)
LEMMA FlushInPipeline ==
  ASSUME JournalTypeOK, NEW b \in Seq(Line), Flush(b), NEW q,
         InPipeline(rows, b, q, said)
  PROVE  InPipeline(rows', <<>>, q, said)
<1>0. batch' = <<>> /\ (Inserts(b) \/ rows' = rows)
  BY FlushOutcome
<1>1. CASE Inserts(b)
  <2> DEFINE n == Len(rows)
             Source(i) == IF i <= n THEN rows[i].line ELSE b[i - n]
  <2>0. /\ n \in Nat /\ Len(b) \in Nat /\ DOMAIN rows = 1..n /\ DOMAIN b = 1..Len(b)
        /\ DOMAIN rows' = 1..(n + Len(b))
    BY <1>1 DEF JournalTypeOK, Inserts
  <2>1. \A i \in 1..(n + Len(b)) : rows'[i].line = Source(i)
    <3>1. TAKE i \in 1..(n + Len(b))
    <3>2. CASE i <= n
      BY <1>1, <2>0, <3>2 DEF Inserts
    <3>3. CASE ~(i <= n)
      <4>1. i - n \in 1..Len(b) /\ n + (i - n) = i
        BY <2>0, <3>3
      <4>2. rows'[n + (i - n)].line = b[i - n]
        BY <1>1, <4>1 DEF Inserts
      <4>3. QED
        BY <3>3, <4>1, <4>2
    <3>4. QED
      BY <3>2, <3>3
  <2>2. \A i \in 1..(n + Len(b)) : i > n => i - n \in 1..Len(b)
    BY <2>0
  <2>3. \A i, j \in DOMAIN rows' : i < j => Earlier(rows'[i].line, rows'[j].line)
    <3>1. SUFFICES ASSUME NEW i \in 1..(n + Len(b)), NEW j \in 1..(n + Len(b)), i < j
                   PROVE  Earlier(Source(i), Source(j))
      BY <2>0, <2>1
    <3>2. CASE j <= n
      BY <2>0, <3>1, <3>2 DEF InPipeline
    <3>3. CASE i <= n /\ j > n
      <4>1. i \in DOMAIN rows /\ j - n \in DOMAIN b
        BY <2>0, <2>2, <3>1, <3>3
      <4>2. QED
        BY <2>0, <3>3, <4>1 DEF InPipeline
    <3>4. CASE i > n
      <4>1. i - n \in DOMAIN b /\ j - n \in DOMAIN b /\ i - n < j - n
        BY <2>0, <2>2, <3>1, <3>4
      <4>2. QED
        BY <2>0, <3>1, <3>4, <4>1 DEF InPipeline, InOrder
    <3>5. QED
      BY <2>0, <3>1, <3>2, <3>3, <3>4
  <2>4. ASSUME NEW i \in DOMAIN rows'
        PROVE  /\ \A j \in DOMAIN q : Earlier(rows'[i].line, q[j])
               /\ rows'[i].line[2] <= said[rows'[i].line[1]]
    <3>1. i \in 1..(n + Len(b)) /\ rows'[i].line = Source(i)
      BY <2>0, <2>1
    <3>2. CASE i <= n
      BY <2>0, <3>1, <3>2 DEF InPipeline
    <3>3. CASE i > n
      <4>1. i - n \in DOMAIN b /\ rows'[i].line = b[i - n]
        BY <2>0, <2>2, <3>1, <3>3
      <4>2. QED
        BY <4>1 DEF InPipeline
    <3>4. QED
      BY <2>0, <3>1, <3>2, <3>3
  <2>5. InOrder(q) /\ \A i \in DOMAIN q : q[i][2] <= said[q[i][1]]
    BY DEF InPipeline
  <2>6. InOrder(<<>>) /\ DOMAIN <<>> = {}
    BY DEF InOrder
  <2> HIDE DEF Source
  <2>7. QED
    BY <2>3, <2>4, <2>5, <2>6 DEF InPipeline
<1>2. CASE rows' = rows
  BY <1>2 DEF InPipeline, InOrder
<1>3. QED
  BY <1>0, <1>1, <1>2

(* The queue's first line becomes the batch's last.                        *)
LEMMA ReceiveInPipeline ==
  ASSUME JournalTypeOK, queue # <<>>, InPipeline(rows, batch, queue, said)
  PROVE  InPipeline(rows, Append(batch, Head(queue)), Tail(queue), said)
<1> DEFINE b == Append(batch, Head(queue))
           q == Tail(queue)
           k == Len(batch)
<1>1. /\ batch \in Seq(Line) /\ queue \in Seq(Line) /\ Len(queue) \in Nat /\ k \in Nat
      /\ Len(queue) > 0 /\ Head(queue) = queue[1] /\ queue[1] \in Line
      /\ DOMAIN batch = 1..k /\ DOMAIN queue = 1..Len(queue)
  BY DEF JournalTypeOK
<1>2. /\ DOMAIN b = 1..(k + 1) /\ b[k + 1] = queue[1]
      /\ \A i \in 1..k : b[i] = batch[i]
  BY <1>1
<1>3. /\ DOMAIN q = 1..(Len(queue) - 1)
      /\ \A i \in DOMAIN q : q[i] = queue[i + 1] /\ i + 1 \in DOMAIN queue /\ i + 1 > 1
  BY <1>1
<1>4. 1 \in DOMAIN queue /\ \A i \in DOMAIN b : i # k + 1 => i \in DOMAIN batch
  BY <1>1, <1>2
<1> HIDE DEF b, q
<1>5. InOrder(b)
  <2>1. ASSUME NEW i \in DOMAIN b, NEW j \in DOMAIN b, i < j
        PROVE  Earlier(b[i], b[j])
    <3>1. CASE j = k + 1
      <4>1. i \in DOMAIN batch /\ b[i] = batch[i] /\ b[j] = queue[1]
        BY <1>1, <1>2, <2>1, <3>1
      <4>2. QED
        BY <1>4, <4>1 DEF InPipeline
    <3>2. CASE j # k + 1
      <4>1. i \in DOMAIN batch /\ j \in DOMAIN batch /\ b[i] = batch[i] /\ b[j] = batch[j]
        BY <1>1, <1>2, <2>1, <3>2
      <4>2. QED
        BY <2>1, <4>1 DEF InPipeline, InOrder
    <3>3. QED
      BY <3>1, <3>2
  <2>2. QED
    BY <2>1 DEF InOrder
<1>6. InOrder(q)
  <2>1. ASSUME NEW i \in DOMAIN q, NEW j \in DOMAIN q, i < j
        PROVE  Earlier(q[i], q[j])
    <3>1. i + 1 \in DOMAIN queue /\ j + 1 \in DOMAIN queue /\ i + 1 < j + 1
      BY <1>3, <2>1
    <3>2. QED
      BY <1>3, <3>1 DEF InPipeline, InOrder
  <2>2. QED
    BY <2>1 DEF InOrder
<1>7. \A i \in DOMAIN rows : /\ \A j \in DOMAIN b : Earlier(rows[i].line, b[j])
                             /\ \A j \in DOMAIN q : Earlier(rows[i].line, q[j])
  BY <1>1, <1>2, <1>3, <1>4 DEF InPipeline
<1>8. \A i \in DOMAIN b, j \in DOMAIN q : Earlier(b[i], q[j])
  <2>1. ASSUME NEW i \in DOMAIN b, NEW j \in DOMAIN q
        PROVE  Earlier(b[i], q[j])
    <3>1. q[j] = queue[j + 1] /\ j + 1 \in DOMAIN queue /\ 1 < j + 1
      BY <1>3
    <3>2. CASE i = k + 1
      BY <1>2, <1>4, <3>1, <3>2 DEF InPipeline, InOrder
    <3>3. CASE i # k + 1
      BY <1>1, <1>2, <1>4, <3>1, <3>3 DEF InPipeline
    <3>4. QED
      BY <3>2, <3>3
  <2>2. QED
    BY <2>1
<1>9. /\ \A i \in DOMAIN b : b[i][2] <= said[b[i][1]]
      /\ \A i \in DOMAIN q : q[i][2] <= said[q[i][1]]
  BY <1>1, <1>2, <1>3, <1>4 DEF InPipeline
<1>10. InPipeline(rows, b, q, said)
  BY <1>5, <1>6, <1>7, <1>8, <1>9 DEF InPipeline
<1>11. QED
  BY <1>10 DEF b, q

(* A new line is behind all that its writer said.                          *)
LEMMA SendInPipeline ==
  ASSUME JournalTypeOK, NEW w \in Writers, InPipeline(rows, batch, queue, said),
         said[w] < LinesEach,
         NEW n, n = [said EXCEPT ![w] = @ + 1],
         NEW q, q = Append(queue, <<w, said[w] + 1>>) \/ q = queue
  PROVE  InPipeline(rows, batch, q, n)
<1> DEFINE new == <<w, said[w] + 1>>
           k == Len(queue)
<1>1. said \in [Writers -> Nat] /\ new[1] = w /\ new[2] = said[w] + 1 /\ new \in Line
  BY JournalNumbers DEF JournalTypeOK, Line
<1>2. ASSUME NEW l \in Line, l[2] <= said[l[1]]
      PROVE  Earlier(l, new) /\ l[2] <= n[l[1]]
  <2>1. l[1] \in Writers /\ l[2] \in Nat
    BY JournalNumbers DEF Line
  <2>2. QED
    BY <1>1, <1>2, <2>1 DEF Earlier
<1>3. /\ batch \in Seq(Line) /\ queue \in Seq(Line) /\ rows \in Seq(Row) /\ k \in Nat
      /\ DOMAIN queue = 1..k
  BY DEF JournalTypeOK, Row
<1>4. /\ \A i \in DOMAIN rows : /\ rows[i].line \in Line
                                /\ Earlier(rows[i].line, new)
                                /\ rows[i].line[2] <= n[rows[i].line[1]]
      /\ \A i \in DOMAIN batch : Earlier(batch[i], new) /\ batch[i][2] <= n[batch[i][1]]
      /\ \A i \in DOMAIN queue : Earlier(queue[i], new) /\ queue[i][2] <= n[queue[i][1]]
  <2>1. \A i \in DOMAIN rows : rows[i].line \in Line
    <3>1. \A i \in DOMAIN rows : rows[i] \in Row
      BY <1>3
    <3>2. \A r \in Row : r.line \in Line
      BY DEF Row
    <3>3. QED
      BY <3>1, <3>2
  <2>2. \A i \in DOMAIN rows : rows[i].line[2] <= said[rows[i].line[1]]
    BY DEF InPipeline
  <2>3. \A i \in DOMAIN batch : batch[i] \in Line /\ batch[i][2] <= said[batch[i][1]]
    BY <1>3 DEF InPipeline
  <2>4. \A i \in DOMAIN queue : queue[i] \in Line /\ queue[i][2] <= said[queue[i][1]]
    BY <1>3 DEF InPipeline
  <2> HIDE DEF new
  <2>5. QED
    BY <1>2, <2>1, <2>2, <2>3, <2>4
<1>5. CASE q = queue
  BY <1>4, <1>5 DEF InPipeline
<1>6. CASE q = Append(queue, new)
  <2>1. /\ DOMAIN q = 1..(k + 1) /\ q[k + 1] = new
        /\ \A i \in 1..k : q[i] = queue[i]
    BY <1>1, <1>3, <1>6
  <2>2. \A i \in DOMAIN q : i # k + 1 => i \in DOMAIN queue
    BY <1>3, <2>1
  <2>3. InOrder(q)
    <3>1. ASSUME NEW i \in DOMAIN q, NEW j \in DOMAIN q, i < j
          PROVE  Earlier(q[i], q[j])
      <4>1. CASE j = k + 1
        <5>1. i \in DOMAIN queue /\ q[i] = queue[i] /\ q[j] = new
          BY <1>3, <2>1, <3>1, <4>1
        <5> HIDE DEF new
        <5>2. QED
          BY <1>4, <5>1
      <4>2. CASE j # k + 1
        BY <1>3, <2>1, <2>2, <3>1, <4>2 DEF InPipeline, InOrder
      <4>3. QED
        BY <4>1, <4>2
    <3>2. QED
      BY <3>1 DEF InOrder
  <2>4. n[w] = said[w] + 1
    BY <1>1
  <2>5. /\ \A i \in DOMAIN rows : \A j \in DOMAIN q : Earlier(rows[i].line, q[j])
        /\ \A i \in DOMAIN batch, j \in DOMAIN q : Earlier(batch[i], q[j])
        /\ \A i \in DOMAIN q : q[i][2] <= n[q[i][1]]
    <3>1. \A j \in DOMAIN q : q[j] = new \/ (j \in DOMAIN queue /\ q[j] = queue[j])
      BY <1>3, <2>1
    <3>2. new[2] <= n[new[1]]
      BY <1>1, <2>4
    <3> HIDE DEF new
    <3>3. QED
      BY <1>4, <3>1, <3>2 DEF InPipeline
  <2>6. QED
    BY <1>4, <2>3, <2>5 DEF InPipeline
<1>7. QED
  BY <1>5, <1>6

(* A flushed line is in the table or counted as lost, and none leaves it.  *)
LEMMA FlushSettles ==
  ASSUME JournalTypeOK, NEW b \in Seq(Line), Flush(b)
  PROVE  /\ rows' \in Seq(Row) /\ wasted' \subseteq Line
         /\ ToSet(b) \cup Written \cup wasted \subseteq Written' \cup wasted'
<1>1. /\ rows \in Seq(Row) /\ wasted \subseteq Line /\ Len(rows) \in Nat /\ Len(b) \in Nat
      /\ DOMAIN rows = 1..Len(rows) /\ DOMAIN b = 1..Len(b)
  BY DEF JournalTypeOK, Row
<1>2. CASE Inserts(b)
  <2>1. /\ rows' \in Seq(Row) /\ wasted' = wasted
        /\ DOMAIN rows' = 1..(Len(rows) + Len(b))
    BY <1>1, <1>2 DEF Inserts
  <2>2. ASSUME NEW i \in DOMAIN rows PROVE rows[i].line \in Written'
    <3>1. i \in DOMAIN rows' /\ rows'[i] = rows[i]
      BY <1>1, <1>2, <2>1 DEF Inserts
    <3>2. QED
      BY <3>1 DEF Written
  <2>3. ASSUME NEW i \in DOMAIN b PROVE b[i] \in Written'
    <3>1. Len(rows) + i \in DOMAIN rows' /\ rows'[Len(rows) + i].line = b[i]
      BY <1>1, <1>2, <2>1 DEF Inserts
    <3>2. QED
      BY <3>1 DEF Written
  <2>4. Written \subseteq Written'
    BY <2>2 DEF Written
  <2>5. ToSet(b) \subseteq Written'
    BY <2>3 DEF ToSet
  <2>6. QED
    BY <1>1, <2>1, <2>4, <2>5
<1>3. CASE rows' = rows /\ wasted' = wasted \cup ToSet(b)
  <2>1. ToSet(b) \subseteq Line
    BY <1>1 DEF ToSet
  <2>2. Written' = Written
    BY <1>3 DEF Written
  <2>3. QED
    BY <1>1, <1>3, <2>1, <2>2
<1>4. QED
  BY <1>2, <1>3, FlushOutcome

(* The set of a sequence after Append, Head and Tail.                      *)
LEMMA TakenOff ==
  ASSUME NEW S, NEW b \in Seq(S), NEW q \in Seq(S), q # <<>>
  PROVE  /\ Head(q) \in S /\ Tail(q) \in Seq(S) /\ Len(Tail(q)) = Len(q) - 1
         /\ Append(b, Head(q)) \in Seq(S) /\ Len(Append(b, Head(q))) = Len(b) + 1
         /\ ToSet(b) \cup ToSet(q) \subseteq ToSet(Append(b, Head(q))) \cup ToSet(Tail(q))
<1>1. /\ Head(q) = q[1] /\ Head(q) \in S /\ Tail(q) \in Seq(S) /\ Len(q) \in Nat /\ Len(b) \in Nat
      /\ Len(Tail(q)) = Len(q) - 1 /\ \A i \in 1..Len(Tail(q)) : Tail(q)[i] = q[i + 1]
  OBVIOUS
<1>2. /\ Append(b, Head(q)) \in Seq(S) /\ Len(Append(b, Head(q))) = Len(b) + 1
      /\ \A i \in 1..Len(b) : Append(b, Head(q))[i] = b[i]
      /\ Append(b, Head(q))[Len(b) + 1] = Head(q)
  BY <1>1
<1>3. ASSUME NEW i \in 1..Len(q) PROVE q[i] \in ToSet(Append(b, Head(q))) \cup ToSet(Tail(q))
  <2>1. CASE i = 1
    <3>1. Len(b) + 1 \in 1..Len(Append(b, Head(q)))
      BY <1>1, <1>2
    <3>2. q[i] = Append(b, Head(q))[Len(b) + 1]
      BY <1>1, <1>2, <2>1
    <3>3. q[i] \in ToSet(Append(b, Head(q)))
      BY <1>2, <3>1, <3>2, MembersOf
    <3>4. QED
      BY <3>3
  <2>2. CASE i # 1
    <3>1. i - 1 \in 1..Len(Tail(q)) /\ Tail(q)[i - 1] = q[i]
      BY <1>1, <2>2
    <3>2. q[i] \in ToSet(Tail(q))
      BY <1>1, <3>1, MembersOf
    <3>3. QED
      BY <3>2
  <2>3. QED
    BY <2>1, <2>2
<1>4. ASSUME NEW i \in 1..Len(b) PROVE b[i] \in ToSet(Append(b, Head(q)))
  <2>1. i \in 1..Len(Append(b, Head(q))) /\ Append(b, Head(q))[i] = b[i]
    BY <1>1, <1>2
  <2>2. QED
    BY <1>2, <2>1, MembersOf
<1>5. ToSet(q) = {q[i] : i \in 1..Len(q)} /\ ToSet(b) = {b[i] : i \in 1..Len(b)}
  BY <1>1 DEF ToSet
<1>6. QED
  BY <1>1, <1>2, <1>3, <1>4, <1>5

LEMMA EmptySequence ==
  /\ <<>> \in Seq(Line) /\ Len(<<>>) = 0 /\ ToSet(<<>>) = {}
  /\ InPipeline(<<>>, <<>>, <<>>, [w \in Writers |-> 0])
<1>1. <<>> \in Seq(Line) /\ Len(<<>>) = 0 /\ DOMAIN <<>> = {}
  OBVIOUS
<1>2. QED
  BY <1>1 DEF ToSet, InPipeline, InOrder

(* Fewer lines on their way are in order as well.                          *)
LEMMA DroppedInPipeline ==
  ASSUME NEW rs, NEW b, NEW q, NEW n, InPipeline(rs, b, q, n)
  PROVE  InPipeline(rs, <<>>, <<>>, n)
<1>1. DOMAIN <<>> = {}
  OBVIOUS
<1>2. QED
  BY <1>1 DEF InPipeline, InOrder

-------------------------------------------------------------------------------
(* The goroutine's steps: a flush, a line received, the end of the loop.   *)
LEMMA ReceiveStep == JournalInv /\ Receive => JournalInv'
<1> SUFFICES ASSUME JournalInv, Receive
             PROVE  JournalInv'
  OBVIOUS
<1> DEFINE b == Append(batch, Head(queue))
<1>1. /\ JournalTypeOK /\ queue # <<>> /\ drain # "ended"
      /\ batch \in Seq(Line) /\ queue \in Seq(Line) /\ Len(batch) \in Nat /\ Len(queue) \in Nat
      /\ Len(batch) < BatchSize /\ Len(queue) <= QueueSize
  BY DEF JournalInv, JournalTypeOK, Receive
<1>2. /\ Tail(queue) \in Seq(Line) /\ Len(Tail(queue)) = Len(queue) - 1
      /\ b \in Seq(Line) /\ Len(b) = Len(batch) + 1
      /\ Accepted \subseteq ToSet(b) \cup ToSet(Tail(queue))
  BY <1>1, TakenOff DEF Accepted
<1>3. InPipeline(rows, b, Tail(queue), said)
  BY <1>1, ReceiveInPipeline DEF JournalInv
<1>4. /\ queue' = Tail(queue)
      /\ UNCHANGED <<day, said, passed, drain, closing, owed, page>>
      /\ \/ Len(b) >= BatchSize /\ Flush(b) /\ timer' = "running"
         \/ Len(b) < BatchSize /\ batch' = b /\ UNCHANGED <<rows, wasted, timer>>
  BY <1>1, <1>2, JournalNumbers DEF Receive, Rearm
<1> HIDE DEF b
<1>5. CASE Len(b) >= BatchSize /\ Flush(b) /\ timer' = "running"
  <2>1. /\ rows' \in Seq(Row) /\ wasted' \subseteq Line /\ batch' = <<>>
        /\ ToSet(b) \cup Written \cup wasted \subseteq Written' \cup wasted'
    BY <1>1, <1>2, <1>5, FlushSettles DEF Flush
  <2>2. InPipeline(rows', <<>>, Tail(queue), said)
    BY <1>1, <1>2, <1>3, <1>4, <1>5, FlushInPipeline
  <2>3. JournalTypeOK'
    BY <1>1, <1>2, <1>4, <1>5, <2>1, EmptySequence, JournalNumbers DEF JournalTypeOK, Row
  <2>4. OwedIsFollowed'
    BY <1>1, <1>2, <1>4, <2>1 DEF JournalInv, OwedIsFollowed, Accepted
  <2>5. QED
    BY <1>4, <2>1, <2>2, <2>3, <2>4 DEF JournalInv
<1>6. CASE Len(b) < BatchSize /\ batch' = b /\ UNCHANGED <<rows, wasted, timer>>
  <2>1. JournalTypeOK'
    BY <1>1, <1>2, <1>4, <1>6, JournalNumbers DEF JournalTypeOK
  <2>2. OwedIsFollowed'
    BY <1>1, <1>2, <1>4, <1>6 DEF JournalInv, OwedIsFollowed, Accepted, Written
  <2>3. QED
    BY <1>3, <1>4, <1>6, <2>1, <2>2 DEF JournalInv
<1>7. QED
  BY <1>4, <1>5, <1>6

LEMMA FlushStep ==
  ASSUME JournalInv, Flush(batch),
         UNCHANGED <<day, said, passed, queue, closing, owed, page>>,
         timer' = "running" \/ timer' = timer,
         \/ drain' = drain
         \/ drain = "emptying" /\ drain' = "ended" /\ queue = <<>>
  PROVE  JournalInv'
<1>1. /\ JournalTypeOK /\ batch \in Seq(Line) /\ queue \in Seq(Line)
      /\ InPipeline(rows, batch, queue, said)
  BY DEF JournalInv, JournalTypeOK
<1>2. /\ rows' \in Seq(Row) /\ wasted' \subseteq Line /\ batch' = <<>>
      /\ ToSet(batch) \cup Written \cup wasted \subseteq Written' \cup wasted'
  BY <1>1, FlushSettles DEF Flush
<1>3. InPipeline(rows', <<>>, queue, said)
  BY <1>1, FlushInPipeline
<1>4. JournalTypeOK'
  BY <1>1, <1>2, EmptySequence, JournalNumbers DEF JournalTypeOK, Row
<1>5. OwedIsFollowed'
  <2>1. ToSet(<<>>) = {}
    BY EmptySequence
  <2>2. CASE drain' = drain
    BY <1>2, <2>2 DEF JournalInv, OwedIsFollowed, Accepted
  <2>3. CASE drain = "emptying" /\ drain' = "ended" /\ queue = <<>>
    BY <1>2, <2>1, <2>3 DEF JournalInv, OwedIsFollowed, Accepted
  <2>4. QED
    BY <2>2, <2>3
<1>6. QED
  BY <1>2, <1>3, <1>4, <1>5 DEF JournalInv

LEMMA SendStep ==
  ASSUME JournalInv, NEW w \in Writers, Send(w)
  PROVE  JournalInv'
<1>1. /\ JournalTypeOK /\ queue \in Seq(Line) /\ Len(queue) <= QueueSize /\ Len(queue) \in Nat
      /\ said \in [Writers -> 0..LinesEach] /\ said[w] < LinesEach /\ said[w] \in Nat
      /\ InPipeline(rows, batch, queue, said)
  BY JournalNumbers DEF JournalInv, JournalTypeOK, Send
<1>2. /\ said' = [said EXCEPT ![w] = @ + 1] /\ passed' = passed \ {w}
      /\ UNCHANGED <<day, batch, timer, drain, closing, rows, wasted, owed, page>>
      /\ queue' = queue \/ (queue' = Append(queue, <<w, said[w] + 1>>) /\ Len(queue) < QueueSize)
  BY DEF Send
<1>3. InPipeline(rows, batch, queue', said')
  BY <1>1, <1>2, SendInPipeline
<1>4. <<w, said[w] + 1>> \in Line
  BY <1>1, JournalNumbers DEF Line
<1>5. queue' \in Seq(Line) /\ Len(queue') <= QueueSize /\ ToSet(queue) \subseteq ToSet(queue')
  <2>1. CASE queue' = queue
    BY <1>1, <2>1
  <2>2. CASE queue' = Append(queue, <<w, said[w] + 1>>) /\ Len(queue) < QueueSize
    <3>1. /\ queue' \in Seq(Line) /\ Len(queue') = Len(queue) + 1
          /\ \A i \in 1..Len(queue) : queue'[i] = queue[i]
      BY <1>1, <1>4, <2>2
    <3>2. ToSet(queue) = {queue[i] : i \in 1..Len(queue)}
      BY <1>1 DEF ToSet
    <3>3. \A i \in 1..Len(queue) : i \in 1..Len(queue') /\ queue[i] = queue'[i]
      BY <1>1, <3>1
    <3>4. \A i \in 1..Len(queue) : queue[i] \in ToSet(queue')
      BY <3>1, <3>3, MembersOf
    <3>5. ToSet(queue) \subseteq ToSet(queue')
      BY <3>2, <3>4
    <3>6. Len(queue) + 1 <= QueueSize
      BY <1>1, <2>2, JournalNumbers
    <3>7. QED
      BY <3>1, <3>5, <3>6
  <2>3. QED
    BY <1>2, <2>1, <2>2
<1>6. JournalTypeOK'
  <2>1. said' \in [Writers -> 0..LinesEach]
    BY <1>1, <1>2, JournalNumbers
  <2>2. QED
    BY <1>1, <1>2, <1>5, <2>1 DEF JournalTypeOK
<1>7. \A v \in passed' : said'[v] < LinesEach
  <2>1. \A v \in passed' : v # w /\ v \in passed /\ v \in Writers
    BY <1>2 DEF JournalInv, JournalTypeOK
  <2>2. \A v \in passed' : said'[v] = said[v]
    BY <1>1, <1>2, <2>1
  <2>3. QED
    BY <2>1, <2>2 DEF JournalInv
<1>8. OwedIsFollowed'
  BY <1>2, <1>5 DEF JournalInv, OwedIsFollowed, Accepted, Written
<1>9. QED
  BY <1>2, <1>3, <1>6, <1>7, <1>8 DEF JournalInv

(* A pruned row keeps its line and its id.                                 *)
LEMMA PruneStep == JournalInv /\ PruneLogs => JournalInv'
<1> SUFFICES ASSUME JournalInv, PruneLogs
             PROVE  JournalInv'
  OBVIOUS
<1>1. /\ rows \in Seq(Row) /\ Len(rows) \in Nat /\ DOMAIN rows = 1..Len(rows)
      /\ JournalTypeOK
  BY DEF JournalInv, JournalTypeOK, Row
<1>2. UNCHANGED <<day, said, passed, queue, batch, timer, drain, closing, wasted, owed, page>>
  BY DEF PruneLogs
<1> DEFINE Pruned(i) == [rows[i] EXCEPT !.pruned = @ \/ rows[i].ts < day - Retention]
<1>3. rows' = [i \in DOMAIN rows |-> Pruned(i)]
  BY DEF PruneLogs
<1>4. ASSUME NEW i \in 1..Len(rows)
      PROVE  Pruned(i) \in Row /\ Pruned(i).line = rows[i].line
  <2>1. rows[i] \in Row
    BY <1>1
  <2>2. PICK p \in BOOLEAN : p = (rows[i].pruned \/ rows[i].ts < day - Retention)
    OBVIOUS
  <2>3. Pruned(i) = [rows[i] EXCEPT !.pruned = p]
    BY <2>2, Zenon
  <2> HIDE DEF Pruned
  <2>4. QED
    BY <2>1, <2>3 DEF Row
<1> HIDE DEF Pruned
<1>5. /\ rows' \in Seq(Row) /\ DOMAIN rows' = DOMAIN rows
      /\ \A i \in DOMAIN rows : rows'[i].line = rows[i].line
  BY <1>1, <1>3, <1>4
<1>6. Written' = Written
  BY <1>5 DEF Written
<1>7. InPipeline(rows', batch, queue, said)
  BY <1>5 DEF JournalInv, InPipeline
<1>8. JournalTypeOK'
  BY <1>1, <1>2, <1>5 DEF JournalTypeOK, Row
<1>9. OwedIsFollowed'
  BY <1>2, <1>6 DEF JournalInv, OwedIsFollowed, Accepted
<1>10. QED
  BY <1>2, <1>7, <1>8, <1>9 DEF JournalInv

-------------------------------------------------------------------------------
LEMMA JournalInitially == JournalInit => JournalInv
<1> SUFFICES ASSUME JournalInit
             PROVE  JournalInv
  OBVIOUS
<1>1. JournalTypeOK
  <2>1. <<>> \in Seq([line : Line, ts : 0..LastDay, pruned : BOOLEAN])
    OBVIOUS
  <2>2. said \in [Writers -> 0..LinesEach]
    BY JournalNumbers DEF JournalInit
  <2>3. QED
    BY <2>1, <2>2, EmptySequence, JournalNumbers DEF JournalInit, JournalTypeOK, Unread
<1>2. InPipeline(rows, batch, queue, said)
  BY EmptySequence DEF JournalInit
<1>3. OwedIsFollowed
  BY DEF JournalInit, OwedIsFollowed
<1>4. QED
  BY <1>1, <1>2, <1>3 DEF JournalInit, JournalInv

LEMMA ShownState ==
  ASSUME NEW ids, NEW due, Shown(ids, due)
  PROVE  page'.state \in {"reading", "complete"}
<1> DEFINE got == QueryLogs(AfterCursor(ids))
           state == IF Len(got) < PageSize THEN "complete" ELSE "reading"
<1>1. page' = [state |-> state, ids |-> ids \o got, due |-> due]
  BY DEF Shown
<1>2. state \in {"reading", "complete"}
  OBVIOUS
<1> HIDE DEF got, state
<1>3. QED
  BY <1>1, <1>2

LEMMA JournalStep == JournalInv /\ [JournalNext]_journalVars => JournalInv'
<1> SUFFICES ASSUME JournalInv, [JournalNext]_journalVars
             PROVE  JournalInv'
  OBVIOUS
<1>0. JournalTypeOK /\ InPipeline(rows, batch, queue, said) /\ OwedIsFollowed
  BY DEF JournalInv
<1> USE JournalNumbers
<1>1. ASSUME NEW w \in Writers, CheckLevel(w) PROVE JournalInv'
  BY <1>0, <1>1 DEF JournalInv, JournalTypeOK, OwedIsFollowed, Accepted, Written, CheckLevel
<1>2. ASSUME NEW w \in Writers, Send(w) PROVE JournalInv'
  BY <1>2, SendStep
<1>3. CASE Receive
  BY <1>3, ReceiveStep
<1>4. CASE OnTimer
  BY <1>4, FlushStep DEF OnTimer, Rearm
<1>5. CASE OnDone
  BY <1>0, <1>5 DEF JournalInv, JournalTypeOK, OwedIsFollowed, Accepted, Written, OnDone
<1>6. CASE DrainEnds
  BY <1>6, FlushStep DEF DrainEnds
<1>7. CASE TimerFires
  BY <1>0, <1>7 DEF JournalInv, JournalTypeOK, OwedIsFollowed, Accepted, Written, TimerFires
<1>8. CASE CloseCalled
  <2>1. Accepted \subseteq Line
    BY <1>0 DEF JournalTypeOK, Accepted, ToSet
  <2>2. QED
    BY <1>0, <1>8, <2>1
    DEF JournalInv, JournalTypeOK, OwedIsFollowed, Accepted, Written, CloseCalled
<1>9. CASE CloseReturns
  BY <1>0, <1>9 DEF JournalInv, JournalTypeOK, OwedIsFollowed, Accepted, Written, CloseReturns
<1>10. CASE LoggerRestarts
  <2>1. Accepted \subseteq Line
    BY <1>0 DEF JournalTypeOK, Accepted, ToSet
  <2>2. InPipeline(rows, <<>>, <<>>, said)
    BY <1>0, DroppedInPipeline
  <2>3. JournalTypeOK'
    BY <1>0, <1>10, <2>1, EmptySequence DEF JournalTypeOK, LoggerRestarts
  <2>4. QED
    BY <1>0, <1>10, <2>2, <2>3 DEF JournalInv, OwedIsFollowed, LoggerRestarts
<1>11. CASE NextDay
  <2>1. day' \in 0..LastDay
    BY <1>0, <1>11 DEF JournalTypeOK, NextDay
  <2>2. QED
    BY <1>0, <1>11, <2>1
    DEF JournalInv, JournalTypeOK, OwedIsFollowed, Accepted, Written, NextDay
<1>12. CASE PruneLogs
  BY <1>12, PruneStep
<1>13. CASE OpenLogs \/ LoadMore
  <2>1. UNCHANGED <<day, said, passed, queue, batch, timer, drain, closing, rows, wasted, owed>>
    BY <1>13 DEF OpenLogs, LoadMore
  <2>2. page'.state \in {"reading", "complete"}
    BY <1>13, ShownState DEF OpenLogs, LoadMore
  <2>3. QED
    BY <1>0, <2>1, <2>2 DEF JournalInv, JournalTypeOK, OwedIsFollowed, Accepted, Written
<1>14. CASE UNCHANGED journalVars
  BY <1>0, <1>14
  DEF JournalInv, JournalTypeOK, OwedIsFollowed, Accepted, Written, journalVars
<1>15. QED
  BY <1>1, <1>2, <1>3, <1>4, <1>5, <1>6, <1>7, <1>8, <1>9, <1>10, <1>11, <1>12, <1>13, <1>14
  DEF JournalNext

(* The lines on their way are those of running goroutines in their order,  *)
(* and what Close was called for is followed to its end (internal/logging).*)
THEOREM JournalInvariance == JournalSteps => []JournalInv
<1>1. QED
  BY JournalInitially, JournalStep, PTL DEF JournalSteps

(* Queue and batch stay within their capacities, the day within the clock. *)
THEOREM JournalTypes == JournalSteps => []JournalTypeOK
<1>1. JournalInv => JournalTypeOK
  BY DEF JournalInv
<1>2. QED
  BY <1>1, JournalInvariance, PTL

(* Whatever was dropped, lost with a batch or cut off, a goroutine's lines *)
(* stand in app_logs in the order it logged them, none of them twice.      *)
THEOREM RowsInOrderOfCallers == JournalSteps => []RowsFollowTheCallers
<1>1. JournalInv => RowsFollowTheCallers
  BY DEF JournalInv, InPipeline, Earlier, RowsFollowTheCallers
<1>2. QED
  BY <1>1, JournalInvariance, PTL

(* When Close of the logger returns, what had been taken in before it was  *)
(* called has been written, or its transaction has failed.                 *)
THEOREM CloseKeepsItsPromise == JournalSteps => []CloseFlushes
<1>1. JournalInv => CloseFlushes
  BY DEF JournalInv, OwedIsFollowed, CloseFlushes
<1>2. QED
  BY <1>1, JournalInvariance, PTL

-------------------------------------------------------------------------------
(***************************************************************************)
(* Journal: the reader.  Its list goes from newer to older rows, and what  *)
(* it ought to show and does not show yet is older than the list's end.    *)
(***************************************************************************)
NewestFirst(ids) == \A i, j \in DOMAIN ids : i < j => Older(ids[j], ids[i])

ShownOrToCome(ids, due, more) ==
  \A d \in due : \/ rows[d].pruned
                 \/ d \in ToSet(ids)
                 \/ more /\ (Len(ids) > 0 => Older(d, ids[Len(ids)]))

ReaderInv ==
  /\ page.ids \in Seq(DOMAIN rows) /\ page.due \subseteq DOMAIN rows
  /\ NewestFirst(page.ids)
  /\ page.state = "reading" => Len(page.ids) > 0
  /\ ShownOrToCome(page.ids, page.due, page.state = "reading")

(* Rows are never taken away, and keep their second; a pruned one stays    *)
(* pruned.                                                                 *)
RowsKept ==
  /\ DOMAIN rows \subseteq DOMAIN rows'
  /\ \A i \in DOMAIN rows : rows'[i].ts = rows[i].ts /\ (rows[i].pruned => rows'[i].pruned)

LEMMA FlushKeepsRows ==
  ASSUME JournalTypeOK, NEW b \in Seq(Line), Flush(b)
  PROVE  RowsKept
<1>1. Inserts(b) \/ rows' = rows
  BY FlushOutcome
<1>2. rows \in Seq(Row) /\ Len(rows) \in Nat /\ DOMAIN rows = 1..Len(rows) /\ Len(b) \in Nat
  BY DEF JournalTypeOK, Row
<1>3. CASE Inserts(b)
  <2>1. DOMAIN rows' = 1..(Len(rows) + Len(b))
    BY <1>3 DEF Inserts
  <2>2. DOMAIN rows \subseteq DOMAIN rows'
    BY <1>2, <2>1
  <2>3. \A i \in DOMAIN rows : rows'[i] = rows[i]
    BY <1>2, <1>3 DEF Inserts
  <2>4. QED
    BY <2>2, <2>3 DEF RowsKept
<1>4. CASE rows' = rows
  BY <1>4 DEF RowsKept
<1>5. QED
  BY <1>1, <1>3, <1>4

LEMMA JournalKeepsRows == JournalInv /\ [JournalNext]_journalVars => RowsKept
<1> SUFFICES ASSUME JournalInv, [JournalNext]_journalVars
             PROVE  RowsKept
  OBVIOUS
<1>0. JournalTypeOK /\ batch \in Seq(Line) /\ queue \in Seq(Line)
  BY DEF JournalInv, JournalTypeOK
<1>1. CASE Receive
  <2>1. Append(batch, Head(queue)) \in Seq(Line)
    BY <1>0, <1>1, TakenOff DEF Receive
  <2>2. Flush(Append(batch, Head(queue))) \/ rows' = rows
    BY <1>1 DEF Receive
  <2>3. QED
    BY <1>0, <2>1, <2>2, FlushKeepsRows DEF RowsKept
<1>2. CASE OnTimer \/ DrainEnds
  BY <1>0, <1>2, FlushKeepsRows DEF OnTimer, DrainEnds
<1>3. CASE PruneLogs
  <2>1. rows' = [i \in DOMAIN rows |->
                  [rows[i] EXCEPT !.pruned = @ \/ rows[i].ts < day - Retention]]
    BY <1>3 DEF PruneLogs
  <2>2. ASSUME NEW i \in DOMAIN rows
        PROVE  rows'[i].ts = rows[i].ts /\ (rows[i].pruned => rows'[i].pruned)
    <3>0. rows \in Seq(Row)
      BY <1>0 DEF JournalTypeOK, Row
    <3>1. rows[i] \in Row
      BY <3>0
    <3>2. PICK p \in BOOLEAN : p = (rows[i].pruned \/ rows[i].ts < day - Retention)
      OBVIOUS
    <3>3. rows'[i] = [rows[i] EXCEPT !.pruned = p]
      BY <2>1, <3>2, Zenon
    <3>4. rows'[i].ts = rows[i].ts /\ rows'[i].pruned = p
      BY <3>1, <3>3 DEF Row
    <3>5. QED
      BY <3>2, <3>4
  <2>3. QED
    BY <2>1, <2>2 DEF RowsKept
<1>4. CASE rows' = rows
  BY <1>4 DEF RowsKept
<1>5. QED
  BY <1>1, <1>2, <1>3, <1>4
  DEF JournalNext, CheckLevel, Send, OnDone, TimerFires, CloseCalled, CloseReturns,
      LoggerRestarts, NextDay, OpenLogs, LoadMore, journalVars

(* The rows' order by second and id is one without gaps and circles.       *)
LEMMA OlderIsOrder ==
  ASSUME JournalTypeOK, NEW rest \in SUBSET (DOMAIN rows)
  PROVE  /\ IsFiniteSet(rest)
         /\ IsOrder(rest, [i \in rest |-> {j \in rest : Older(i, j)}])
         /\ \A i, j, k \in DOMAIN rows : Older(i, j) /\ Older(j, k) => Older(i, k)
         /\ \A i \in DOMAIN rows : ~Older(i, i)
<1>1. /\ rows \in Seq(Row) /\ Len(rows) \in Nat /\ DOMAIN rows = 1..Len(rows)
      /\ \A i \in DOMAIN rows : i \in Nat
  BY DEF JournalTypeOK, Row
<1>2. \A i \in DOMAIN rows : rows[i].ts \in Nat
  <2>1. \A r \in Row : r.ts \in Nat
    BY JournalNumbers DEF Row
  <2>2. QED
    BY <1>1, <2>1
<1>3. IsFiniteSet(rest)
  <2>1. IsFiniteSet(1..Len(rows))
    BY <1>1, FS_Interval
  <2>2. QED
    BY <1>1, <2>1, FS_Subset
<1>4. /\ \A i, j, k \in DOMAIN rows : Older(i, j) /\ Older(j, k) => Older(i, k)
      /\ \A i \in DOMAIN rows : ~Older(i, i)
      /\ \A i, j \in DOMAIN rows : i # j => Older(i, j) \/ Older(j, i)
  BY <1>1, <1>2 DEF Older
<1> DEFINE before == [i \in rest |-> {j \in rest : Older(i, j)}]
<1>5. \A x \in rest : before[x] = {j \in rest : Older(x, j)}
  OBVIOUS
<1> HIDE DEF before
<1>6. IsOrder(rest, before)
  BY <1>4, <1>5 DEF IsOrder
<1>7. QED
  BY <1>3, <1>4, <1>6 DEF before

(* A page: rows of rest from newer to older, and what it leaves out is     *)
(* older than all of them; nothing is left out when it comes back short.   *)
IsPage(got, rest) ==
  /\ got \in Seq(rest)
  /\ NewestFirst(got)
  /\ Len(got) < PageSize => \A d \in rest : d \in ToSet(got)
  /\ Len(got) >= PageSize =>
       \A d \in rest : d \in ToSet(got) \/ \A i \in DOMAIN got : Older(d, got[i])

LEMMA QueryLogsIsPage ==
  ASSUME JournalTypeOK, NEW rest \in SUBSET (DOMAIN rows)
  PROVE  IsPage(QueryLogs(rest), rest)
<1> DEFINE before == [i \in rest |-> {j \in rest : Older(i, j)}]
           newest == Listed(rest, before)
           size   == IF Len(newest) < PageSize THEN Len(newest) ELSE PageSize
           got    == SubSeq(newest, 1, size)
<1>1. IsListing(newest, rest, before)
  BY OlderIsOrder, ListedIsListing
<1>2. QueryLogs(rest) = got
  BY DEF QueryLogs
<1>3. \A x \in rest : before[x] = {j \in rest : Older(x, j)}
  OBVIOUS
<1> HIDE DEF before, newest
<1>4. newest \in Seq(rest) /\ Len(newest) \in Nat
  BY <1>1 DEF IsListing
<1>5. \A i, j \in 1..Len(newest) : i < j => Older(newest[j], newest[i])
  <2>1. TAKE i, j \in 1..Len(newest)
  <2>2. HAVE i < j
  <2>3. newest[i] \in before[newest[j]] /\ newest[j] \in rest
    BY <1>1, <1>4, <2>2 DEF IsListing
  <2>4. QED
    BY <1>3, <2>3
<1>6. size \in Nat /\ size <= Len(newest) /\ size <= PageSize
      /\ (size < PageSize => size = Len(newest))
  BY <1>4, JournalNumbers
<1> HIDE DEF size
<1>7. /\ got \in Seq(rest) /\ Len(got) = size /\ DOMAIN got = 1..size
      /\ \A i \in 1..size : got[i] = newest[i] /\ i \in 1..Len(newest)
  <2>1. \A i \in 1..size : newest[i] \in rest /\ i \in 1..Len(newest)
    BY <1>4, <1>6
  <2>2. got \in Seq(rest) /\ Len(got) = size
    BY <1>6, <2>1, SubSeqProperties
  <2>3. ASSUME NEW i \in 1..size PROVE got[i] = newest[i]
    BY <1>4, <1>6
  <2>4. QED
    BY <2>1, <2>2, <2>3
<1> HIDE DEF got
<1>8. NewestFirst(got)
  BY <1>5, <1>7 DEF NewestFirst
<1>9. ASSUME NEW d \in rest, NEW k \in 1..Len(newest), newest[k] = d
      PROVE  d \in ToSet(got) \/ (size = PageSize /\ \A i \in DOMAIN got : Older(d, got[i]))
  <2>1. CASE k \in 1..size
    <3>1. got[k] = d
      BY <1>7, <1>9, <2>1
    <3>2. QED
      BY <1>7, <2>1, <3>1, MembersOf
  <2>2. CASE k > size
    <3>1. size = PageSize
      BY <1>4, <1>6, <2>2, JournalNumbers
    <3>2. \A i \in DOMAIN got : Older(d, got[i])
      BY <1>4, <1>5, <1>6, <1>7, <1>9, <2>2
    <3>3. QED
      BY <3>1, <3>2
  <2>3. QED
    BY <1>6, <2>1, <2>2
<1>10. \A d \in rest : d \in ToSet(got) \/ (size = PageSize /\ \A i \in DOMAIN got : Older(d, got[i]))
  BY <1>1, <1>9 DEF IsListing
<1>11. IsPage(got, rest)
  BY <1>6, <1>7, <1>8, <1>10, JournalNumbers DEF IsPage
<1>12. QED
  BY <1>2, <1>11

(* A page put behind the list of those before it.                          *)
LEMMA ShownStep ==
  ASSUME JournalTypeOK, rows' = rows,
         NEW ids \in Seq(DOMAIN rows), NEW due \in SUBSET (DOMAIN rows),
         NewestFirst(ids), ShownOrToCome(ids, due, TRUE), Shown(ids, due)
  PROVE  ReaderInv'
<1> DEFINE rest == AfterCursor(ids)
           got  == QueryLogs(rest)
           all  == ids \o got
           k    == Len(ids)
<1>1. rest \in SUBSET (DOMAIN rows)
  BY DEF AfterCursor, LiveIds
<1>2. IsPage(got, rest)
  BY <1>1, QueryLogsIsPage
<1>3. got \in Seq(rest) /\ got \in Seq(DOMAIN rows)
  <2>1. got \in Seq(rest)
    BY <1>2 DEF IsPage
  <2>2. \A i \in 1..Len(got) : got[i] \in DOMAIN rows
    BY <1>1, <2>1
  <2>3. QED
    BY <2>1, <2>2
<1>4. /\ page'.state = (IF Len(got) < PageSize THEN "complete" ELSE "reading")
      /\ page'.ids = all /\ page'.due = due
  <2> DEFINE state == IF Len(got) < PageSize THEN "complete" ELSE "reading"
  <2>1. page' = [state |-> state, ids |-> all, due |-> due]
    BY DEF Shown
  <2> HIDE DEF state, all
  <2>2. page'.state = state /\ page'.ids = all /\ page'.due = due
    BY <2>1
  <2>3. QED
    BY <2>2 DEF state
<1> HIDE DEF got
<1>5. /\ all \in Seq(DOMAIN rows) /\ Len(all) = k + Len(got) /\ k \in Nat /\ Len(got) \in Nat
      /\ \A i \in 1..k : all[i] = ids[i]
      /\ \A i \in 1..Len(got) : all[k + i] = got[i]
  BY <1>3, Concatenated
<1> HIDE DEF all
<1>6. DOMAIN all = 1..(k + Len(got)) /\ DOMAIN ids = 1..k /\ DOMAIN got = 1..Len(got)
  BY <1>3, <1>5
<1>7. \A i \in DOMAIN all : \/ i \in DOMAIN ids /\ all[i] = ids[i]
                            \/ i > k /\ i - k \in DOMAIN got /\ all[i] = got[i - k]
  <2>1. TAKE i \in DOMAIN all
  <2>2. CASE i <= k
    BY <1>5, <1>6, <2>2
  <2>3. CASE i > k
    <3>1. i - k \in 1..Len(got) /\ k + (i - k) = i
      BY <1>5, <1>6, <2>3
    <3>2. QED
      BY <1>5, <1>6, <2>3, <3>1
  <2>4. QED
    BY <1>5, <1>6, <2>2, <2>3
<1>8. \A x, y, z \in DOMAIN rows : Older(x, y) /\ Older(y, z) => Older(x, z)
  BY <1>1, OlderIsOrder
<1>9. ASSUME NEW d \in rest, NEW i \in DOMAIN ids
      PROVE  Older(d, ids[i])
  <2>1. ids # <<>> /\ Last(ids) = ids[k]
    BY <1>6 DEF Last
  <2>2. d \in DOMAIN rows /\ Older(d, ids[k])
    BY <1>1, <2>1 DEF AfterCursor
  <2>3. k \in DOMAIN ids /\ ids[k] \in DOMAIN rows /\ ids[i] \in DOMAIN rows
    BY <1>5, <1>6
  <2>4. i = k \/ Older(ids[k], ids[i])
    BY <1>5, <1>6, <2>3 DEF NewestFirst
  <2>5. QED
    BY <1>8, <2>2, <2>3, <2>4
<1> HIDE DEF rest
<1>10. NewestFirst(all)
  <2>1. ASSUME NEW i \in DOMAIN all, NEW j \in DOMAIN all, i < j
        PROVE  Older(all[j], all[i])
    <3>1. CASE j <= k
      <4>1. i \in DOMAIN ids /\ j \in DOMAIN ids /\ all[i] = ids[i] /\ all[j] = ids[j]
        BY <1>5, <1>6, <1>7, <2>1, <3>1
      <4>2. QED
        BY <2>1, <4>1 DEF NewestFirst
    <3>2. CASE j > k /\ i <= k
      <4>1. i \in DOMAIN ids /\ all[i] = ids[i] /\ j - k \in DOMAIN got /\ all[j] = got[j - k]
        BY <1>5, <1>6, <1>7, <2>1, <3>2
      <4>2. all[j] \in rest
        BY <1>3, <4>1
      <4>3. QED
        BY <1>9, <4>1, <4>2
    <3>3. CASE i > k
      <4>1. /\ i - k \in DOMAIN got /\ all[i] = got[i - k]
            /\ j - k \in DOMAIN got /\ all[j] = got[j - k] /\ i - k < j - k
        BY <1>5, <1>6, <1>7, <2>1, <3>3
      <4>2. QED
        BY <1>2, <4>1 DEF IsPage, NewestFirst
    <3>4. QED
      BY <1>5, <1>6, <2>1, <3>1, <3>2, <3>3
  <2>2. QED
    BY <2>1 DEF NewestFirst
<1>11. ToSet(ids) \subseteq ToSet(all) /\ ToSet(got) \subseteq ToSet(all)
  <2>1. \A i \in DOMAIN ids : i \in DOMAIN all /\ all[i] = ids[i]
    BY <1>5, <1>6
  <2>2. \A i \in DOMAIN got : k + i \in DOMAIN all /\ all[k + i] = got[i]
    BY <1>5, <1>6
  <2>3. QED
    BY <2>1, <2>2 DEF ToSet
<1> DEFINE more == Len(got) >= PageSize
<1>12. ASSUME NEW d \in due
       PROVE  \/ rows[d].pruned \/ d \in ToSet(all)
              \/ more /\ (Len(all) > 0 => Older(d, all[Len(all)]))
  <2>1. CASE rows[d].pruned \/ d \in ToSet(ids)
    BY <1>11, <2>1
  <2>2. CASE ~rows[d].pruned /\ (k > 0 => Older(d, ids[k]))
    <3>1. d \in rest
      <4>1. d \in LiveIds
        BY <2>2 DEF LiveIds
      <4>2. ids = <<>> \/ k > 0
        BY <1>5
      <4>3. QED
        BY <2>2, <4>1, <4>2 DEF rest, AfterCursor, Last
    <3>2. CASE d \in ToSet(got)
      BY <1>11, <3>2
    <3>3. CASE d \notin ToSet(got)
      <4>1. more /\ \A i \in DOMAIN got : Older(d, got[i])
        BY <1>2, <1>5, <3>1, <3>3, JournalNumbers DEF IsPage
      <4>2. Len(got) \in DOMAIN got /\ all[Len(all)] = got[Len(got)]
        BY <1>5, <1>6, <4>1, JournalNumbers
      <4>3. QED
        BY <4>1, <4>2
    <3>4. QED
      BY <3>2, <3>3
  <2>3. QED
    BY <2>1, <2>2 DEF ShownOrToCome
<1>13. Len(got) >= PageSize => Len(all) > 0
  BY <1>5, JournalNumbers
<1>14. page'.state = "reading" <=> more
  BY <1>4, <1>5, JournalNumbers
<1> HIDE DEF more
<1>15. /\ page'.ids \in Seq(DOMAIN rows') /\ page'.due \subseteq DOMAIN rows'
       /\ NewestFirst(page.ids)'
       /\ page'.state = "reading" => Len(page'.ids) > 0
  <2>1. NewestFirst(page.ids)'
    BY <1>4, <1>10 DEF NewestFirst, Older
  <2>2. QED
    BY <1>4, <1>5, <1>13, <1>14, <2>1 DEF more
<1>16. ShownOrToCome(page.ids, page.due, page.state = "reading")'
  <2>1. ShownOrToCome(all, due, more)
    BY <1>12 DEF ShownOrToCome
  <2>2. page'.state = "reading" => more
    BY <1>14
  <2>3. more => page'.state = "reading"
    BY <1>14
  <2>4. QED
    BY <1>4, <2>1, <2>2, <2>3 DEF ShownOrToCome, Older, ToSet
<1>17. QED
  BY <1>15, <1>16 DEF ReaderInv

(* What happens to the table while nothing is fetched.                     *)
LEMMA ReaderWaits ==
  ASSUME ReaderInv, RowsKept, page' = page
  PROVE  ReaderInv'
<1>1. page.ids \in Seq(DOMAIN rows) /\ page.due \subseteq DOMAIN rows
  BY DEF ReaderInv
<1>2. \A i \in DOMAIN page.ids : page.ids[i] \in DOMAIN rows
  BY <1>1
<1>3. page.ids \in Seq(DOMAIN rows') /\ page.due \subseteq DOMAIN rows'
  <2>1. DOMAIN rows \subseteq DOMAIN rows'
    BY DEF RowsKept
  <2>2. \A i \in 1..Len(page.ids) : page.ids[i] \in DOMAIN rows'
    BY <1>1, <2>1
  <2>3. QED
    BY <1>1, <2>1, <2>2
<1>4. \A i, j \in DOMAIN rows : Older(i, j) => Older(i, j)'
  BY DEF RowsKept, Older
<1>5. NewestFirst(page.ids)'
  <2>1. ASSUME NEW i \in DOMAIN page.ids, NEW j \in DOMAIN page.ids, i < j
        PROVE  rows'[page.ids[j]].ts < rows'[page.ids[i]].ts
               \/ (rows'[page.ids[j]].ts = rows'[page.ids[i]].ts /\ page.ids[j] < page.ids[i])
    <3>1. page.ids[i] \in DOMAIN rows /\ page.ids[j] \in DOMAIN rows
      BY <1>2
    <3>2. Older(page.ids[j], page.ids[i])
      BY <2>1 DEF ReaderInv, NewestFirst
    <3>3. QED
      BY <3>1, <3>2 DEF Older, RowsKept
  <2>2. QED
    BY <2>1 DEF NewestFirst, Older
<1>6. ShownOrToCome(page.ids, page.due, page.state = "reading")'
  <2>1. ASSUME NEW d \in page.due, ~rows'[d].pruned, d \notin ToSet(page.ids)
        PROVE  /\ page.state = "reading"
               /\ Len(page.ids) > 0 =>
                    \/ rows'[d].ts < rows'[page.ids[Len(page.ids)]].ts
                    \/ /\ rows'[d].ts = rows'[page.ids[Len(page.ids)]].ts
                       /\ d < page.ids[Len(page.ids)]
    <3>1. d \in DOMAIN rows /\ ~rows[d].pruned
      BY <1>1, <2>1 DEF RowsKept
    <3>2. page.state = "reading" /\ Older(d, page.ids[Len(page.ids)])
      BY <2>1, <3>1 DEF ReaderInv, ShownOrToCome
    <3>3. Len(page.ids) > 0 => page.ids[Len(page.ids)] \in DOMAIN rows
      BY <1>1
    <3>4. QED
      BY <3>1, <3>2, <3>3 DEF Older, RowsKept
  <2>2. QED
    BY <2>1 DEF ShownOrToCome, Older
<1>7. QED
  BY <1>3, <1>5, <1>6 DEF ReaderInv

LEMMA ReaderStep == JournalInv /\ ReaderInv /\ [JournalNext]_journalVars => ReaderInv'
<1> SUFFICES ASSUME JournalInv, ReaderInv, [JournalNext]_journalVars
             PROVE  ReaderInv'
  OBVIOUS
<1>1. JournalTypeOK /\ RowsKept
  BY JournalKeepsRows DEF JournalInv
<1>2. CASE OpenLogs
  <2>1. <<>> \in Seq(DOMAIN rows) /\ Len(<<>>) = 0 /\ DOMAIN <<>> = {}
    OBVIOUS
  <2>2. LiveIds \in SUBSET (DOMAIN rows) /\ NewestFirst(<<>>)
    BY <2>1 DEF LiveIds, NewestFirst
  <2>3. ShownOrToCome(<<>>, LiveIds, TRUE)
    BY <2>1 DEF ShownOrToCome
  <2>4. Shown(<<>>, LiveIds) /\ rows' = rows
    BY <1>2 DEF OpenLogs
  <2>5. QED
    BY <1>1, <2>1, <2>2, <2>3, <2>4, ShownStep
<1>3. CASE LoadMore
  <2>1. ShownOrToCome(page.ids, page.due, TRUE)
    BY <1>3 DEF LoadMore, ReaderInv, ShownOrToCome
  <2>2. Shown(page.ids, page.due) /\ rows' = rows
    BY <1>3 DEF LoadMore
  <2>3. QED
    BY <1>1, <2>1, <2>2, ShownStep DEF ReaderInv
<1>4. CASE page' = page
  BY <1>1, <1>4, ReaderWaits
<1>5. QED
  BY <1>2, <1>3, <1>4
  DEF JournalNext, CheckLevel, Send, Receive, OnTimer, OnDone, TimerFires, DrainEnds,
      CloseCalled, CloseReturns, LoggerRestarts, NextDay, PruneLogs, journalVars

(* The console's list of log lines, fetched page by page with the cursor   *)
(* (ts, id) while lines are written and pruned, shows none twice and, once *)
(* a page has come back short, all that were there at first and still are. *)
THEOREM PagesAreComplete == JournalSteps => []PagesShowEachLineOnce
<1>1. JournalInit => ReaderInv
  <2>1. <<>> \in Seq(DOMAIN <<>>) /\ DOMAIN <<>> = {}
    OBVIOUS
  <2>2. QED
    BY <2>1 DEF JournalInit, ReaderInv, Unread, NewestFirst, ShownOrToCome
<1>2. JournalInv /\ ReaderInv => PagesShowEachLineOnce
  <2> SUFFICES ASSUME JournalInv, ReaderInv
               PROVE  PagesShowEachLineOnce
    OBVIOUS
  <2>1. page.ids \in Seq(DOMAIN rows) /\ DOMAIN page.ids \subseteq Nat
    BY DEF ReaderInv
  <2>2. \A i \in DOMAIN rows : ~Older(i, i)
    BY OlderIsOrder DEF JournalInv
  <2>3. ASSUME NEW i \in DOMAIN page.ids, NEW j \in DOMAIN page.ids,
               page.ids[i] = page.ids[j]
        PROVE  i = j
    <3>1. page.ids[i] \in DOMAIN rows
      BY <2>1
    <3>2. i < j => Older(page.ids[j], page.ids[i])
      BY DEF ReaderInv, NewestFirst
    <3>3. j < i => Older(page.ids[i], page.ids[j])
      BY DEF ReaderInv, NewestFirst
    <3>4. ~(i < j) /\ ~(j < i)
      BY <2>2, <2>3, <3>1, <3>2, <3>3
    <3>5. QED
      BY <2>1, <3>4
  <2>4. page.state = "complete" => page.due \cap LiveIds \subseteq ToSet(page.ids)
    BY DEF ReaderInv, ShownOrToCome, LiveIds
  <2>5. QED
    BY <2>3, <2>4 DEF PagesShowEachLineOnce, IsInjective
<1>3. QED
  BY <1>1, <1>2, ReaderStep, JournalInvariance, PTL DEF JournalSteps

-------------------------------------------------------------------------------
(***************************************************************************)
(* Probes.  A probe that is under way is one prober's, and in no history.  *)
(***************************************************************************)
OnItsWay(p) ==
  prober[p].probe # 0 =>
    /\ prober[p].on \in ChatModels
    /\ prober[p].probe <= started
    /\ \A q \in Probers : prober[q].probe = prober[p].probe => q = p
    /\ \A m \in ChatModels : \A i \in DOMAIN trail[m] : trail[m][i] # prober[p].probe

TrailIsSound(m) ==
  /\ \A i \in DOMAIN trail[m] : trail[m][i] <= started
  /\ \A i, j \in DOMAIN trail[m] : trail[m][i] = trail[m][j] => i = j
  /\ row[m] = IF Len(trail[m]) = 0 THEN 0 ELSE trail[m][Len(trail[m])]

(* What was not overtaken is newer than all that is written of its model,  *)
(* or still on its way.                                                    *)
Ahead(p) ==
  prober[p].probe # 0 /\ prober[p].probe \notin overtaken =>
    /\ \A i \in DOMAIN trail[prober[p].on] : trail[prober[p].on][i] < prober[p].probe
    /\ \A q \in Probers : prober[q].probe # 0 /\ prober[q].on = prober[p].on =>
                            prober[q].probe <= prober[p].probe

NewestUnlessOvertaken(m) == row[m] \in overtaken \/ NewestOf(m)

ProbesInv ==
  /\ ProbesTypeOK
  /\ \A p \in Probers : OnItsWay(p)
  /\ \A m \in ChatModels : TrailIsSound(m)
  /\ \A p \in Probers : Ahead(p)
  /\ \A m \in ChatModels : NewestUnlessOvertaken(m)

Prober == [todo : SUBSET ChatModels, on : ChatModels \cup {""}, probe : 0..MaxProbes]

Resting == [todo : SUBSET ChatModels, on : ChatModels \cup {""}, probe : {0}]

LEMMA Resters ==
  /\ \A x \in Prober : x.probe \in 0..MaxProbes /\ x.probe \in Nat
  /\ \A x \in Resting : x \in Prober /\ x.probe = 0
  /\ \A todo \in SUBSET ChatModels : [todo |-> todo, on |-> "", probe |-> 0] \in Resting
  /\ NotProbing \in Resting
<1>1. \A x \in Prober : x.probe \in 0..MaxProbes
  BY DEF Prober
<1>2. 0 \in 0..MaxProbes /\ \A n \in 0..MaxProbes : n \in Nat
  BY ProbesAssumption
<1>3. {0} \subseteq 0..MaxProbes
  BY <1>2
<1>4. ASSUME NEW x \in Resting PROVE x \in Prober /\ x.probe = 0
  BY <1>3 DEF Resting, Prober
<1>5. ASSUME NEW todo \in SUBSET ChatModels
      PROVE  [todo |-> todo, on |-> "", probe |-> 0] \in Resting
  BY DEF Resting
<1>6. {} \in SUBSET ChatModels
  OBVIOUS
<1>7. QED
  BY <1>1, <1>2, <1>4, <1>5, <1>6 DEF NotProbing

(* A prober whose ping has ended, its list of models unchanged.            *)
LEMMA EndsPing ==
  ASSUME NEW x \in Prober
  PROVE  [x EXCEPT !.on = "", !.probe = 0] \in Resting
BY DEF Prober, Resting

LEMMA ProbesTypes ==
  ProbesTypeOK <=> /\ started \in 0..MaxProbes
                   /\ prober \in [Probers -> Prober]
                   /\ row \in [ChatModels -> 0..MaxProbes]
                   /\ trail \in [ChatModels -> Seq(1..MaxProbes)]
                   /\ overtaken \subseteq 1..MaxProbes
BY DEF ProbesTypeOK, Prober

LEMMA ProbesFacts ==
  ASSUME ProbesInv
  PROVE  /\ started \in Nat
         /\ \A p \in Probers : prober[p] \in Prober /\ prober[p].probe \in Nat
                              /\ prober[p].probe <= started
         /\ \A m \in ChatModels : /\ trail[m] \in Seq(1..MaxProbes) /\ Len(trail[m]) \in Nat
                                  /\ DOMAIN trail[m] = 1..Len(trail[m])
                                  /\ \A i \in DOMAIN trail[m] : trail[m][i] \in Nat
<1>1. /\ started \in 0..MaxProbes
      /\ prober \in [Probers -> Prober]
      /\ trail \in [ChatModels -> Seq(1..MaxProbes)]
  BY ProbesTypes DEF ProbesInv
<1>2. \A x \in Prober : x.probe \in Nat
  BY Resters
<1>3. started \in Nat
  BY <1>1, ProbesAssumption
<1>4. ASSUME NEW p \in Probers
      PROVE  prober[p] \in Prober /\ prober[p].probe \in Nat /\ prober[p].probe <= started
  <2>1. prober[p] \in Prober /\ prober[p].probe \in Nat
    BY <1>1, <1>2
  <2>2. prober[p].probe # 0 => prober[p].probe <= started
    BY DEF ProbesInv, OnItsWay
  <2>3. QED
    BY <1>3, <2>1, <2>2
<1>5. ASSUME NEW m \in ChatModels
      PROVE  /\ trail[m] \in Seq(1..MaxProbes) /\ Len(trail[m]) \in Nat
             /\ DOMAIN trail[m] = 1..Len(trail[m])
             /\ \A i \in DOMAIN trail[m] : trail[m][i] \in Nat
  <2>1. trail[m] \in Seq(1..MaxProbes)
    BY <1>1
  <2>2. QED
    BY ONLY <2>1, ProbesAssumption
<1>6. QED
  BY <1>3, <1>4, <1>5

LEMMA ProbesInitially == ProbesInit => ProbesInv
<1> SUFFICES ASSUME ProbesInit
             PROVE  ProbesInv
  OBVIOUS
<1>1. /\ \A p \in Probers : prober[p] = NotProbing
      /\ \A m \in ChatModels : trail[m] = <<>> /\ row[m] = 0
  BY DEF ProbesInit
<1>2. <<>> \in Seq(1..MaxProbes) /\ Len(<<>>) = 0 /\ DOMAIN <<>> = {}
  OBVIOUS
<1>3. ProbesTypeOK
  <2>1. 0 \in 0..MaxProbes /\ NotProbing \in Prober
    BY ProbesAssumption, Resters
  <2>2. QED
    BY <1>2, <2>1, ProbesTypes DEF ProbesInit
<1>4. \A p \in Probers : OnItsWay(p)
  <2>1. \A p \in Probers : prober[p].probe = 0
    BY <1>1, Resters
  <2>2. QED
    BY <2>1 DEF OnItsWay
<1>5. \A m \in ChatModels : TrailIsSound(m) /\ NewestUnlessOvertaken(m)
  BY <1>1, <1>2 DEF TrailIsSound, NewestUnlessOvertaken, NewestOf
<1>6. \A p \in Probers : Ahead(p)
  BY <1>1, Resters DEF Ahead
<1>7. QED
  BY <1>3, <1>4, <1>5, <1>6 DEF ProbesInv

(* A prober that drops its ping, for whatever reason.                      *)
LEMMA PingDropped ==
  ASSUME ProbesInv, NEW p \in Probers,
         NEW x \in Resting,
         prober' = [prober EXCEPT ![p] = x], UNCHANGED <<started, row, trail, overtaken>>
  PROVE  ProbesInv'
<1>1. /\ \A q \in Probers : prober'[q] = IF q = p THEN x ELSE prober[q]
      /\ x.probe = 0
  BY Resters, ProbesTypes DEF ProbesInv
<1>2. ProbesTypeOK'
  BY Resters, ProbesTypes DEF ProbesInv, ProbesTypeOK, Prober
<1>3. ASSUME NEW q \in Probers PROVE OnItsWay(q)'
  <2>1. OnItsWay(q) /\ prober[q].probe # 0 /\ q # p => OnItsWay(q)'
    BY <1>1 DEF OnItsWay
  <2>2. QED
    BY <1>1, <2>1 DEF ProbesInv, OnItsWay
<1>4. ASSUME NEW m \in ChatModels PROVE TrailIsSound(m)' /\ NewestUnlessOvertaken(m)'
  BY DEF ProbesInv, TrailIsSound, NewestUnlessOvertaken, NewestOf
<1>5. ASSUME NEW q \in Probers PROVE Ahead(q)'
  <2>1. CASE q = p
    BY <1>1, <2>1 DEF Ahead
  <2>2. CASE q # p
    <3>1. Ahead(q) /\ prober'[q] = prober[q]
      BY <1>1, <2>2 DEF ProbesInv
    <3>2. \A r \in Probers : prober'[r].probe # 0 => prober'[r] = prober[r]
      BY <1>1
    <3>3. QED
      BY <3>1, <3>2 DEF Ahead
  <2>3. QED
    BY <2>1, <2>2
<1>6. QED
  BY <1>2, <1>3, <1>4, <1>5 DEF ProbesInv

LEMMA PingStep ==
  ASSUME ProbesInv, NEW p \in Probers, NEW m \in ChatModels, Ping(p, m)
  PROVE  ProbesInv'
<1> DEFINE x == [todo |-> prober[p].todo \ {m}, on |-> m, probe |-> started + 1]
<1>1. /\ started \in Nat /\ started + 1 \in 0..MaxProbes /\ started' = started + 1
      /\ prober' = [prober EXCEPT ![p] = x] /\ UNCHANGED <<row, trail>>
  <2>1. started \in Nat /\ started < MaxProbes
    BY ProbesFacts DEF Ping
  <2>2. started + 1 \in 0..MaxProbes
    BY <2>1, ProbesAssumption
  <2>3. QED
    BY <2>1, <2>2 DEF Ping
<1>2. \A q \in Probers : prober'[q] = IF q = p THEN x ELSE prober[q]
  BY <1>1 DEF ProbesInv, ProbesTypeOK
<1>overtaken. overtaken' = overtaken \cup
                {prober[q].probe : q \in {q \in Probers : prober[q].on = m /\ prober[q].probe # 0}}
  BY DEF Ping
<1>3. ProbesTypeOK'
  <2>1. prober' \in [Probers -> Prober] /\ started' \in 0..MaxProbes
    BY <1>1 DEF ProbesInv, ProbesTypeOK, Prober
  <2>2. overtaken' \subseteq 1..MaxProbes
    <3>1. \A q \in Probers : prober[q].probe \in 0..MaxProbes
      BY ProbesTypes, Resters DEF ProbesInv
    <3>2. \A n \in 0..MaxProbes : n # 0 => n \in 1..MaxProbes
      BY ProbesAssumption
    <3>3. overtaken \subseteq 1..MaxProbes
      BY ProbesTypes DEF ProbesInv
    <3>4. QED
      BY <1>overtaken, <3>1, <3>2, <3>3
  <2>3. QED
    BY <1>1, <2>1, <2>2 DEF ProbesInv, ProbesTypeOK, Prober
<1>4. ASSUME NEW n \in ChatModels
      PROVE  /\ trail[n] \in Seq(1..MaxProbes)
             /\ \A i \in DOMAIN trail[n] : trail[n][i] \in Nat /\ trail[n][i] <= started
  BY ProbesFacts DEF ProbesInv, TrailIsSound
<1>5. \A q \in Probers : prober[q].probe \in Nat /\ prober[q].probe <= started
  BY ProbesFacts
<1>6. ASSUME NEW q \in Probers PROVE OnItsWay(q)'
  <2>1. CASE q = p
    <3>1. prober'[q].probe = started + 1 /\ prober'[q].on = m
      BY <1>2, <2>1
    <3>2. \A r \in Probers : prober'[r].probe = started + 1 => r = p
      BY <1>1, <1>2, <1>5
    <3>3. \A n \in ChatModels : \A i \in DOMAIN trail'[n] : trail'[n][i] # started + 1
      BY <1>1, <1>4
    <3>4. QED
      BY <1>1, <2>1, <3>1, <3>2, <3>3 DEF OnItsWay
  <2>2. CASE q # p
    <3>1. prober'[q] = prober[q] /\ OnItsWay(q) /\ prober[q].probe # started + 1
      BY <1>1, <1>2, <1>5, <2>2 DEF ProbesInv
    <3>2. QED
      BY <1>1, <1>2, <1>5, <3>1 DEF OnItsWay
  <2>3. QED
    BY <2>1, <2>2
<1>7. ASSUME NEW n \in ChatModels PROVE TrailIsSound(n)' /\ NewestUnlessOvertaken(n)'
  BY <1>1, <1>4, <1>overtaken DEF ProbesInv, TrailIsSound, NewestUnlessOvertaken, NewestOf
<1>8. ASSUME NEW q \in Probers PROVE Ahead(q)'
  <2>1. CASE q = p
    <3>1. prober'[q].probe = started + 1 /\ prober'[q].on = m
      BY <1>2, <2>1
    <3>2. \A r \in Probers : prober'[r].probe <= started + 1
      BY <1>1, <1>2, <1>5
    <3>3. \A i \in DOMAIN trail'[m] : trail'[m][i] < started + 1
      BY <1>1, <1>4
    <3>4. QED
      BY <3>1, <3>2, <3>3 DEF Ahead
  <2>2. CASE q # p
    <3> SUFFICES ASSUME prober'[q].probe # 0, prober'[q].probe \notin overtaken'
                 PROVE  Ahead(q)'
      BY DEF Ahead
    <3>1. prober'[q] = prober[q] /\ Ahead(q) /\ prober[q].probe \notin overtaken
      BY <1>2, <1>overtaken, <2>2 DEF ProbesInv
    <3>2. prober[q].on # m
      BY <1>overtaken, <3>1
    <3>3. \A r \in Probers : prober'[r].on = prober[q].on => prober'[r] = prober[r]
      BY <1>2, <3>2
    <3>4. QED
      BY <1>1, <3>1, <3>3 DEF Ahead
  <2>3. QED
    BY <2>1, <2>2
<1>9. QED
  BY <1>3, <1>6, <1>7, <1>8 DEF ProbesInv

(* Probe k of model m, on its way at prober p, goes into row and history.  *)
LEMMA ProbeRecorded ==
  ASSUME ProbesInv, NEW p \in Probers, NEW m \in ChatModels, NEW k \in 1..MaxProbes,
         OnItsWay(p), prober[p].probe = k, prober[p].on = m, NEW x \in Resting,
         prober' = [prober EXCEPT ![p] = x], UNCHANGED <<started, overtaken>>,
         row' = [row EXCEPT ![m] = k], trail' = [trail EXCEPT ![m] = Append(@, k)]
  PROVE  ProbesInv'
<1>1. /\ k \in Nat /\ k # 0 /\ k <= started
      /\ \A q \in Probers : prober[q].probe = k => q = p
      /\ \A n \in ChatModels : \A i \in DOMAIN trail[n] : trail[n][i] # k
  BY ProbesAssumption DEF OnItsWay
<1>2. /\ started \in 0..MaxProbes /\ prober \in [Probers -> Prober]
      /\ row \in [ChatModels -> 0..MaxProbes] /\ trail \in [ChatModels -> Seq(1..MaxProbes)]
      /\ x \in Prober /\ x.probe = 0
  BY ProbesTypes, Resters DEF ProbesInv
<1>3. \A q \in Probers : prober'[q] = IF q = p THEN x ELSE prober[q]
  BY <1>2
<1>4. /\ \A n \in ChatModels : n # m => trail'[n] = trail[n] /\ row'[n] = row[n]
      /\ trail'[m] = Append(trail[m], k) /\ row'[m] = k
  BY <1>2
<1> DEFINE l == Len(trail[m])
<1>5. /\ trail[m] \in Seq(1..MaxProbes) /\ l \in Nat /\ DOMAIN trail[m] = 1..l
  BY ProbesFacts
<1>6. /\ trail'[m] \in Seq(1..MaxProbes) /\ Len(trail'[m]) = l + 1
      /\ DOMAIN trail'[m] = 1..(l + 1)
      /\ \A i \in 1..l : trail'[m][i] = trail[m][i]
      /\ trail'[m][l + 1] = k
  <2>1. trail[m] \in Seq(1..MaxProbes) /\ k \in 1..MaxProbes /\ trail'[m] = Append(trail[m], k)
    BY <1>4, <1>5
  <2>2. QED
    BY ONLY <2>1
<1> HIDE DEF l
<1>7. \A i \in DOMAIN trail'[m] : \/ i \in DOMAIN trail[m] /\ trail'[m][i] = trail[m][i]
                                  \/ i = l + 1 /\ trail'[m][i] = k
  <2>1. TAKE i \in DOMAIN trail'[m]
  <2>2. i \in 1..l \/ i = l + 1
    BY <1>5, <1>6
  <2>3. QED
    BY <1>5, <1>6, <2>2
<1>8. ProbesTypeOK'
  <2>1. prober' \in [Probers -> Prober] /\ row' \in [ChatModels -> 0..MaxProbes]
    BY <1>2, ProbesAssumption
  <2>2. trail' \in [ChatModels -> Seq(1..MaxProbes)]
    <3>1. \A n \in ChatModels : trail'[n] \in Seq(1..MaxProbes)
      BY <1>2, <1>4, <1>6
    <3>2. QED
      BY <1>2, <3>1
  <2>3. QED
    BY <1>2, <2>1, <2>2, ProbesTypes DEF ProbesInv, ProbesTypeOK, Prober
<1>9. ASSUME NEW q \in Probers, prober'[q].probe # 0
      PROVE  OnItsWay(q)'
  <2>1. q # p /\ prober'[q] = prober[q] /\ OnItsWay(q) /\ prober[q].probe # k
    BY <1>1, <1>2, <1>3, <1>9 DEF ProbesInv
  <2>2. \A r \in Probers : prober'[r].probe = prober[q].probe => r = q
    BY <1>2, <1>3, <1>9, <2>1 DEF OnItsWay
  <2>3. ASSUME NEW n \in ChatModels, NEW i \in DOMAIN trail'[n]
        PROVE  trail'[n][i] # prober[q].probe
    <3>1. (i \in DOMAIN trail[n] /\ trail'[n][i] = trail[n][i]) \/ trail'[n][i] = k
      BY <1>4, <1>7
    <3>2. QED
      BY <1>9, <2>1, <3>1 DEF OnItsWay
  <2>4. QED
    BY <1>9, <2>1, <2>2, <2>3 DEF OnItsWay
<1>10. ASSUME NEW n \in ChatModels PROVE TrailIsSound(n)'
  <2>1. TrailIsSound(n)
    BY DEF ProbesInv
  <2>2. CASE n # m
    BY <1>4, <2>1, <2>2 DEF TrailIsSound
  <2>3. CASE n = m
    <3>1. \A i \in DOMAIN trail'[m] : trail'[m][i] <= started'
      BY <1>1, <1>7, <2>1, <2>3 DEF TrailIsSound
    <3>2. ASSUME NEW i \in DOMAIN trail'[m], NEW j \in DOMAIN trail'[m],
                 trail'[m][i] = trail'[m][j]
          PROVE  i = j
      BY <1>1, <1>7, <2>1, <2>3, <3>2 DEF TrailIsSound
    <3>3. row'[m] = trail'[m][Len(trail'[m])] /\ Len(trail'[m]) # 0
      BY <1>4, <1>5, <1>6
    <3>4. QED
      BY <2>3, <3>1, <3>2, <3>3 DEF TrailIsSound
  <2>4. QED
    BY <2>2, <2>3
<1>11. \A q \in Probers : OnItsWay(q)'
  BY <1>9 DEF OnItsWay
<1>12. ASSUME NEW q \in Probers PROVE Ahead(q)'
  <2> SUFFICES ASSUME prober'[q].probe # 0, prober'[q].probe \notin overtaken'
               PROVE  Ahead(q)'
    BY DEF Ahead
  <2>1. /\ q # p /\ prober'[q] = prober[q] /\ Ahead(q) /\ OnItsWay(q)
        /\ prober[q].probe # 0 /\ prober[q].probe \notin overtaken
    BY <1>2, <1>3 DEF ProbesInv
  <2>2. prober[q].on \in ChatModels /\ prober[q].probe \in Nat /\ prober[q].probe # k
    BY <1>1, <2>1, ProbesFacts DEF OnItsWay
  <2>3. \A r \in Probers : prober'[r].probe # 0 => prober'[r] = prober[r]
    BY <1>2, <1>3
  <2>4. \A r \in Probers : prober'[r].probe # 0 /\ prober'[r].on = prober[q].on =>
                             prober'[r].probe <= prober[q].probe
    BY <2>1, <2>3 DEF Ahead
  <2>5. \A i \in DOMAIN trail'[prober[q].on] : trail'[prober[q].on][i] < prober[q].probe
    <3>1. CASE prober[q].on # m
      BY <1>4, <2>1, <2>2, <3>1 DEF Ahead
    <3>2. CASE prober[q].on = m
      <4>1. k < prober[q].probe
        <5>1. k <= prober[q].probe
          BY <1>1, <2>1, <3>2 DEF Ahead
        <5>2. QED
          BY <1>1, <2>2, <5>1
      <4>2. \A i \in DOMAIN trail[m] : trail[m][i] < prober[q].probe
        BY <2>1, <3>2 DEF Ahead
      <4>3. QED
        BY <1>7, <3>2, <4>1, <4>2
    <3>3. QED
      BY <3>1, <3>2
  <2>6. QED
    BY <2>1, <2>4, <2>5 DEF Ahead
<1>13. ASSUME NEW n \in ChatModels PROVE NewestUnlessOvertaken(n)'
  <2>1. CASE n # m
    BY <1>4, <2>1 DEF ProbesInv, NewestUnlessOvertaken, NewestOf
  <2>2. CASE n = m
    <3>1. k \in overtaken \/ \A i \in DOMAIN trail[m] : trail[m][i] < k
      BY <1>1 DEF ProbesInv, Ahead
    <3>2. \A i \in DOMAIN trail[m] : trail[m][i] \in Nat
      BY ProbesFacts
    <3>3. k \in overtaken \/ \A i \in DOMAIN trail'[m] : trail'[m][i] <= k
      BY <1>1, <1>7, <3>1, <3>2
    <3>4. QED
      BY <1>4, <2>2, <3>3 DEF NewestUnlessOvertaken, NewestOf
  <2>3. QED
    BY <2>1, <2>2
<1>14. QED
  BY <1>8, <1>10, <1>11, <1>12, <1>13 DEF ProbesInv

LEMMA UpsertStep ==
  ASSUME ProbesInv, NEW p \in Probers, UpsertModelProbe(p)
  PROVE  ProbesInv'
<1>1. prober[p] \in Prober /\ prober \in [Probers -> Prober]
  BY ProbesTypes DEF ProbesInv
<1>2. prober[p].probe # 0 /\ prober[p].probe \in 0..MaxProbes /\ OnItsWay(p)
  BY <1>1, Resters DEF ProbesInv, UpsertModelProbe
<1>3. prober[p].on \in ChatModels /\ prober[p].probe \in 1..MaxProbes
  BY <1>2, ProbesAssumption DEF OnItsWay
<1>4. [prober[p] EXCEPT !.on = "", !.probe = 0] \in Resting
  BY <1>1, EndsPing
<1>5. prober' = [prober EXCEPT ![p] = [prober[p] EXCEPT !.on = "", !.probe = 0]]
  BY <1>1 DEF UpsertModelProbe, Done
<1>6. /\ row' = [row EXCEPT ![prober[p].on] = prober[p].probe]
      /\ UNCHANGED <<started, overtaken>>
      /\ trail' = [trail EXCEPT ![prober[p].on] = Append(@, prober[p].probe)]
  BY DEF UpsertModelProbe
<1>7. QED
  BY <1>2, <1>3, <1>4, <1>5, <1>6, ProbeRecorded

LEMMA ProbesStep == ProbesInv /\ [ProbesNext]_probesVars => ProbesInv'
<1> SUFFICES ASSUME ProbesInv, [ProbesNext]_probesVars
             PROVE  ProbesInv'
  OBVIOUS
<1>1. ASSUME NEW p \in Probers, NEW list \in SUBSET ChatModels, ProbingStarts(p, list)
      PROVE  ProbesInv'
  <2> DEFINE x == [NotProbing EXCEPT !.todo = list]
  <2>1. prober' = [prober EXCEPT ![p] = x] /\ UNCHANGED <<started, row, trail, overtaken>>
    <3>1. prober[p] = NotProbing /\ prober \in [Probers -> Prober]
      BY <1>1, ProbesTypes DEF ProbingStarts, ProbesInv
    <3>2. QED
      BY <1>1, <3>1 DEF ProbingStarts
  <2>2. x \in Resting
    BY DEF Resting, NotProbing
  <2> HIDE DEF x
  <2>3. QED
    BY <2>1, <2>2, PingDropped
<1>2. ASSUME NEW p \in Probers, NEW m \in ChatModels, Ping(p, m) PROVE ProbesInv'
  BY <1>2, PingStep
<1>3. ASSUME NEW p \in Probers, UpsertModelProbe(p) PROVE ProbesInv'
  BY <1>3, UpsertStep
<1>4. ASSUME NEW p \in Probers, ProbeIsLost(p) PROVE ProbesInv'
  <2> DEFINE x == [prober[p] EXCEPT !.on = "", !.probe = 0]
  <2>1. prober' = [prober EXCEPT ![p] = x] /\ UNCHANGED <<started, row, trail, overtaken>>
    BY <1>4, ProbesTypes DEF ProbeIsLost, Done, ProbesInv
  <2>2. x \in Resting
    BY EndsPing, ProbesTypes DEF ProbesInv
  <2> HIDE DEF x
  <2>3. QED
    BY <2>1, <2>2, PingDropped
<1>5. ASSUME NEW p \in Probers, ProbingStops(p) PROVE ProbesInv'
  <2>1. prober' = [prober EXCEPT ![p] = NotProbing] /\ UNCHANGED <<started, row, trail, overtaken>>
    BY <1>5 DEF ProbingStops
  <2>2. NotProbing \in Resting
    BY Resters
  <2>3. QED
    BY <2>1, <2>2, PingDropped
<1>6. CASE UNCHANGED probesVars
  BY <1>6 DEF probesVars, ProbesInv, ProbesTypeOK, OnItsWay, TrailIsSound, Ahead,
              NewestUnlessOvertaken, NewestOf
<1>7. QED
  BY <1>1, <1>2, <1>3, <1>4, <1>5, <1>6 DEF ProbesNext

(* A probe under way belongs to one sweep or test, whatever else runs, the *)
(* row is the last that the history got, and a ping that no other of its   *)
(* model overtook is newer than all that came before it.                   *)
THEOREM ProbesInvariance == ProbesSpec => []ProbesInv
<1>1. QED
  BY ProbesInitially, ProbesStep, PTL DEF ProbesSpec

(* However many sweeps and tests overlap (UpsertModelProbe), a model's row *)
(* is in its history, and is the newest there unless another ping of the   *)
(* model began while its own was under way.                                *)
THEOREM RowsAreNewest == ProbesSpec => []RowIsNewestUnlessOvertaken
<1>1. ProbesInv => RowIsNewestUnlessOvertaken
  <2> SUFFICES ASSUME ProbesInv, NEW m \in ChatModels
               PROVE  /\ IsInjective(trail[m])
                      /\ row[m] \in ToSet(trail[m]) \/ (row[m] = 0 /\ trail[m] = <<>>)
                      /\ row[m] \in overtaken \/ NewestOf(m)
    BY DEF RowIsNewestUnlessOvertaken
  <2>1. TrailIsSound(m) /\ NewestUnlessOvertaken(m) /\ trail[m] \in Seq(1..MaxProbes)
    BY DEF ProbesInv, ProbesTypeOK
  <2>2. trail[m] = <<>> <=> Len(trail[m]) = 0
    BY <2>1
  <2>3. Len(trail[m]) # 0 => Len(trail[m]) \in DOMAIN trail[m]
    BY <2>1
  <2>4. QED
    BY <2>1, <2>2, <2>3 DEF TrailIsSound, NewestUnlessOvertaken, IsInjective, ToSet
<1>2. QED
  BY <1>1, ProbesInvariance, PTL

-------------------------------------------------------------------------------
(***************************************************************************)
(* Backups.  A file that a rotation is about to remove has seen Keep newer *)
(* ones, and goes on having them: stamps only grow.                        *)
(***************************************************************************)
NewerStamps(f) == {g \in Files(stamp) : Newer(stamp, g, f)}

Outlived(f) == Cardinality(NewerStamps(f)) >= Keep

Maker == [at : {"idle", "vacuum", "list", "remove"}, name : Seconds, todo : Seq(Seconds)]

MayRemove(todo) ==
  /\ todo # <<>>
  /\ \A i \in DOMAIN todo : stamp[todo[i]] # NoFile /\ (todo[i] \in again \/ Outlived(todo[i]))

BackupsInv ==
  /\ BackupsTypeOK
  /\ \A f \in Seconds : dir[f] # NoFile => dir[f] = stamp[f]
  /\ \A f \in Seconds : stamp[f] <= second
  /\ NewestAreKept
  /\ \A m \in Makers : maker[m].at = "remove" => MayRemove(maker[m].todo)

LEMMA BackupsNumbers ==
  /\ Keep \in Nat /\ LastSecond \in Nat /\ NoFile \in Int /\ NoFile < 0 /\ NoFile \notin Seconds
  /\ \A n \in Seconds : n \in Nat
  /\ \A n \in Seconds \cup {NoFile} : n \in Int
BY BackupsAssumption DEF NoFile, Seconds

LEMMA BackupsTypes ==
  BackupsTypeOK <=> /\ second \in Seconds
                    /\ dir \in [Seconds -> Seconds \cup {NoFile}]
                    /\ stamp \in [Seconds -> Seconds \cup {NoFile}]
                    /\ maker \in [Makers -> Maker]
                    /\ erased \subseteq Seconds /\ again \subseteq Seconds
BY DEF BackupsTypeOK, Maker

LEMMA FilesAreFinite ==
  ASSUME NEW d, NEW T \in SUBSET Files(d)
  PROVE  IsFiniteSet(T)
<1>1. IsFiniteSet(0..LastSecond)
  BY BackupsAssumption, FS_Interval
<1>2. T \in SUBSET (0..LastSecond)
  BY DEF Files, Seconds
<1>3. QED
  BY <1>1, <1>2, FS_Subset

(* A file that has Keep newer ones keeps them if stamps only grow, unless  *)
(* its own does.                                                           *)
LEMMA StaysOutlived ==
  ASSUME BackupsTypeOK, BackupsTypeOK', NEW f \in Seconds, Outlived(f), stamp'[f] = stamp[f],
         \A g \in Seconds : stamp[g] # NoFile => stamp'[g] # NoFile /\ stamp'[g] >= stamp[g]
  PROVE  Outlived(f)'
<1>1. /\ stamp \in [Seconds -> Seconds \cup {NoFile}] /\ stamp' \in [Seconds -> Seconds \cup {NoFile}]
      /\ \A g \in Seconds : stamp[g] \in Int /\ stamp'[g] \in Int /\ g \in Int
  <2>1. stamp \in [Seconds -> Seconds \cup {NoFile}] /\ stamp' \in [Seconds -> Seconds \cup {NoFile}]
    BY DEF BackupsTypeOK
  <2>2. QED
    BY <2>1, BackupsNumbers
<1>2. NewerStamps(f)' = {g \in Seconds : stamp'[g] # NoFile /\ Newer(stamp', g, f)}
  BY DEF NewerStamps, Files, Newer
<1>3. NewerStamps(f) = {g \in Seconds : stamp[g] # NoFile /\ Newer(stamp, g, f)}
  BY DEF NewerStamps, Files
<1>4. ASSUME NEW g \in Seconds, stamp[g] # NoFile, Newer(stamp, g, f)
      PROVE  stamp'[g] # NoFile /\ Newer(stamp', g, f)
  BY <1>1, <1>4 DEF Newer
<1>5. NewerStamps(f) \in SUBSET (NewerStamps(f)')
  BY <1>2, <1>3, <1>4
<1>6. IsFiniteSet(NewerStamps(f)')
  <2>1. NewerStamps(f)' \in SUBSET Files(stamp')
    BY <1>2 DEF Files
  <2>2. QED
    BY <2>1, FilesAreFinite
<1>7. /\ Cardinality(NewerStamps(f)) <= Cardinality(NewerStamps(f)')
      /\ IsFiniteSet(NewerStamps(f))
  BY <1>5, <1>6, FS_Subset
<1>8. QED
  <2>1. /\ Cardinality(NewerStamps(f)) \in Nat /\ Cardinality(NewerStamps(f)') \in Nat
        /\ Cardinality(NewerStamps(f)) >= Keep
    BY <1>6, <1>7, FS_CardinalityType DEF Outlived
  <2>2. Cardinality(NewerStamps(f)') >= Keep
    BY <1>7, <2>1, BackupsNumbers
  <2>3. QED
    BY <2>2 DEF Outlived

(* What the rotation finds beyond the retention may be removed.            *)
LEMMA ListedBackups ==
  ASSUME BackupsInv
  PROVE  /\ ListBackups \in Seq(Files(dir))
         /\ \A i \in 1..Len(ListBackups) : i > Keep => Outlived(ListBackups[i])
<1> DEFINE S == Files(dir)
           before == [f \in S |-> {g \in S : Newer(dir, g, f)}]
           L == Listed(S, before)
<1>1. /\ dir \in [Seconds -> Seconds \cup {NoFile}] /\ stamp \in [Seconds -> Seconds \cup {NoFile}]
      /\ S \subseteq Seconds /\ \A f \in S : f \in Int /\ dir[f] \in Int
      /\ \A f \in S : dir[f] = stamp[f] /\ f \in Files(stamp)
  BY BackupsTypes, BackupsNumbers DEF BackupsInv, Files
<1>2. IsFiniteSet(S)
  BY FilesAreFinite
<1>3. \A f \in S : before[f] = {g \in S : Newer(dir, g, f)}
  OBVIOUS
<1>4. ListBackups = L
  BY DEF ListBackups
<1> HIDE DEF S, before
<1>5. IsOrder(S, before)
  <2>1. /\ \A f, g, h \in S : Newer(dir, f, g) /\ Newer(dir, g, h) => Newer(dir, f, h)
        /\ \A f \in S : ~Newer(dir, f, f)
        /\ \A f, g \in S : f # g => Newer(dir, f, g) \/ Newer(dir, g, f)
    BY <1>1 DEF Newer
  <2>2. QED
    BY <1>3, <2>1 DEF IsOrder
<1>6. IsListing(L, S, before)
  BY <1>2, <1>5, ListedIsListing
<1> HIDE DEF L
<1>7. ASSUME NEW i \in 1..Len(L), i > Keep
      PROVE  Outlived(L[i])
  <2>1. L[i] \in S /\ i \in Nat /\ Cardinality(before[L[i]]) = i - 1
    BY <1>6 DEF IsListing
  <2>2. before[L[i]] \in SUBSET NewerStamps(L[i])
    <3>1. \A g \in S : Newer(dir, g, L[i]) => g \in Files(stamp) /\ Newer(stamp, g, L[i])
      BY <1>1, <2>1 DEF Newer
    <3>2. QED
      BY <1>3, <2>1, <3>1 DEF NewerStamps
  <2>3. IsFiniteSet(NewerStamps(L[i]))
    <3>1. NewerStamps(L[i]) \in SUBSET Files(stamp)
      BY DEF NewerStamps
    <3>2. QED
      BY <3>1, FilesAreFinite
  <2>4. i - 1 <= Cardinality(NewerStamps(L[i])) /\ Cardinality(NewerStamps(L[i])) \in Nat
    BY <2>1, <2>2, <2>3, FS_Subset, FS_CardinalityType
  <2>5. QED
    BY <1>7, <2>1, <2>4, BackupsNumbers DEF Outlived
<1>8. L \in Seq(S)
  BY <1>6 DEF IsListing
<1>9. QED
  BY <1>4, <1>7, <1>8 DEF S

(* Steps that make no file: a file goes at most if it may, or if an        *)
(* administrator wants it.                                                 *)
LEMMA NoNewFile ==
  ASSUME BackupsInv, stamp' = stamp, again' = again, second' = second,
         NEW gone \in SUBSET Seconds,
         \A f \in Seconds : dir'[f] = dir[f] \/ (dir'[f] = NoFile /\ f \in gone),
         \A f \in gone : f \in again \cup erased' \/ Outlived(f),
         erased \subseteq erased', BackupsTypeOK',
         \A m \in Makers : maker'[m].at = "remove" => MayRemove(maker'[m].todo)
  PROVE  BackupsInv'
<1>1. \A f \in Seconds : dir'[f] # NoFile => dir'[f] = stamp'[f]
  BY BackupsNumbers DEF BackupsInv
<1>2. \A f \in Seconds : stamp'[f] <= second'
  BY DEF BackupsInv
<1>3. NewestAreKept'
  <2>1. \A f \in Files(stamp) \ (Files(dir') \cup erased' \cup again) : Outlived(f)
    <3>1. TAKE f \in Files(stamp) \ (Files(dir') \cup erased' \cup again)
    <3>2. CASE dir[f] = NoFile
      BY <3>2 DEF BackupsInv, NewestAreKept, Outlived, NewerStamps, Files
    <3>3. CASE dir[f] # NoFile
      BY <3>3 DEF Files
    <3>4. QED
      BY <3>2, <3>3
  <2>2. QED
    BY <2>1 DEF NewestAreKept, Outlived, NewerStamps, Files, Newer
<1>4. ASSUME NEW m \in Makers, maker'[m].at = "remove"
      PROVE  MayRemove(maker[m].todo)'
  BY <1>4 DEF MayRemove, Outlived, NewerStamps, Files, Newer
<1>5. QED
  BY <1>1, <1>2, <1>3, <1>4 DEF BackupsInv

(* A new file, whole or cut off: it is newer than all others, so what they *)
(* may lose they may still lose.                                           *)
LEMMA FileMadeStep ==
  ASSUME BackupsInv, NEW m \in Makers, FileMade(m), UNCHANGED <<second, erased>>,
         maker' \in [Makers -> Maker],
         \A k \in Makers : maker'[k].at = "remove" => maker'[k] = maker[k]
  PROVE  BackupsInv'
<1> DEFINE n == maker[m].name
<1>1. /\ second \in Seconds /\ second' = second /\ erased' = erased
      /\ dir \in [Seconds -> Seconds \cup {NoFile}] /\ stamp \in [Seconds -> Seconds \cup {NoFile}]
      /\ maker \in [Makers -> Maker] /\ maker[m] \in Maker /\ erased \subseteq Seconds
      /\ again \subseteq Seconds
  BY BackupsTypes DEF BackupsInv
<1>2. n \in Seconds /\ second # NoFile /\ second \in Nat
  BY <1>1, BackupsNumbers DEF Maker
<1>3. /\ dir' = [dir EXCEPT ![n] = second] /\ stamp' = [stamp EXCEPT ![n] = second]
      /\ again' = (IF stamp[n] = NoFile THEN again ELSE again \cup {n})
  BY DEF FileMade
<1> HIDE DEF n
<1>6. BackupsTypeOK'
  <2>1. maker' \in [Makers -> Maker] /\ again' \subseteq Seconds
    BY <1>1, <1>2, <1>3
  <2>2. /\ dir' \in [Seconds -> Seconds \cup {NoFile}]
        /\ stamp' \in [Seconds -> Seconds \cup {NoFile}]
    BY <1>1, <1>2, <1>3
  <2>3. QED
    BY <1>1, <2>1, <2>2 DEF BackupsTypeOK, Maker
<1>7. \A f \in Seconds : /\ f # n => dir'[f] = dir[f] /\ stamp'[f] = stamp[f]
                         /\ f = n => dir'[f] = second /\ stamp'[f] = second
  BY <1>1, <1>3
<1>8. \A f \in Seconds : stamp[f] # NoFile => stamp'[f] # NoFile /\ stamp'[f] >= stamp[f]
  <2>1. \A f \in Seconds : stamp[f] <= second /\ stamp[f] \in Int
    BY <1>1, BackupsNumbers DEF BackupsInv
  <2>2. QED
    BY <1>2, <1>7, <2>1
<1>9. \A f \in Seconds : f # n /\ Outlived(f) => Outlived(f)'
  BY <1>6, <1>7, <1>8, StaysOutlived DEF BackupsInv
<1>10. again \subseteq again' /\ (stamp[n] # NoFile => n \in again')
  BY <1>3
<1>11. \A f \in Seconds : dir'[f] # NoFile => dir'[f] = stamp'[f]
  BY <1>7 DEF BackupsInv
<1>12. \A f \in Seconds : stamp'[f] <= second'
  BY <1>1, <1>2, <1>7 DEF BackupsInv
<1>13. NewestAreKept'
  <2>1. ASSUME NEW f \in Seconds, stamp'[f] # NoFile, dir'[f] = NoFile, f \notin erased',
               f \notin again'
        PROVE  Outlived(f)'
    <3>1. f # n /\ stamp[f] # NoFile /\ dir[f] = NoFile /\ f \notin erased /\ f \notin again
      BY <1>1, <1>2, <1>7, <1>10, <2>1
    <3>2. Outlived(f)
      BY <3>1 DEF BackupsInv, NewestAreKept, Outlived, NewerStamps, Files
    <3>3. QED
      BY <1>9, <3>1, <3>2
  <2>2. QED
    BY <2>1 DEF NewestAreKept, Outlived, NewerStamps, Files, Newer
<1>14. ASSUME NEW k \in Makers, maker'[k].at = "remove"
       PROVE  MayRemove(maker[k].todo)'
  <2>1. maker'[k] = maker[k] /\ maker[k].todo \in Seq(Seconds)
    BY <1>1, <1>14 DEF Maker
  <2>2. MayRemove(maker[k].todo)
    BY <1>14, <2>1 DEF BackupsInv
  <2>3. ASSUME NEW i \in DOMAIN maker[k].todo, NEW f, f = maker[k].todo[i]
        PROVE  stamp'[f] # NoFile /\ (f \in again' \/ Outlived(f)')
    <3>1. f \in Seconds
      BY <2>1, <2>3
    <3>2. stamp[f] # NoFile /\ (f \in again \/ Outlived(f))
      BY <2>2, <2>3 DEF MayRemove
    <3>3. f # n \/ f \in again'
      BY <1>10, <3>2
    <3>4. QED
      BY <1>8, <1>9, <1>10, <3>1, <3>2, <3>3
  <2>4. QED
    BY <2>1, <2>2, <2>3 DEF MayRemove, Outlived, NewerStamps, Files, Newer
<1>15. QED
  BY <1>6, <1>11, <1>12, <1>13, <1>14 DEF BackupsInv

LEMMA DirectoryStands ==
  ASSUME BackupsInv, UNCHANGED <<second, dir, stamp, erased, again>>, BackupsTypeOK',
         \A m \in Makers : maker'[m].at = "remove" => MayRemove(maker'[m].todo)
  PROVE  BackupsInv'
<1>1. {} \in SUBSET Seconds /\ \A f \in {} : f \in again \cup erased' \/ Outlived(f)
  OBVIOUS
<1>2. \A f \in Seconds : dir'[f] = dir[f] \/ (dir'[f] = NoFile /\ f \in {})
  OBVIOUS
<1>3. erased \subseteq erased'
  OBVIOUS
<1>4. QED
  BY <1>1, <1>2, <1>3, NoNewFile

(* Steps of one maker that leave the directory alone.                      *)
LEMMA MakerMoves ==
  ASSUME BackupsInv, NEW m \in Makers, NEW x \in Maker,
         maker' = [maker EXCEPT ![m] = x], UNCHANGED <<second, dir, stamp, erased, again>>,
         x.at = "remove" => MayRemove(x.todo)
  PROVE  BackupsInv'
<1>1. /\ maker \in [Makers -> Maker] /\ second \in Seconds
      /\ dir \in [Seconds -> Seconds \cup {NoFile}] /\ stamp \in [Seconds -> Seconds \cup {NoFile}]
      /\ erased \subseteq Seconds /\ again \subseteq Seconds
  BY BackupsTypes DEF BackupsInv
<1>2. maker' \in [Makers -> Maker] /\ \A k \in Makers : maker'[k] = IF k = m THEN x ELSE maker[k]
  BY <1>1
<1>3. BackupsTypeOK'
  BY <1>1, <1>2 DEF BackupsTypeOK, Maker
<1>4. ASSUME NEW k \in Makers, maker'[k].at = "remove" PROVE MayRemove(maker'[k].todo)
  BY <1>2, <1>4 DEF BackupsInv
<1>5. QED
  BY <1>3, <1>4, DirectoryStands

LEMMA PruneBackupsStep ==
  ASSUME BackupsInv, NEW m \in Makers, PruneBackups(m)
  PROVE  BackupsInv'
<1> DEFINE L    == ListBackups
           todo == IF Len(L) <= Keep THEN <<>> ELSE Beyond(L)
           x    == IF todo = <<>> THEN NotMaking
                   ELSE [maker[m] EXCEPT !.at = "remove", !.todo = todo]
<1>1. /\ maker[m] \in Maker /\ UNCHANGED <<second, dir, stamp, erased, again>>
      /\ maker' = [maker EXCEPT ![m] = x]
  BY BackupsTypes DEF BackupsInv, PruneBackups
<1>2. L \in Seq(Files(dir)) /\ \A i \in 1..Len(L) : i > Keep => Outlived(L[i])
  BY ListedBackups
<1> HIDE DEF L
<1>3. \A f \in Files(dir) : f \in Seconds /\ stamp[f] # NoFile
  BY BackupsNumbers DEF BackupsInv, Files
<1>4. todo \in Seq(Seconds) /\ \A i \in DOMAIN todo : stamp[todo[i]] # NoFile /\ Outlived(todo[i])
  <2>1. CASE Len(L) <= Keep
    BY <2>1
  <2>2. CASE Len(L) > Keep
    <3>0. Len(L) \in Nat /\ Keep \in Nat
      BY <1>2, BackupsNumbers
    <3>1. todo = SubSeq(L, Keep + 1, Len(L))
      BY <2>2, <3>0 DEF Beyond
    <3> HIDE DEF todo
    <3>2. \A i \in (Keep + 1)..Len(L) : L[i] \in Files(dir)
      BY <1>2, <3>0
    <3>3. /\ todo \in Seq(Files(dir)) /\ Len(todo) = Len(L) - Keep
          /\ \A i \in 1..(Len(L) - Keep) : todo[i] = L[Keep + i]
      <4>1. Keep + 1 \in Int /\ Len(L) \in Int /\ Keep + 1 <= Len(L)
        BY <2>2, <3>0
      <4>2. /\ todo \in Seq(Files(dir)) /\ Len(todo) = Len(L) - (Keep + 1) + 1
            /\ \A i \in 1..(Len(L) - (Keep + 1) + 1) : todo[i] = L[(Keep + 1) + i - 1]
        BY <3>1, <3>2, <4>1, SubSeqProperties
      <4>3. QED
        BY <3>0, <4>2
    <3>4. DOMAIN todo = 1..(Len(L) - Keep)
      BY <3>3
    <3>5. ASSUME NEW i, i \in DOMAIN todo
          PROVE  todo[i] \in Files(dir) /\ Outlived(todo[i])
      <4>1. i \in 1..(Len(L) - Keep)
        BY <3>4, <3>5
      <4>2. Keep + i \in 1..Len(L) /\ Keep + i > Keep
        BY <3>0, <4>1
      <4>3. todo[i] = L[Keep + i]
        BY <3>3, <4>1
      <4>4. QED
        BY <1>2, <4>2, <4>3
    <3>6. todo \in Seq(Seconds)
      <4>1. \A i \in 1..Len(todo) : todo[i] \in Seconds
        BY <1>3, <3>3
      <4>2. QED
        BY <3>3, <4>1
    <3>7. QED
      BY <1>3, <3>5, <3>6
  <2>3. QED
    BY <1>2, <2>1, <2>2, BackupsNumbers
<1> HIDE DEF todo
<1>5. CASE todo = <<>>
  <2>1. x \in Maker /\ x.at # "remove"
    BY <1>5, BackupsNumbers, BackupsAssumption DEF NotMaking, Maker, Seconds
  <2>2. QED
    BY <1>1, <2>1, MakerMoves
<1>6. CASE todo # <<>>
  <2>1. x \in Maker /\ x.todo = todo
    BY <1>1, <1>4, <1>6 DEF Maker
  <2>2. MayRemove(x.todo)
    BY <1>4, <1>6, <2>1 DEF MayRemove
  <2> HIDE DEF x
  <2>3. QED
    BY <1>1, <2>1, <2>2, MakerMoves
<1>7. QED
  BY <1>5, <1>6

LEMMA RemoveStep ==
  ASSUME BackupsInv, NEW m \in Makers, RemoveOld(m)
  PROVE  BackupsInv'
<1> DEFINE todo == maker[m].todo
           f    == Head(todo)
           x    == IF Len(todo) = 1 THEN NotMaking ELSE [maker[m] EXCEPT !.todo = Tail(todo)]
<1>1. /\ maker \in [Makers -> Maker] /\ maker[m] \in Maker /\ maker[m].at = "remove"
      /\ UNCHANGED <<second, stamp, erased, again>>
      /\ maker' = [maker EXCEPT ![m] = x]
      /\ dir' \in {dir, [dir EXCEPT ![f] = NoFile]}
      /\ dir \in [Seconds -> Seconds \cup {NoFile}] /\ stamp \in [Seconds -> Seconds \cup {NoFile}]
      /\ second \in Seconds /\ erased \subseteq Seconds /\ again \subseteq Seconds
  <2>1. maker \in [Makers -> Maker] /\ maker[m].at = "remove"
    BY BackupsTypes DEF BackupsInv, RemoveOld
  <2>2. maker' = [maker EXCEPT ![m] = x]
    BY <2>1 DEF RemoveOld
  <2>3. dir' \in {dir, [dir EXCEPT ![f] = NoFile]}
    BY DEF RemoveOld
  <2>4. QED
    BY <2>1, <2>2, <2>3, BackupsTypes DEF BackupsInv, RemoveOld
<1>2. todo \in Seq(Seconds) /\ todo # <<>> /\ MayRemove(todo)
  BY <1>1 DEF BackupsInv, MayRemove, Maker
<1>3. f = todo[1] /\ 1 \in DOMAIN todo /\ f \in Seconds /\ (f \in again \/ Outlived(f))
  BY <1>2 DEF MayRemove
<1>4. x \in Maker /\ (x.at = "remove" => MayRemove(x.todo))
  <2>1. CASE Len(todo) = 1
    BY <2>1, BackupsNumbers, BackupsAssumption DEF NotMaking, Maker, Seconds
  <2>2. CASE Len(todo) # 1
    <3>1. /\ Tail(todo) \in Seq(Seconds) /\ Tail(todo) # <<>>
          /\ \A i \in DOMAIN Tail(todo) : i + 1 \in DOMAIN todo /\ Tail(todo)[i] = todo[i + 1]
      <4>1. /\ Tail(todo) \in Seq(Seconds) /\ Len(Tail(todo)) = Len(todo) - 1
            /\ \A i \in 1..Len(Tail(todo)) : Tail(todo)[i] = todo[i + 1]
        BY <1>2, HeadTailProperties
      <4>2. Len(todo) \in Nat /\ DOMAIN todo = 1..Len(todo) /\ Len(todo) > 0
        BY <1>2
      <4> HIDE DEF todo
      <4>3. DOMAIN Tail(todo) = 1..(Len(todo) - 1) /\ Tail(todo) # <<>>
        <5> DEFINE t == Tail(todo)
        <5>1. t \in Seq(Seconds) /\ Len(t) = Len(todo) - 1 /\ Len(t) > 0
          BY <2>2, <4>1, <4>2
        <5> HIDE DEF t
        <5>2. DOMAIN t = 1..Len(t) /\ t # <<>>
          BY <5>1
        <5>3. QED
          BY <5>1, <5>2 DEF t
      <4>4. QED
        BY <4>1, <4>2, <4>3
    <3>2. MayRemove(Tail(todo))
      BY <1>2, <3>1 DEF MayRemove
    <3>3. x \in Maker /\ x.todo = Tail(todo)
      BY <1>1, <2>2, <3>1 DEF Maker
    <3>4. QED
      BY <3>2, <3>3
  <2>3. QED
    BY <2>1, <2>2
<1> HIDE DEF x, f
<1>5. maker' \in [Makers -> Maker] /\ \A k \in Makers : maker'[k] = IF k = m THEN x ELSE maker[k]
  BY <1>1, <1>4
<1>6. \A g \in Seconds : dir'[g] = dir[g] \/ (dir'[g] = NoFile /\ g \in {f})
  BY <1>1, <1>3
<1>7. BackupsTypeOK'
  <2>1. dir' \in [Seconds -> Seconds \cup {NoFile}]
    BY <1>1, <1>3
  <2>2. QED
    BY <1>1, <1>5, <2>1 DEF BackupsTypeOK, Maker
<1>8. ASSUME NEW k \in Makers, maker'[k].at = "remove" PROVE MayRemove(maker'[k].todo)
  BY <1>4, <1>5, <1>8 DEF BackupsInv
<1>9. {f} \in SUBSET Seconds /\ \A g \in {f} : g \in again \cup erased' \/ Outlived(g)
  BY <1>3
<1>10. QED
  BY <1>1, <1>6, <1>7, <1>8, <1>9, NoNewFile

LEMMA DeleteStep ==
  ASSUME BackupsInv, NEW f \in Seconds, DeleteBackup(f)
  PROVE  BackupsInv'
<1>1. /\ dir' = [dir EXCEPT ![f] = NoFile] /\ erased' = erased \cup {f}
      /\ UNCHANGED <<second, stamp, maker, again>>
      /\ dir \in [Seconds -> Seconds \cup {NoFile}] /\ stamp \in [Seconds -> Seconds \cup {NoFile}]
      /\ second \in Seconds /\ erased \subseteq Seconds /\ again \subseteq Seconds
      /\ maker \in [Makers -> Maker]
  BY BackupsTypes DEF BackupsInv, DeleteBackup
<1>2. \A g \in Seconds : dir'[g] = dir[g] \/ (dir'[g] = NoFile /\ g \in {f})
  BY <1>1
<1>3. BackupsTypeOK'
  <2>1. dir' \in [Seconds -> Seconds \cup {NoFile}] /\ erased' \subseteq Seconds
    BY <1>1
  <2>2. QED
    BY <1>1, <2>1 DEF BackupsTypeOK, Maker
<1>4. \A k \in Makers : maker'[k].at = "remove" => MayRemove(maker'[k].todo)
  BY <1>1 DEF BackupsInv
<1>5. {f} \in SUBSET Seconds /\ \A g \in {f} : g \in again \cup erased' \/ Outlived(g)
  BY <1>1
<1>6. erased \subseteq erased'
  BY <1>1
<1>7. QED
  BY <1>1, <1>2, <1>3, <1>4, <1>5, <1>6, NoNewFile

LEMMA BackupsStep == BackupsInv /\ [BackupsNext]_backupsVars => BackupsInv'
<1> SUFFICES ASSUME BackupsInv, [BackupsNext]_backupsVars
             PROVE  BackupsInv'
  OBVIOUS
<1>0. /\ maker \in [Makers -> Maker] /\ second \in Seconds
      /\ dir \in [Seconds -> Seconds \cup {NoFile}] /\ stamp \in [Seconds -> Seconds \cup {NoFile}]
      /\ erased \subseteq Seconds /\ again \subseteq Seconds
  BY BackupsTypes DEF BackupsInv
<1>1. NotMaking \in Maker /\ NotMaking.at = "idle"
  BY BackupsAssumption DEF NotMaking, Maker, Seconds
<1>2. ASSUME NEW m \in Makers, BackupOnce(m) PROVE BackupsInv'
  <2> DEFINE x == [NotMaking EXCEPT !.at = "vacuum", !.name = second]
  <2>1. x \in Maker /\ x.at = "vacuum"
    <3>1. [NotMaking EXCEPT !.at = "vacuum"] \in Maker
      BY <1>1 DEF Maker
    <3>2. x = [[NotMaking EXCEPT !.at = "vacuum"] EXCEPT !.name = second]
      BY DEF NotMaking
    <3>3. [NotMaking EXCEPT !.at = "vacuum"].at = "vacuum"
      BY DEF NotMaking
    <3>4. QED
      BY <1>0, <3>1, <3>2, <3>3 DEF Maker
  <2>2. maker' = [maker EXCEPT ![m] = x] /\ UNCHANGED <<second, dir, stamp, erased, again>>
    BY <1>2 DEF BackupOnce
  <2> HIDE DEF x
  <2>3. QED
    BY <2>1, <2>2, MakerMoves
<1>3. ASSUME NEW m \in Makers, VacuumInto(m) PROVE BackupsInv'
  <2> DEFINE x == IF Keep > 0 THEN [maker[m] EXCEPT !.at = "list"] ELSE NotMaking
  <2>1. FileMade(m) /\ maker' = [maker EXCEPT ![m] = x] /\ UNCHANGED <<second, erased>>
    BY <1>3 DEF VacuumInto
  <2>2. x \in Maker /\ x.at # "remove"
    <3>1. /\ [maker[m] EXCEPT !.at = "list"] \in Maker
          /\ [maker[m] EXCEPT !.at = "list"].at = "list"
      BY <1>0 DEF Maker
    <3>2. QED
      BY <1>1, <3>1
  <2> HIDE DEF x
  <2>3. /\ maker' \in [Makers -> Maker]
        /\ \A k \in Makers : maker'[k].at = "remove" => maker'[k] = maker[k]
    BY <1>0, <2>1, <2>2
  <2>4. QED
    BY <2>1, <2>3, FileMadeStep
<1>4. ASSUME NEW m \in Makers, VacuumFails(m) PROVE BackupsInv'
  <2>1. /\ maker' = [maker EXCEPT ![m] = NotMaking] /\ UNCHANGED <<second, erased>>
        /\ FileMade(m) \/ UNCHANGED <<dir, stamp, again>>
    BY <1>4 DEF VacuumFails
  <2>2. /\ maker' \in [Makers -> Maker]
        /\ \A k \in Makers : maker'[k].at = "remove" => maker'[k] = maker[k]
    BY <1>0, <1>1, <2>1
  <2>3. CASE FileMade(m)
    BY <2>1, <2>2, <2>3, FileMadeStep
  <2>4. CASE UNCHANGED <<dir, stamp, again>>
    BY <1>1, <2>1, <2>4, MakerMoves
  <2>5. QED
    BY <2>1, <2>3, <2>4
<1>5. ASSUME NEW m \in Makers, PruneBackups(m) PROVE BackupsInv'
  BY <1>5, PruneBackupsStep
<1>6. ASSUME NEW m \in Makers, RemoveOld(m) PROVE BackupsInv'
  BY <1>6, RemoveStep
<1>7. ASSUME NEW f \in Seconds, DeleteBackup(f) PROVE BackupsInv'
  BY <1>7, DeleteStep
<1>8. CASE BackupsNextSecond
  <2>1. /\ second' = second + 1 /\ second < LastSecond
        /\ UNCHANGED <<dir, stamp, maker, erased, again>>
    BY <1>8 DEF BackupsNextSecond
  <2>2. second' \in Seconds /\ \A f \in Seconds : stamp[f] \in Int
    BY <1>0, <2>1, BackupsNumbers, BackupsAssumption DEF Seconds
  <2>3. \A f \in Seconds : stamp[f] <= second'
    BY <1>0, <2>1, <2>2, BackupsNumbers DEF BackupsInv
  <2>4. BackupsTypeOK'
    BY <1>0, <2>1, <2>2 DEF BackupsTypeOK, Maker
  <2>5. QED
    BY <2>1, <2>3, <2>4
    DEF BackupsInv, NewestAreKept, MayRemove, Outlived, NewerStamps, Files, Newer
<1>9. CASE BackupsStop
  <2>1. /\ maker' = [m \in Makers |-> NotMaking] /\ UNCHANGED <<second, erased>>
        /\ (\E m \in Makers : FileMade(m)) \/ UNCHANGED <<dir, stamp, again>>
    BY <1>9 DEF BackupsStop
  <2>2. maker' \in [Makers -> Maker] /\ \A m \in Makers : maker'[m].at # "remove"
    BY <1>1, <2>1
  <2>3. CASE \E m \in Makers : FileMade(m)
    BY <2>1, <2>2, <2>3, FileMadeStep
  <2>4. CASE UNCHANGED <<dir, stamp, again>>
    <3>1. BackupsTypeOK'
      BY <1>0, <2>1, <2>2, <2>4 DEF BackupsTypeOK, Maker
    <3>2. QED
      BY <2>1, <2>2, <2>4, <3>1, DirectoryStands
  <2>5. QED
    BY <2>1, <2>3, <2>4
<1>10. CASE UNCHANGED backupsVars
  <2>1. UNCHANGED <<second, dir, stamp, maker, erased, again>>
    BY <1>10 DEF backupsVars
  <2>2. BackupsTypeOK'
    BY <1>0, <2>1 DEF BackupsTypeOK, Maker
  <2>3. \A m \in Makers : maker'[m].at = "remove" => MayRemove(maker'[m].todo)
    BY <2>1 DEF BackupsInv
  <2>4. QED
    BY <2>1, <2>2, <2>3, DirectoryStands
<1>11. QED
  BY <1>2, <1>3, <1>4, <1>5, <1>6, <1>7, <1>8, <1>9, <1>10 DEF BackupsNext

LEMMA BackupsInitially == BackupsInit => BackupsInv
<1> SUFFICES ASSUME BackupsInit
             PROVE  BackupsInv
  OBVIOUS
<1>1. NotMaking \in Maker /\ NotMaking.at = "idle" /\ 0 \in Seconds
  BY BackupsAssumption DEF NotMaking, Maker, Seconds
<1>2. BackupsTypeOK
  <2>1. maker \in [Makers -> Maker] /\ second \in Seconds
    BY <1>1 DEF BackupsInit
  <2>2. /\ dir \in [Seconds -> Seconds \cup {NoFile}] /\ stamp \in [Seconds -> Seconds \cup {NoFile}]
        /\ erased \subseteq Seconds /\ again \subseteq Seconds
    BY DEF BackupsInit
  <2>3. QED
    BY <2>1, <2>2, BackupsTypes
<1>3. \A f \in Seconds : dir[f] = NoFile /\ stamp[f] = NoFile /\ stamp[f] <= second
  BY BackupsNumbers DEF BackupsInit
<1>4. NewestAreKept
  BY <1>3 DEF NewestAreKept, Files
<1>5. \A m \in Makers : maker[m].at # "remove"
  BY <1>1 DEF BackupsInit
<1>6. QED
  BY <1>2, <1>3, <1>4, <1>5 DEF BackupsInv

(* What rotations have in hand for removal has seen enough newer backups   *)
(* (PruneBackups), or its name was used twice.                             *)
THEOREM BackupsInvariance == BackupsSpec => []BackupsInv
<1>1. QED
  BY BackupsInitially, BackupsStep, PTL DEF BackupsSpec

(* For any number of overlapping backups, rotations and deletions, and any *)
(* retention: a snapshot that is gone was deleted by an administrator, had *)
(* its name used twice, or has been followed by as many as are kept.       *)
THEOREM RotationKeepsNewest == BackupsSpec => []NewestAreKept
<1>1. BackupsInv => NewestAreKept
  BY DEF BackupsInv
<1>2. QED
  BY <1>1, BackupsInvariance, PTL

-------------------------------------------------------------------------------
(***************************************************************************)
(* Keyring.  Ids are never given again, and one that was not given yet has *)
(* no bucket: so a key cannot inherit one.                                 *)
(***************************************************************************)
Key == [value : Values, override : Overrides, enabled : BOOLEAN]

Rates == {0} \cup {KeyRPM(o) : o \in Overrides}

HasItsRate(k) ==
  \/ buckets[k] = KeyRPM(keys[k].override)
  \/ k \notin registered /\ buckets[k] \in {0, DefaultRPM}

KeyringInv ==
  /\ KeyringTypeOK
  /\ \A k \in KeyIds : k > lastId => keys[k] = NoKey /\ buckets[k] = 0
  /\ \A j, k \in Live : keys[j].value = keys[k].value => j = k
  /\ \A k \in Live : HasItsRate(k)

LEMMA KeyringTypes ==
  KeyringTypeOK <=> /\ keys \in [KeyIds -> {NoKey} \cup Key]
                    /\ lastId \in 0..LastKeyId
                    /\ buckets \in [KeyIds -> Rates]
                    /\ registered \subseteq Live
BY DEF KeyringTypeOK, Key, Rates

LEMMA KeyringFacts ==
  /\ LastKeyId \in Nat /\ DefaultRPM \in Rates /\ 0 \in Rates /\ KeyRPM(0) = DefaultRPM
  /\ 0 \in Overrides /\ TestKey \in Values
  /\ NoKey.value = "" /\ "" \notin Values
  /\ \A o \in Overrides : KeyRPM(o) \in Rates
  /\ \A x \in Key : x # NoKey /\ x.value \in Values /\ x.override \in Overrides
  /\ \A v \in Values, o \in Overrides :
       NewKey(v, o) \in Key /\ NewKey(v, o).value = v /\ NewKey(v, o).override = o
<1>1. \A o \in Overrides : KeyRPM(o) \in Rates
  BY DEF Rates
<1>2. KeyRPM(0) = DefaultRPM /\ 0 \in Overrides
  <2>1. 0 \in Overrides
    BY KeyringAssumption
  <2>2. KeyRPM(0) = DefaultRPM
    BY DEF KeyRPM
  <2>3. QED
    BY <2>1, <2>2
<1>3. NoKey.value = "" /\ "" \notin Values
  BY KeyringAssumption DEF NoKey
<1>4. \A x \in Key : x.value \in Values /\ x.override \in Overrides
  BY DEF Key
<1>5. \A v \in Values, o \in Overrides :
        NewKey(v, o) \in Key /\ NewKey(v, o).value = v /\ NewKey(v, o).override = o
  BY DEF NewKey, Key
<1>6. \A x \in Key : x # NoKey
  BY <1>3, <1>4
<1>7. DefaultRPM \in Rates
  BY <1>1, <1>2
<1>8. LastKeyId \in Nat /\ TestKey \in Values
  BY KeyringAssumption
<1>9. 0 \in Rates
  BY DEF Rates
<1>10. QED
  BY <1>1, <1>2, <1>3, <1>4, <1>5, <1>6, <1>7, <1>8, <1>9

LEMMA IdsAreNumbers ==
  /\ \A k \in KeyIds : k \in Nat /\ k >= 1 /\ k <= LastKeyId
  /\ \A n \in 0..LastKeyId : n \in Nat
  /\ 0 \in 0..LastKeyId
<1>1. LastKeyId \in Nat
  BY KeyringAssumption
<1>2. QED
  BY <1>1 DEF KeyIds

LEMMA LiveKeys ==
  ASSUME KeyringTypeOK
  PROVE  /\ \A k \in Live : k \in KeyIds /\ keys[k] \in Key
         /\ \A k \in KeyIds : k \in Live <=> keys[k] # NoKey
<1>1. keys \in [KeyIds -> {NoKey} \cup Key]
  BY KeyringTypes
<1>2. QED
  BY <1>1 DEF Live

(* Different values that are not in the table yet.                         *)
AreNew(values) ==
  /\ values \in Seq(Values)
  /\ \A i, j \in DOMAIN values : values[i] = values[j] => i = j
  /\ \A i \in DOMAIN values : values[i] \notin LiveValues

(* They come behind all ids that were ever given.                          *)
Appended(values, override) ==
  /\ \A k \in KeyIds : k <= lastId => keys'[k] = keys[k]
  /\ \A k \in Live' : k > lastId =>
       /\ keys'[k].override = override /\ k - lastId \in DOMAIN values
       /\ keys'[k].value = values[k - lastId]
  /\ \A k \in KeyIds : k > lastId' => keys'[k] = NoKey
  /\ lastId' \in 0..LastKeyId /\ lastId' >= lastId
  /\ keys' \in [KeyIds -> {NoKey} \cup Key]
  /\ \A j, k \in Live' : keys'[j].value = keys'[k].value => j = k
  /\ \A k \in Live : k \in Live' /\ k <= lastId

LEMMA AddedAreAppended ==
  ASSUME KeyringInv, NEW values, AreNew(values), NEW override \in Overrides,
         Added(values, override)
  PROVE  Appended(values, override)
<1>1. /\ lastId \in Nat /\ lastId <= LastKeyId /\ LastKeyId \in Nat
      /\ keys \in [KeyIds -> {NoKey} \cup Key]
      /\ \A k \in KeyIds : k \in Nat /\ k >= 1 /\ k <= LastKeyId
  <2>1. lastId \in 0..LastKeyId /\ keys \in [KeyIds -> {NoKey} \cup Key]
    BY KeyringTypes DEF KeyringInv
  <2>2. LastKeyId \in Nat
    BY KeyringAssumption
  <2>3. QED
    BY <2>1, <2>2, IdsAreNumbers
<1>2. values \in Seq(Values) /\ Len(values) \in Nat /\ DOMAIN values = 1..Len(values)
  BY DEF AreNew
<1>3. /\ lastId' = lastId + Len(values) /\ lastId + Len(values) <= LastKeyId
      /\ keys' = [k \in KeyIds |-> IF k - lastId \in DOMAIN values
                                   THEN NewKey(values[k - lastId], override) ELSE keys[k]]
  BY DEF Added, LargestId
<1>4. \A k \in KeyIds : k - lastId \in DOMAIN values <=> k > lastId /\ k <= lastId'
  BY <1>1, <1>2, <1>3
<1>5. ASSUME NEW k \in KeyIds, k <= lastId \/ k > lastId' PROVE keys'[k] = keys[k]
  BY <1>1, <1>3, <1>4, <1>5
<1>6. ASSUME NEW k \in KeyIds, k > lastId, k <= lastId'
      PROVE  /\ k - lastId \in DOMAIN values /\ values[k - lastId] \in Values
             /\ keys'[k] = NewKey(values[k - lastId], override)
             /\ keys'[k].value = values[k - lastId] /\ keys'[k].override = override
             /\ keys'[k] \in Key
  <2>1. k - lastId \in DOMAIN values
    BY <1>4, <1>6
  <2>2. values[k - lastId] \in Values
    BY <1>2, <2>1
  <2>3. keys'[k] = NewKey(values[k - lastId], override)
    BY <1>3, <2>1
  <2>4. LET x == NewKey(values[k - lastId], override)
        IN  x \in Key /\ x.value = values[k - lastId] /\ x.override = override
    BY <2>2, KeyringFacts
  <2>5. QED
    BY <2>1, <2>2, <2>3, <2>4
<1>7. \A k \in KeyIds : k > lastId => keys[k] = NoKey
  BY DEF KeyringInv
<1>8. keys' \in [KeyIds -> {NoKey} \cup Key]
  <2>1. ASSUME NEW k \in KeyIds PROVE keys'[k] \in {NoKey} \cup Key
    <3>1. CASE k <= lastId \/ k > lastId'
      BY <1>1, <1>5, <3>1
    <3>2. CASE k > lastId /\ k <= lastId'
      BY <1>6, <3>2
    <3>3. QED
      BY <1>1, <1>2, <1>3, <3>1, <3>2
  <2>2. QED
    BY <1>3, <2>1
<1>9. Live' = {k \in KeyIds : keys'[k] # NoKey} /\ Live = {k \in KeyIds : keys[k] # NoKey}
  BY DEF Live
<1>10. \A k \in Live' : k > lastId => k \in KeyIds /\ k <= lastId'
  BY <1>1, <1>5, <1>7, <1>9, <1>3
<1>11. \A k \in Live : k <= lastId /\ k \in Live' /\ keys'[k] = keys[k]
  BY <1>1, <1>5, <1>7, <1>9
<1>12. ASSUME NEW j \in Live', NEW k \in Live', keys'[j].value = keys'[k].value
       PROVE  j = k
  <2>1. \A i \in Live' : i <= lastId => i \in Live /\ keys'[i] = keys[i]
                                        /\ keys'[i].value \in LiveValues
    BY <1>5, <1>9 DEF LiveValues
  <2>2. \A i \in Live' : i > lastId => /\ i - lastId \in DOMAIN values
                                       /\ keys'[i].value = values[i - lastId]
                                       /\ keys'[i].value \notin LiveValues
    BY <1>6, <1>9, <1>10 DEF AreNew
  <2>3. j \in Nat /\ k \in Nat
    BY <1>1, <1>9
  <2>4. CASE j <= lastId /\ k <= lastId
    BY <1>12, <2>1, <2>4 DEF KeyringInv
  <2>5. CASE j > lastId /\ k > lastId
    <3>1. values[j - lastId] = values[k - lastId]
      BY <1>12, <2>2, <2>5
    <3>2. j - lastId = k - lastId
      BY <2>2, <2>5, <3>1 DEF AreNew
    <3>3. QED
      BY <1>1, <2>3, <3>2
  <2>6. QED
    BY <1>1, <1>12, <2>1, <2>2, <2>3, <2>4, <2>5
<1>13. QED
  <2>1. lastId' \in 0..LastKeyId /\ lastId' >= lastId
    BY <1>1, <1>2, <1>3
  <2>2. \A k \in KeyIds : k > lastId' => keys'[k] = NoKey
    BY <1>1, <1>5, <1>7, <2>1
  <2>3. \A k \in Live' : k > lastId =>
          /\ keys'[k].override = override /\ k - lastId \in DOMAIN values
          /\ keys'[k].value = values[k - lastId]
    BY <1>6, <1>10
  <2>4. QED
    BY <1>5, <1>8, <1>11, <1>12, <2>1, <2>2, <2>3 DEF Appended

(* The values that the transaction of an import inserts are new ones.      *)
LEMMA InsertedAreNew ==
  ASSUME KeyringInv, NEW pasted \in Imports
  PROVE  AreNew(Inserted(pasted))
<1> DEFINE kept == {i \in DOMAIN pasted : /\ pasted[i] \in Values \ LiveValues
                                          /\ \A j \in 1..(i - 1) : pasted[j] # pasted[i]}
           n == Cardinality(kept)
           values == Inserted(pasted)
<1>1. Len(pasted) \in Nat /\ DOMAIN pasted = 1..Len(pasted)
  BY KeyringAssumption
<1>2. values = Thinned(pasted, kept)
  BY DEF Inserted
<1>3. kept \in SUBSET (1..Len(pasted))
  BY <1>1
<1>4. /\ \A i \in kept : pasted[i] \in Values /\ pasted[i] \notin LiveValues
      /\ \A i, j \in kept : pasted[i] = pasted[j] => i = j
  <2>1. \A i \in kept : /\ pasted[i] \in Values /\ pasted[i] \notin LiveValues
                        /\ \A j \in 1..(i - 1) : pasted[j] # pasted[i]
    OBVIOUS
  <2>2. \A i \in kept : i \in Nat /\ i >= 1
    BY <1>3
  <2> HIDE DEF kept
  <2>3. QED
    BY <2>1, <2>2
<1> HIDE DEF kept, values
<1>5. n \in Nat /\ IsThinned(values, pasted, kept)
  BY <1>1, <1>2, <1>3, ThinnedIsThinned
<1>6. PICK order \in [1..n -> kept] :
        /\ values = [m \in 1..n |-> pasted[order[m]]]
        /\ \A l, m \in 1..n : l < m => order[l] < order[m]
  BY <1>5 DEF IsThinned
<1>7. values \in Seq(Values) /\ DOMAIN values = 1..n
  <2>1. values \in [1..n -> Values]
    BY <1>4, <1>6
  <2>2. QED
    BY <1>5, <2>1
<1>8. \A m \in 1..n : order[m] \in kept /\ values[m] = pasted[order[m]]
  BY <1>6
<1>9. ASSUME NEW l \in DOMAIN values, NEW m \in DOMAIN values, values[l] = values[m]
      PROVE  l = m
  <2>1. order[l] = order[m] /\ order[m] \in Nat
    <3>1. order[l] \in kept /\ order[m] \in kept /\ pasted[order[l]] = pasted[order[m]]
      BY <1>7, <1>8, <1>9
    <3>2. order[l] = order[m]
      BY <1>4, <3>1
    <3>3. order[m] \in 1..Len(pasted)
      BY <1>3, <3>1
    <3>4. QED
      BY <3>2, <3>3
  <2>2. ~(order[l] < order[m]) /\ ~(order[m] < order[l])
    BY <2>1
  <2>3. ~(l < m) /\ ~(m < l)
    BY <1>6, <1>7, <2>2
  <2>4. QED
    BY <1>5, <1>7, <2>3
<1>10. \A m \in DOMAIN values : values[m] \notin LiveValues
  BY <1>4, <1>7, <1>8
<1>11. AreNew(values)
  BY <1>7, <1>9, <1>10 DEF AreNew
<1>12. QED
  BY <1>11 DEF values

(* Everything but the tables stays, or what changed is behind lastId.      *)
LEMMA AppendedStep ==
  ASSUME KeyringInv, NEW values, NEW override \in Overrides, Appended(values, override),
         UNCHANGED <<buckets, registered>>
  PROVE  KeyringInv'
<1>1. lastId \in Nat /\ \A k \in KeyIds : k \in Nat
  <2>1. lastId \in 0..LastKeyId
    BY DEF KeyringInv, KeyringTypeOK
  <2>2. QED
    BY <2>1, IdsAreNumbers
<1>2. KeyringTypeOK'
  <2>1. registered' \subseteq Live' /\ buckets' \in [KeyIds -> Rates]
    BY KeyringTypes DEF KeyringInv, Appended
  <2>2. keys' \in [KeyIds -> {NoKey} \cup Key] /\ lastId' \in 0..LastKeyId
    BY DEF Appended
  <2>3. QED
    BY <2>1, <2>2 DEF KeyringTypeOK, Key, Rates
<1>3. lastId' \in Nat /\ lastId' >= lastId
  BY IdsAreNumbers DEF Appended
<1>4. \A k \in KeyIds : k > lastId' => keys'[k] = NoKey /\ buckets'[k] = 0
  <2>1. \A k \in KeyIds : k > lastId' => k > lastId
    BY <1>1, <1>3
  <2>2. QED
    BY <2>1 DEF KeyringInv, Appended
<1>5. ASSUME NEW k \in Live' PROVE HasItsRate(k)'
  <2>1. k \in KeyIds /\ keys'[k] # NoKey
    BY DEF Live
  <2>2. CASE k <= lastId
    <3>1. k \in Live /\ keys'[k] = keys[k]
      BY <2>1, <2>2 DEF Live, Appended
    <3>2. QED
      BY <3>1 DEF KeyringInv, HasItsRate
  <2>3. CASE k > lastId
    <3>1. k \notin Live /\ buckets[k] = 0
      BY <2>1, <2>3 DEF KeyringInv, Live
    <3>2. k \notin registered'
      BY <3>1 DEF KeyringInv, KeyringTypeOK
    <3>3. QED
      BY <3>1, <3>2 DEF HasItsRate
  <2>4. QED
    BY <1>1, <2>1, <2>2, <2>3
<1>6. \A j, k \in Live' : keys'[j].value = keys'[k].value => j = k
  BY DEF Appended
<1>7. QED
  BY <1>2, <1>4, <1>5, <1>6 DEF KeyringInv

LEMMA DeleteKeyStep ==
  ASSUME KeyringInv, NEW k \in KeyIds, deleteKey(k)
  PROVE  KeyringInv'
<1>1. /\ keys \in [KeyIds -> {NoKey} \cup Key] /\ keys' = [keys EXCEPT ![k] = NoKey]
      /\ registered' = registered \ {k} /\ registered \subseteq Live
      /\ UNCHANGED <<lastId, buckets>> /\ KeyringTypeOK
  BY KeyringTypes DEF KeyringInv, deleteKey
<1>2. Live' = Live \ {k} /\ \A j \in KeyIds : j # k => keys'[j] = keys[j]
  BY <1>1 DEF Live
<1>3. KeyringTypeOK'
  <2>1. keys' \in [KeyIds -> {NoKey} \cup Key] /\ registered' \subseteq Live'
    BY <1>1, <1>2
  <2>2. lastId' \in 0..LastKeyId /\ buckets' \in [KeyIds -> Rates]
    BY <1>1, KeyringTypes
  <2>3. QED
    BY <2>1, <2>2 DEF KeyringTypeOK, Key, Rates
<1>4. \A j \in KeyIds : j > lastId' => keys'[j] = NoKey /\ buckets'[j] = 0
  BY <1>1 DEF KeyringInv
<1>5. \A j \in Live' : j \in Live /\ j \in KeyIds /\ keys'[j] = keys[j]
  BY <1>2 DEF Live
<1>6. \A j \in Live' : HasItsRate(j)'
  BY <1>1, <1>5 DEF KeyringInv, HasItsRate
<1>7. \A i, j \in Live' : keys'[i].value = keys'[j].value => i = j
  BY <1>5 DEF KeyringInv
<1>8. QED
  BY <1>3, <1>4, <1>6, <1>7 DEF KeyringInv

LEMMA UpdateKeyStep ==
  ASSUME KeyringInv, NEW k \in KeyIds, updateKey(k)
  PROVE  KeyringInv'
<1>1. /\ keys \in [KeyIds -> {NoKey} \cup Key]
      /\ keys' = [keys EXCEPT ![k] = [keys[k] EXCEPT !.enabled = ~keys[k].enabled]]
      /\ registered \subseteq Live /\ k \in Live
      /\ UNCHANGED <<lastId, buckets, registered>> /\ KeyringTypeOK
  BY KeyringTypes DEF KeyringInv, updateKey
<1>2. keys[k] \in Key
  BY <1>1, LiveKeys
<1>3. PICK on \in BOOLEAN : on = ~keys[k].enabled
  BY <1>2 DEF Key
<1>4. keys'[k] = [keys[k] EXCEPT !.enabled = on] /\ \A j \in KeyIds : j # k => keys'[j] = keys[j]
  BY <1>1, <1>3
<1>5. keys'[k] \in Key /\ keys'[k].value = keys[k].value /\ keys'[k].override = keys[k].override
  BY <1>2, <1>4 DEF Key
<1>6. keys'[k] # NoKey
  BY <1>5, KeyringFacts
<1>7. Live' = Live
  BY <1>1, <1>4, <1>6 DEF Live
<1>8. KeyringTypeOK'
  <2>1. keys' \in [KeyIds -> {NoKey} \cup Key]
    BY <1>1, <1>4, <1>5
  <2>2. lastId' \in 0..LastKeyId /\ buckets' \in [KeyIds -> Rates] /\ registered' \subseteq Live'
    BY <1>1, <1>7, KeyringTypes
  <2>3. QED
    BY <2>1, <2>2 DEF KeyringTypeOK, Key, Rates
<1>9. \A j \in KeyIds : j > lastId' => keys'[j] = NoKey /\ buckets'[j] = 0
  <2>1. ~(k > lastId)
    BY <1>1 DEF KeyringInv, Live
  <2>2. QED
    BY <1>1, <1>4, <2>1 DEF KeyringInv
<1>10. \A j \in Live' : /\ j \in Live /\ j \in KeyIds /\ keys'[j].value = keys[j].value
                        /\ keys'[j].override = keys[j].override
  BY <1>4, <1>5, <1>7 DEF Live
<1>11. \A j \in Live' : HasItsRate(j)'
  BY <1>1, <1>10 DEF KeyringInv, HasItsRate
<1>12. \A i, j \in Live' : keys'[i].value = keys'[j].value => i = j
  BY <1>10 DEF KeyringInv
<1>13. QED
  BY <1>8, <1>9, <1>11, <1>12 DEF KeyringInv

LEMMA BucketUsedStep ==
  ASSUME KeyringInv, NEW k \in KeyIds, BucketUsed(k)
  PROVE  KeyringInv'
<1>1. /\ buckets \in [KeyIds -> Rates] /\ buckets' = [buckets EXCEPT ![k] = DefaultRPM]
      /\ k \in 1..lastId /\ buckets[k] = 0
      /\ UNCHANGED <<keys, lastId, registered>> /\ KeyringTypeOK /\ lastId \in Nat
  <2>1. lastId \in 0..LastKeyId /\ KeyringTypeOK
    BY DEF KeyringInv, KeyringTypeOK
  <2>2. lastId \in Nat
    BY <2>1, IdsAreNumbers
  <2>3. QED
    BY <2>1, <2>2, KeyringTypes DEF BucketUsed
<1>2. Live' = Live /\ k <= lastId
  BY <1>1 DEF Live
<1>3. KeyringTypeOK'
  <2>1. buckets' \in [KeyIds -> Rates]
    BY <1>1, KeyringFacts
  <2>2. /\ keys' \in [KeyIds -> {NoKey} \cup Key] /\ lastId' \in 0..LastKeyId
        /\ registered' \subseteq Live'
    BY <1>1, <1>2, KeyringTypes
  <2>3. QED
    BY <2>1, <2>2 DEF KeyringTypeOK, Key, Rates
<1>4. \A j \in KeyIds : j > lastId' => keys'[j] = NoKey /\ buckets'[j] = 0
  BY <1>1, <1>2 DEF KeyringInv
<1>5. ASSUME NEW j \in Live' PROVE HasItsRate(j)'
  <2>1. j \in Live /\ j \in KeyIds /\ HasItsRate(j)
    BY <1>2 DEF KeyringInv, Live
  <2>2. CASE j # k
    <3>1. buckets'[j] = buckets[j]
      BY <1>1, <2>1, <2>2
    <3>2. QED
      BY <1>1, <2>1, <3>1 DEF HasItsRate
  <2>3. CASE j = k
    <3>1. KeyRPM(keys[k].override) # 0
      <4>1. keys[k].override \in Nat
        <5>1. keys[k] \in Key /\ Overrides \subseteq Nat
          BY <1>1, <2>1, <2>3, LiveKeys, KeyringAssumption
        <5>2. QED
          BY <5>1 DEF Key
      <4>2. DefaultRPM \in Nat \ {0}
        BY KeyringAssumption
      <4>3. QED
        BY <4>1, <4>2 DEF KeyRPM
    <3>2. k \notin registered
      BY <1>1, <2>1, <2>3, <3>1 DEF HasItsRate
    <3>3. buckets'[k] = DefaultRPM
      BY <1>1
    <3>4. QED
      BY <1>1, <2>3, <3>2, <3>3 DEF HasItsRate
  <2>4. QED
    BY <2>2, <2>3
<1>6. \A i, j \in Live' : keys'[i].value = keys'[j].value => i = j
  BY <1>1, <1>2 DEF KeyringInv
<1>7. QED
  BY <1>3, <1>4, <1>5, <1>6 DEF KeyringInv

(* A start, whether it reads the table and whether it seeds or not: the id *)
(* that the seeding gives is behind all others.                            *)
LEMMA KeyringStartStep ==
  ASSUME KeyringInv, KeyringStarts
  PROVE  KeyringInv'
<1>1. /\ keys \in [KeyIds -> {NoKey} \cup Key] /\ lastId \in 0..LastKeyId /\ KeyringTypeOK
      /\ lastId \in Nat /\ \A k \in KeyIds : k \in Nat
  <2>1. lastId \in 0..LastKeyId /\ KeyringTypeOK
    BY DEF KeyringInv, KeyringTypeOK
  <2>2. lastId \in Nat
    BY <2>1, IdsAreNumbers
  <2>3. QED
    BY <2>1, <2>2, KeyringTypes, IdsAreNumbers
<1>2. PICK listed \in {Live, {}} :
        /\ buckets' = [k \in KeyIds |-> IF Seeded(k) THEN DefaultRPM
                                        ELSE IF k \in listed THEN KeyRPM(keys[k].override) ELSE 0]
        /\ registered' = listed \cup {k \in KeyIds : Seeded(k)}
  BY DEF KeyringStarts
<1>3. listed \subseteq Live
  BY <1>2
<1>4. buckets' \in [KeyIds -> Rates]
  <2>1. \A k \in listed : KeyRPM(keys[k].override) \in Rates
    BY <1>1, <1>3, LiveKeys, KeyringFacts
  <2>2. DefaultRPM \in Rates /\ 0 \in Rates
    BY KeyringFacts
  <2>3. QED
    BY <1>2, <2>1, <2>2
<1>5. /\ \A k \in Live : k \in KeyIds /\ k \in Live' /\ keys'[k] = keys[k]
      /\ \A k \in Live' : /\ k \in KeyIds
                          /\ k \notin Live => Seeded(k) /\ keys'[k].override = 0
      /\ \A k \in KeyIds : k > lastId' => keys'[k] = NoKey /\ k \notin Live
      /\ lastId' \in 0..LastKeyId
      /\ keys' \in [KeyIds -> {NoKey} \cup Key]
      /\ \A i, j \in Live' : keys'[i].value = keys'[j].value => i = j
  <2>1. CASE UNCHANGED <<keys, lastId>>
    <3>1. UNCHANGED <<keys, lastId>>
      BY <2>1
    <3>2. Live' = Live /\ \A k \in Live : k \in KeyIds
      BY <3>1 DEF Live
    <3>3. \A k \in KeyIds : k > lastId' => keys'[k] = NoKey /\ k \notin Live
      BY <3>1 DEF KeyringInv, Live
    <3>4. \A i, j \in Live' : keys'[i].value = keys'[j].value => i = j
      BY <3>1, <3>2 DEF KeyringInv
    <3>5. QED
      BY <1>1, <3>1, <3>2, <3>3, <3>4
  <2>2. CASE TestKey \notin LiveValues /\ Added(<<TestKey>>, 0)
    <3>1. Added(<<TestKey>>, 0)
      BY <2>2
    <3>2. AreNew(<<TestKey>>)
      <4>1. TestKey \in Values
        BY KeyringFacts
      <4>2. QED
        BY <2>2, <4>1 DEF AreNew
    <3>3. Appended(<<TestKey>>, 0)
      BY <3>1, <3>2, AddedAreAppended, KeyringFacts
    <3>4. ASSUME NEW k \in Live', k \notin Live
          PROVE  Seeded(k) /\ keys'[k].override = 0
      <4>1. k \in KeyIds /\ keys'[k] # NoKey
        BY DEF Live
      <4>2. k > lastId
        <5>1. CASE k <= lastId
          BY <3>3, <3>4, <4>1, <5>1 DEF Appended, Live
        <5>2. QED
          BY <1>1, <4>1, <5>1
      <4>3. keys'[k].override = 0
        BY <3>3, <4>2 DEF Appended
      <4>4. QED
        BY <3>4, <4>1, <4>3 DEF Seeded
    <3>5. \A k \in Live : k \in KeyIds /\ k \in Live' /\ keys'[k] = keys[k]
      BY <3>3 DEF Appended, Live
    <3>6. \A k \in KeyIds : k > lastId' => keys'[k] = NoKey /\ k \notin Live
      <4>1. \A k \in KeyIds : k > lastId' => keys'[k] = NoKey
        BY <3>3 DEF Appended
      <4>2. QED
        BY <3>5, <4>1 DEF Live
    <3>7. \A k \in Live' : k \in KeyIds
      BY DEF Live
    <3>8. /\ lastId' \in 0..LastKeyId /\ keys' \in [KeyIds -> {NoKey} \cup Key]
          /\ \A i, j \in Live' : keys'[i].value = keys'[j].value => i = j
      BY <3>3 DEF Appended
    <3>9. QED
      BY <3>4, <3>5, <3>6, <3>7, <3>8
  <2>3. QED
    BY <2>1, <2>2 DEF KeyringStarts
<1>6. KeyringTypeOK'
  <2>1. registered' \subseteq Live'
    BY <1>2, <1>3, <1>5 DEF Seeded, Live
  <2>2. QED
    BY <1>4, <1>5, <2>1 DEF KeyringTypeOK, Key, Rates
<1>7. \A k \in KeyIds : k > lastId' => keys'[k] = NoKey /\ buckets'[k] = 0
  <2>1. \A k \in KeyIds : k > lastId' => ~Seeded(k) /\ k \notin listed
    BY <1>3, <1>5 DEF Seeded
  <2>2. QED
    BY <1>2, <1>5, <2>1
<1>8. ASSUME NEW k \in Live' PROVE HasItsRate(k)'
  <2>1. CASE k \in Live
    <3>1. keys'[k] = keys[k] /\ ~Seeded(k) /\ k \in KeyIds
      BY <1>5, <2>1 DEF Seeded
    <3>2. CASE k \in listed
      <4>1. buckets'[k] = KeyRPM(keys'[k].override)
        BY <1>2, <3>1, <3>2
      <4>2. QED
        BY <4>1 DEF HasItsRate
    <3>3. CASE k \notin listed
      <4>1. buckets'[k] = 0 /\ k \notin registered'
        BY <1>2, <3>1, <3>3
      <4>2. QED
        BY <4>1 DEF HasItsRate
    <3>4. QED
      BY <3>2, <3>3
  <2>2. CASE k \notin Live
    <3>1. k \in KeyIds /\ Seeded(k) /\ keys'[k].override = 0
      BY <1>5, <2>2
    <3>2. buckets'[k] = KeyRPM(keys'[k].override)
      BY <1>2, <3>1, KeyringFacts
    <3>3. QED
      BY <3>2 DEF HasItsRate
  <2>3. QED
    BY <2>1, <2>2
<1>9. QED
  BY <1>5, <1>6, <1>7, <1>8 DEF KeyringInv

LEMMA KeyringStep == KeyringInv /\ [KeyringNext]_keyringVars => KeyringInv'
<1> SUFFICES ASSUME KeyringInv, [KeyringNext]_keyringVars
             PROVE  KeyringInv'
  OBVIOUS
<1>1. ASSUME NEW v \in Values, NEW o \in Overrides, addKey(v, o) PROVE KeyringInv'
  <2>1. AreNew(<<v>>)
    BY <1>1 DEF AreNew, addKey
  <2>2. Appended(<<v>>, o)
    BY <1>1, <2>1, AddedAreAppended DEF addKey
  <2>3. QED
    BY <1>1, <2>2, AppendedStep DEF addKey
<1>2. ASSUME NEW pasted \in Imports, NEW o \in Overrides, BulkAddUpstreamKeys(pasted, o)
      PROVE  KeyringInv'
  <2>1. Appended(Inserted(pasted), o)
    BY <1>2, InsertedAreNew, AddedAreAppended DEF BulkAddUpstreamKeys
  <2>2. QED
    BY <1>2, <2>1, AppendedStep DEF BulkAddUpstreamKeys
<1>3. ASSUME NEW k \in KeyIds, deleteKey(k) \/ updateKey(k) \/ BucketUsed(k) PROVE KeyringInv'
  BY <1>3, DeleteKeyStep, UpdateKeyStep, BucketUsedStep
<1>4. CASE KeyringStarts
  BY <1>4, KeyringStartStep
<1>5. CASE UNCHANGED keyringVars
  <2>1. UNCHANGED <<keys, lastId, buckets, registered>>
    BY <1>5 DEF keyringVars
  <2>2. QED
    BY <2>1 DEF KeyringInv, KeyringTypeOK, Live, HasItsRate
<1>6. QED
  BY <1>1, <1>2, <1>3, <1>4, <1>5 DEF KeyringNext

LEMMA KeyringInitially == KeyringInit => KeyringInv
<1> SUFFICES ASSUME KeyringInit
             PROVE  KeyringInv
  OBVIOUS
<1>1. /\ keys \in [KeyIds -> {NoKey} \cup Key] /\ Live = {} /\ registered = {}
      /\ \A k \in KeyIds : keys[k] = NoKey /\ buckets[k] = 0
  BY DEF KeyringInit, Live
<1>2. lastId \in 0..LastKeyId /\ buckets \in [KeyIds -> Rates]
  <2>1. 0 \in Rates /\ lastId = 0 /\ buckets = [k \in KeyIds |-> 0]
    BY DEF KeyringInit, Rates
  <2>2. QED
    BY <2>1, IdsAreNumbers
<1>3. KeyringTypeOK
  BY <1>1, <1>2, KeyringTypes
<1>4. QED
  BY <1>1, <1>3 DEF KeyringInv

(* The tables of the keys, and their buckets (registerKeys, addKey,        *)
(* BulkAddUpstreamKeys, Manager.Bucket).                                   *)
THEOREM KeyringInvariance == KeyringSpec => []KeyringInv
<1>1. QED
  BY KeyringInitially, KeyringStep, PTL DEF KeyringSpec

(* For any keys, imports and starts: no value is twice in the table, and   *)
(* no key is served at a rate that was left by another one.                *)
THEOREM KeysHaveTheirOwnBuckets == KeyringSpec => []BucketsAreTheirOwn
<1>1. KeyringInv => BucketsAreTheirOwn
  BY DEF KeyringInv, BucketsAreTheirOwn, HasItsRate
<1>2. QED
  BY <1>1, KeyringInvariance, PTL
=============================================================================
