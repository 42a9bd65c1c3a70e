------------------------ MODULE StreamExchangeProofs ------------------------
(***************************************************************************)
(* Proofs about StreamExchange, for messages of any size, however they are *)
(* cut into chunks.  The parts of the inductive invariant:                 *)
(*                                                                         *)
(*   Types     types, of the counters one by one                           *)
(*   Counted   the counters of both programs say which bytes of the        *)
(*             message are stored and which are under way                  *)
(*   Phases    what a program has written where it is, and what the end    *)
(*             of its stream says about it                                 *)
(***************************************************************************)
EXTENDS StreamExchange, SequenceTheorems, TLAPS

Types ==
  /\ kind \in ChunkWriters \cup ChunkReaders \cup {"halfclose"}
  /\ size \in [Streams -> Nat \ {0}]
  /\ written \in [Streams -> Nat] /\ putting \in [Streams -> Nat]
  /\ read \in [Streams -> Nat] /\ getting \in [Streams -> Nat]
  /\ eof \in [Streams -> BOOLEAN] /\ reset \in BOOLEAN
  /\ program \in [Programs -> {"write", "shutdown", "read"} \cup Ended]

\* The bytes that are written to the socket, and those that were taken from it.
Put(s) == written[s] + putting[s]
Taken(s) == read[s] + getting[s]

Counted ==
  /\ \A s \in Streams :
       /\ Taken(s) <= Put(s) /\ Put(s) <= size[s]
       /\ Put(s) - Taken(s) <= Window
       /\ kind \in ChunkReaders => Taken(s) <= MessageSize
  /\ buffer = [s \in Streams |-> Numbers(1, Taken(s))]
  /\ wire = [s \in Streams |-> Numbers(Taken(s) + 1, Put(s))]

WrittenOut(s) == written[s] = size[s] /\ putting[s] = 0

Phases ==
  kind = "halfclose" =>
    /\ program["client"] \in {"shutdown", "read", "done"} => WrittenOut("request")
    /\ program["server"] \in {"shutdown", "done"} => WrittenOut("response")
    /\ eof["request"] => program["client"] \in {"read", "done", "killed"} \/ reset
    /\ eof["response"] => program["server"] \in {"done", "killed"} \/ reset
    /\ EofMeansWhole

-----------------------------------------------------------------------------
(* Stretches of the message                                                *)

\* A stretch of the message byte by byte.
LEMMA NumbersProperties ==
  ASSUME NEW a \in Nat, NEW b \in Nat, a <= b
  PROVE  /\ Numbers(a + 1, b) \in Seq(Nat)
         /\ Len(Numbers(a + 1, b)) = b - a
         /\ \A i \in 1 .. b - a : Numbers(a + 1, b)[i] = a + i
<1> DEFINE n == b - a
<1>1. n \in Nat /\ b - (a + 1) + 1 = n
  OBVIOUS
<1>2. Numbers(a + 1, b) = [i \in 1 .. n |-> a + 1 + i - 1]
  BY <1>1 DEF Numbers
<1> HIDE DEF n
<1>3. Numbers(a + 1, b) \in [1 .. n -> Nat]
  BY <1>1, <1>2
<1>4. Numbers(a + 1, b) \in Seq(Nat) /\ Len(Numbers(a + 1, b)) = n
  BY <1>1, <1>2, <1>3
<1>5. \A i \in 1 .. n : Numbers(a + 1, b)[i] = a + i
  BY <1>1, <1>2
<1>6. QED
  BY <1>4, <1>5 DEF n

\* Adjacent stretches make one.
LEMMA NumbersConcat ==
  ASSUME NEW a \in Nat, NEW b \in Nat, NEW c \in Nat, a <= b, b <= c
  PROVE  Numbers(a + 1, b) \o Numbers(b + 1, c) = Numbers(a + 1, c)
<1> DEFINE left == Numbers(a + 1, b)
           right == Numbers(b + 1, c)
           all == Numbers(a + 1, c)
           m == b - a
           n == c - b
<1>1. m \in Nat /\ n \in Nat /\ b = a + m /\ c = b + n /\ c - a = m + n
  OBVIOUS
<1>2. left \in Seq(Nat) /\ Len(left) = m /\ \A i \in 1 .. m : left[i] = a + i
  BY NumbersProperties
<1>3. right \in Seq(Nat) /\ Len(right) = n /\ \A i \in 1 .. n : right[i] = b + i
  BY NumbersProperties
<1>4. /\ all \in Seq(Nat) /\ Len(all) = m + n
      /\ \A i \in 1 .. m + n : all[i] = a + i
  <2>1. a <= c /\ c - a = m + n
    BY <1>1
  <2>2. QED
    BY <2>1, NumbersProperties
<1> HIDE DEF left, right, all, m, n
<1>5. /\ left \o right \in Seq(Nat) /\ Len(left \o right) = m + n
      /\ \A i \in 1 .. m + n :
           (left \o right)[i] = IF i <= m THEN left[i] ELSE right[i - m]
  BY <1>2, <1>3, ConcatProperties
<1>6. ASSUME NEW i \in 1 .. m + n PROVE (left \o right)[i] = all[i]
  <2>1. CASE i <= m
    BY <1>1, <1>2, <1>4, <1>5, <2>1
  <2>2. CASE ~(i <= m)
    <3>1. i - m \in 1 .. n
      BY <1>1, <2>2
    <3>2. right[i - m] = b + (i - m)
      BY <1>3, <3>1
    <3>3. b + (i - m) = a + i
      BY <1>1
    <3>4. (left \o right)[i] = right[i - m]
      BY <1>5, <2>2
    <3>5. QED
      BY <1>4, <3>2, <3>3, <3>4
  <2>3. QED
    BY <2>1, <2>2
<1>7. left \o right = all
  BY <1>4, <1>5, <1>6, SeqEqual
<1>8. QED
  BY <1>7 DEF left, right, all

\* The first n bytes of a stretch, and the rest of it.
LEMMA NumbersSplit ==
  ASSUME NEW a \in Nat, NEW b \in Nat, NEW n \in Nat, a + n <= b
  PROVE  /\ SubSeq(Numbers(a + 1, b), 1, n) = Numbers(a + 1, a + n)
         /\ SubSeq(Numbers(a + 1, b), n + 1, b - a) = Numbers(a + n + 1, b)
<1> DEFINE all == Numbers(a + 1, b)
           first == Numbers(a + 1, a + n)
           rest == Numbers(a + n + 1, b)
<1>1. /\ all \in Seq(Nat) /\ Len(all) = b - a
      /\ \A i \in 1 .. b - a : all[i] = a + i
  BY NumbersProperties
<1>2. /\ first \in Seq(Nat) /\ Len(first) = n
      /\ \A i \in 1 .. n : first[i] = a + i
  <2>1. a + n \in Nat /\ a <= a + n /\ (a + n) - a = n
    OBVIOUS
  <2>2. QED
    BY <2>1, NumbersProperties
<1>3. /\ rest \in Seq(Nat) /\ Len(rest) = b - a - n
      /\ \A i \in 1 .. b - a - n : rest[i] = a + n + i
  <2>1. a + n \in Nat /\ b - (a + n) = b - a - n
    OBVIOUS
  <2>2. QED
    BY <2>1, NumbersProperties
<1> HIDE DEF all, first, rest
<1>4. SubSeq(all, 1, n) = first
  <2>1. \A i \in 1 .. n : all[i] \in Nat
    BY <1>1
  <2>2. /\ SubSeq(all, 1, n) \in Seq(Nat) /\ Len(SubSeq(all, 1, n)) = n
        /\ \A i \in 1 .. n : SubSeq(all, 1, n)[i] = all[i]
    BY <2>1, SubSeqProperties
  <2>3. \A i \in 1 .. n : SubSeq(all, 1, n)[i] = first[i]
    BY <1>1, <1>2, <2>2
  <2>4. QED
    BY <1>2, <2>2, <2>3, SeqEqual
<1>5. SubSeq(all, n + 1, b - a) = rest
  <2>1. \A i \in n + 1 .. b - a : all[i] \in Nat
    BY <1>1
  <2>2. /\ SubSeq(all, n + 1, b - a) \in Seq(Nat)
        /\ Len(SubSeq(all, n + 1, b - a)) = b - a - n
        /\ \A i \in 1 .. b - a - n : SubSeq(all, n + 1, b - a)[i] = all[n + i]
    BY <2>1, SubSeqProperties
  <2>3. \A i \in 1 .. b - a - n : SubSeq(all, n + 1, b - a)[i] = rest[i]
    BY <1>1, <1>3, <2>2
  <2>4. QED
    BY <1>3, <2>2, <2>3, SeqEqual
<1>6. QED
  BY <1>4, <1>5 DEF all, first, rest
\* There are no bytes in an empty stretch, and only in that.
LEMMA NumbersEmpty ==
  ASSUME NEW a \in Nat, NEW b \in Nat, a <= b
  PROVE  Numbers(a + 1, b) = <<>> <=> a = b
<1>1. /\ Numbers(a + 1, b) \in Seq(Nat) /\ Len(Numbers(a + 1, b)) = b - a
  BY NumbersProperties
<1>2. CASE a = b
  BY <1>1, <1>2, EmptySeq, SeqEqual
<1>3. CASE a # b
  BY <1>1, <1>3
<1>4. QED
  BY <1>2, <1>3

-----------------------------------------------------------------------------
(* The bytes of both streams                                               *)

\* Types of the variables, of the counters each by itself.
LEMMA TypesInvariant == Spec => []Types
<1> USE StreamAssumption DEF Types, Streams, Programs, Ended
<1>1. Init => Types
  <2> SUFFICES ASSUME Init PROVE Types
    OBVIOUS
  <2>1. size \in [Streams -> Nat \ {0}]
    BY DEF Init
  <2>2. program \in [Programs -> {"write", "shutdown", "read"} \cup Ended]
    BY DEF Init
  <2>3. QED
    BY <2>1, <2>2 DEF Init
<1>2. Types /\ [Next]_vars => Types'
  <2> SUFFICES ASSUME Types, [Next]_vars PROVE Types'
    OBVIOUS
  <2> DEFINE EndTypes ==
        /\ program \in [Programs -> {"write", "shutdown", "read"} \cup Ended]
        /\ eof \in [Streams -> BOOLEAN] /\ reset \in BOOLEAN
  <2>100. ASSUME NEW p \in Programs, NEW how \in {"done", "failed", "killed"},
                 End(p, how)
          PROVE  EndTypes'
    BY <2>100 DEF End, Goto, Outbound
  <2>101. ASSUME NEW p \in Programs, NEW place \in {"shutdown", "done"},
                 Goto(p, place), UNCHANGED <<eof, reset>>
          PROVE  EndTypes'
    BY <2>101 DEF Goto
  <2>102. ASSUME UNCHANGED <<program, eof, reset>> PROVE EndTypes'
    BY <2>102
  <2> USE DEF Writer, Reader, Outbound
  <2>1. ASSUME NEW s \in Streams, WriteSome(s)
        PROVE  Types'
    <3>1. PICK n \in 1 .. size[s] - written[s] : putting' = [putting EXCEPT ![s] = n]
      BY <2>1 DEF WriteSome
    <3>2. n \in Nat
      BY <3>1
    <3>3. putting' \in [Streams -> Nat]
      BY <3>1, <3>2
    <3>4. QED
      BY <2>1, <3>3 DEF WriteSome
  <2>2. ASSUME NEW s \in Streams, ReadSome(s)
        PROVE  Types'
    <3>1. PICK n \in 1 .. Len(wire[s]) : getting' = [getting EXCEPT ![s] = n]
      BY <2>2 DEF ReadSome
    <3>2. n \in Nat
      BY <3>1
    <3>3. getting' \in [Streams -> Nat]
      BY <3>1, <3>2
    <3>4. QED
      BY <2>2, <3>3 DEF ReadSome
  <2>3. ASSUME NEW s \in Streams, NEW then \in {"shutdown", "done"},
               CountWritten(s, then), then = "shutdown" <=> kind = "halfclose"
        PROVE  Types'
    <3>1. written[s] + putting[s] \in Nat
      OBVIOUS
    <3>2. written' \in [Streams -> Nat] /\ putting' \in [Streams -> Nat]
      BY <2>3, <3>1 DEF CountWritten
    <3>3. EndTypes'
      <4>1. \/ UNCHANGED <<program, eof, reset>>
            \/ End(Writer(s), "done")
            \/ Goto(Writer(s), then) /\ UNCHANGED <<eof, reset>>
        BY <2>3 DEF CountWritten
      <4>2. Writer(s) \in Programs
        OBVIOUS
      <4> HIDE DEF Writer, Types, EndTypes
      <4>3. QED
        BY <4>1, <4>2, <2>100, <2>101, <2>102
    <3>4. QED
      BY <2>3, <3>2, <3>3 DEF CountWritten
  <2>4. ASSUME NEW s \in Streams, CountRead(s)
        PROVE  Types'
    <3>1. read[s] + getting[s] \in Nat
      OBVIOUS
    <3>2. read' \in [Streams -> Nat] /\ getting' \in [Streams -> Nat]
      BY <2>4, <3>1 DEF CountRead
    <3>3. EndTypes'
      <4>1. UNCHANGED <<program, eof, reset>> \/ End(Reader(s), "done")
        BY <2>4 DEF CountRead
      <4>2. Reader(s) \in Programs
        OBVIOUS
      <4> HIDE DEF Reader, Types, EndTypes
      <4>3. QED
        BY <4>1, <4>2, <2>100, <2>102
    <3>4. QED
      BY <2>4, <3>2, <3>3 DEF CountRead
  <2>5. ASSUME AsyncMainReturns
        PROVE  Types'
    BY <2>5 DEF AsyncMainReturns, End, Goto, streamVars
  <2>6. ASSUME EofTooEarly
        PROVE  Types'
    BY <2>6 DEF EofTooEarly, AtEof, End, Goto, streamVars
  <2>7. ASSUME PeerFinishes
        PROVE  Types'
    BY <2>7 DEF PeerFinishes, AtEof, End, Goto, streamVars
  <2>8. ASSUME ClientShutsDown
        PROVE  Types'
    BY <2>8 DEF ClientShutsDown, ShutDownSend, Goto, streamVars
  <2>9. ASSUME kind = "halfclose", AtEof("response"), End("client", "done"),
               UNCHANGED <<kind, size, streamVars>>
        PROVE  Types'
    BY <2>9 DEF AtEof, End, Goto, streamVars
  <2>10. ASSUME kind = "halfclose", AtEof("request"), Goto("server", "write"),
                UNCHANGED <<kind, size, streamVars, eof, reset>>
         PROVE  Types'
    BY <2>10 DEF AtEof, Goto, streamVars
  <2>11. ASSUME program["server"] = "shutdown", ~reset, End("server", "done"),
                UNCHANGED <<kind, size, streamVars>>
         PROVE  Types'
    BY <2>11 DEF End, Goto, streamVars
  <2>12. ASSUME NEW p \in Programs, Fail(p)
         PROVE  Types'
    BY <2>12 DEF Fail, End, Goto, streamVars
  <2>13. ASSUME NEW p \in Programs, Kill(p)
         PROVE  Types'
    BY <2>13 DEF Kill, End, Goto, Ended, streamVars
  <2>14. ASSUME Break
         PROVE  Types'
    BY <2>14 DEF Break, streamVars
  <2>15. CASE Finished \/ UNCHANGED vars
    BY <2>15 DEF Finished, vars, streamVars
  <2>16. QED
    BY <2>1, <2>2, <2>3, <2>4, <2>5, <2>6, <2>7, <2>8, <2>9, <2>10, <2>11,
       <2>12, <2>13, <2>14, <2>15
       DEF Next, ProgramStep, SyncWrites, SyncReads, AsyncReads, PeerReads,
           PeerWrites, ChunkReaders, Communicate, ProcessRequest, CountWritten,
           Streams
<1>3. QED
  BY <1>1, <1>2, PTL DEF Spec

\* What is stored and what is under way are the stretches that the counters say,
\* in every state between a transfer and its being counted.
LEMMA CountedInvariant == Spec => []Counted
<1> USE StreamAssumption
<1>1. Init => Counted
  <2> SUFFICES ASSUME Init PROVE Counted
    OBVIOUS
  <2>1. Numbers(1, 0) = <<>>
    BY NumbersEmpty
  <2>2. QED
    BY <2>1 DEF Init, Counted, Put, Taken, Streams
<1>2. Types /\ Counted /\ [Next]_vars => Counted'
  <2> SUFFICES ASSUME Types, Counted, [Next]_vars PROVE Counted'
    OBVIOUS
  <2>100. ASSUME UNCHANGED <<kind, size, wire, buffer>>,
                 \A t \in Streams : Put(t)' = Put(t) /\ Taken(t)' = Taken(t)
          PROVE  Counted'
    BY <2>100 DEF Counted
  <2>101. ASSUME NEW s \in Streams
          PROVE  /\ Put(s) \in Nat /\ Taken(s) \in Nat
                 /\ written[s] \in Nat /\ putting[s] \in Nat
                 /\ read[s] \in Nat /\ getting[s] \in Nat
                 /\ size[s] \in Nat
    BY DEF Types, Put, Taken
  <2>1. ASSUME NEW s \in Streams, WriteSome(s)
        PROVE  Counted'
    <3>1. PICK n \in 1 .. size[s] - written[s] :
            /\ Len(wire[s]) + n <= Window
            /\ wire' = [wire EXCEPT ![s] = @ \o Chunk(s, n)]
            /\ putting' = [putting EXCEPT ![s] = n]
      BY <2>1 DEF WriteSome
    <3>2. /\ putting[s] = 0
          /\ UNCHANGED <<kind, size, written, buffer, read, getting>>
      BY <2>1 DEF WriteSome
    <3>3. n \in Nat /\ Put(s) = written[s] /\ Put(s) + n <= size[s]
      BY <2>101, <3>1, <3>2 DEF Put
    <3>4. /\ Put(s)' = Put(s) + n
          /\ \A t \in Streams \ {s} : Put(t)' = Put(t)
          /\ \A t \in Streams : Taken(t)' = Taken(t)
      BY <3>1, <3>2, <3>3 DEF Types, Put, Taken
    <3>5. Put(s) - Taken(s) + n <= Window
      BY <2>101, <3>1, NumbersProperties DEF Counted
    <3>6. wire[s] \o Chunk(s, n) = Numbers(Taken(s) + 1, Put(s) + n)
      <4>1. wire[s] = Numbers(Taken(s) + 1, Put(s))
        BY DEF Counted
      <4>2. Chunk(s, n) = Numbers(Put(s) + 1, Put(s) + n)
        BY <3>3 DEF Chunk
      <4>3. Put(s) + n \in Nat /\ Put(s) <= Put(s) + n /\ Taken(s) <= Put(s)
        BY <2>101, <3>3 DEF Counted
      <4>4. Numbers(Taken(s) + 1, Put(s)) \o Numbers(Put(s) + 1, Put(s) + n)
              = Numbers(Taken(s) + 1, Put(s) + n)
        BY <2>101, <4>3, NumbersConcat
      <4>5. QED
        BY <4>1, <4>2, <4>4
    <3>7. wire' = [t \in Streams |-> Numbers(Taken(t)' + 1, Put(t)')]
      BY <3>1, <3>4, <3>6 DEF Counted
    <3>8. buffer' = [t \in Streams |-> Numbers(1, Taken(t)')]
      BY <3>2, <3>4 DEF Counted
    <3>9. ASSUME NEW t \in Streams
          PROVE  /\ Taken(t)' <= Put(t)' /\ Put(t)' <= size'[t]
                 /\ Put(t)' - Taken(t)' <= Window
                 /\ kind' \in ChunkReaders => Taken(t)' <= MessageSize
      BY <2>101, <3>2, <3>3, <3>4, <3>5 DEF Counted
    <3>10. QED
      BY <3>7, <3>8, <3>9 DEF Counted
  <2>2. ASSUME NEW s \in Streams, ReadSome(s)
        PROVE  Counted'
    <3>1. PICK n \in 1 .. Len(wire[s]) :
            /\ n <= Room(s)
            /\ buffer' = [buffer EXCEPT ![s] = Stored(s, SubSeq(wire[s], 1, n))]
            /\ wire' = [wire EXCEPT ![s] = SubSeq(@, n + 1, Len(@))]
            /\ getting' = [getting EXCEPT ![s] = n]
      BY <2>2 DEF ReadSome
    <3>2. /\ getting[s] = 0
          /\ UNCHANGED <<kind, size, written, putting, read>>
      BY <2>2 DEF ReadSome
    <3>3. /\ Len(wire[s]) = Put(s) - Taken(s)
          /\ wire[s] = Numbers(Taken(s) + 1, Put(s))
      BY <2>101, NumbersProperties DEF Counted
    <3>4. n \in Nat /\ n > 0 /\ Taken(s) = read[s] /\ Taken(s) + n <= Put(s)
      BY <2>101, <3>1, <3>2, <3>3 DEF Taken
    <3>5. /\ Taken(s)' = Taken(s) + n
          /\ \A t \in Streams \ {s} : Taken(t)' = Taken(t)
          /\ \A t \in Streams : Put(t)' = Put(t)
      BY <3>1, <3>2, <3>4 DEF Types, Put, Taken
    <3>6. kind \in ChunkReaders => Taken(s) + n <= MessageSize
      BY <2>101, <3>1, <3>4 DEF Room
    <3>7. /\ SubSeq(wire[s], 1, n) = Numbers(Taken(s) + 1, Taken(s) + n)
          /\ SubSeq(wire[s], n + 1, Len(wire[s]))
               = Numbers(Taken(s) + n + 1, Put(s))
      <4>1. /\ SubSeq(Numbers(Taken(s) + 1, Put(s)), 1, n)
                 = Numbers(Taken(s) + 1, Taken(s) + n)
            /\ SubSeq(Numbers(Taken(s) + 1, Put(s)), n + 1, Put(s) - Taken(s))
                 = Numbers(Taken(s) + n + 1, Put(s))
        <5>1. Taken(s) \in Nat /\ Put(s) \in Nat
          BY <2>101
        <5>2. QED
          BY <3>4, <5>1, NumbersSplit
      <4>2. QED
        BY <3>3, <4>1
    <3>8. Stored(s, SubSeq(wire[s], 1, n)) = Numbers(1, Taken(s) + n)
      <4>1. 0 + 1 = 1 /\ Taken(s) - 0 = Taken(s) /\ 0 <= Taken(s)
        BY <2>101
      <4>2. SubSeq(buffer[s], 1, read[s]) = Numbers(1, Taken(s))
        <5>1. buffer[s] = Numbers(0 + 1, Taken(s))
          BY <4>1 DEF Counted
        <5>2. buffer[s] \in Seq(Nat) /\ Len(buffer[s]) = Taken(s)
          <6>1. Taken(s) \in Nat
            BY <2>101
          <6>2. QED
            BY <4>1, <5>1, <6>1, NumbersProperties
        <5>3. SubSeq(buffer[s], 1, Len(buffer[s])) = buffer[s]
          BY <5>2, SubSeqFull
        <5>4. QED
          BY <3>4, <4>1, <5>1, <5>2, <5>3
      <4>3. Taken(s) + n \in Nat /\ Taken(s) <= Taken(s) + n /\ 0 <= Taken(s)
        BY <2>101, <3>4
      <4>4. Numbers(0 + 1, Taken(s)) \o Numbers(Taken(s) + 1, Taken(s) + n)
              = Numbers(0 + 1, Taken(s) + n)
        BY <2>101, <4>3, NumbersConcat
      <4>5. QED
        BY <3>7, <4>1, <4>2, <4>4 DEF Stored
    <3>9. buffer' = [t \in Streams |-> Numbers(1, Taken(t)')]
      BY <3>1, <3>5, <3>8 DEF Counted
    <3>10. wire' = [t \in Streams |-> Numbers(Taken(t)' + 1, Put(t)')]
      BY <3>1, <3>5, <3>7 DEF Counted
    <3>11. ASSUME NEW t \in Streams
           PROVE  /\ Taken(t)' <= Put(t)' /\ Put(t)' <= size'[t]
                  /\ Put(t)' - Taken(t)' <= Window
                  /\ kind' \in ChunkReaders => Taken(t)' <= MessageSize
      <4>1. CASE t = s
        BY <2>101, <3>2, <3>4, <3>5, <3>6, <4>1 DEF Counted
      <4>2. CASE t # s
        BY <2>101, <3>2, <3>5, <4>2 DEF Counted
      <4>3. QED
        BY <4>1, <4>2
    <3>12. QED
      BY <3>9, <3>10, <3>11 DEF Counted
  <2>3. ASSUME NEW s \in Streams, NEW then \in {"shutdown", "done"},
               CountWritten(s, then), then = "shutdown" <=> kind = "halfclose"
        PROVE  Counted'
    <3>1. \A t \in Streams : Put(t)' = Put(t) /\ Taken(t)' = Taken(t)
      BY <2>3 DEF CountWritten, Types, Put, Taken
    <3>2. QED
      BY <2>3, <2>100, <3>1 DEF CountWritten
  <2>4. ASSUME NEW s \in Streams, CountRead(s)
        PROVE  Counted'
    <3>1. \A t \in Streams : Put(t)' = Put(t) /\ Taken(t)' = Taken(t)
      BY <2>4 DEF CountRead, Types, Put, Taken
    <3>2. QED
      BY <2>4, <2>100, <3>1 DEF CountRead
  <2>5. ASSUME AsyncMainReturns
        PROVE  Counted'
    BY <2>5, <2>100 DEF AsyncMainReturns, End, Goto, streamVars, Put, Taken
  <2>6. ASSUME EofTooEarly
        PROVE  Counted'
    BY <2>6, <2>100 DEF EofTooEarly, AtEof, End, Goto, streamVars, Put, Taken
  <2>7. ASSUME PeerFinishes
        PROVE  Counted'
    BY <2>7, <2>100 DEF PeerFinishes, AtEof, End, Goto, streamVars, Put, Taken
  <2>8. ASSUME ClientShutsDown
        PROVE  Counted'
    BY <2>8, <2>100
       DEF ClientShutsDown, ShutDownSend, Goto, streamVars, Put, Taken
  <2>9. ASSUME kind = "halfclose", AtEof("response"), End("client", "done"),
               UNCHANGED <<kind, size, streamVars>>
        PROVE  Counted'
    BY <2>9, <2>100 DEF AtEof, End, Goto, streamVars, Put, Taken
  <2>10. ASSUME kind = "halfclose", AtEof("request"), Goto("server", "write"),
                UNCHANGED <<kind, size, streamVars, eof, reset>>
         PROVE  Counted'
    BY <2>10, <2>100 DEF AtEof, Goto, streamVars, Put, Taken
  <2>11. ASSUME program["server"] = "shutdown", ~reset, End("server", "done"),
                UNCHANGED <<kind, size, streamVars>>
         PROVE  Counted'
    BY <2>11, <2>100 DEF End, Goto, streamVars, Put, Taken
  <2>12. ASSUME NEW p \in Programs, Fail(p)
         PROVE  Counted'
    BY <2>12, <2>100 DEF Fail, End, Goto, streamVars, Put, Taken
  <2>13. ASSUME NEW p \in Programs, Kill(p)
         PROVE  Counted'
    BY <2>13, <2>100 DEF Kill, End, Goto, Ended, streamVars, Put, Taken
  <2>14. ASSUME Break
         PROVE  Counted'
    BY <2>14, <2>100 DEF Break, streamVars, Put, Taken
  <2>15. CASE Finished \/ UNCHANGED vars
    BY <2>15, <2>100 DEF Finished, vars, streamVars, Put, Taken
  <2>16. QED
    BY <2>1, <2>2, <2>3, <2>4, <2>5, <2>6, <2>7, <2>8, <2>9, <2>10, <2>11,
       <2>12, <2>13, <2>14, <2>15
       DEF Next, ProgramStep, SyncWrites, SyncReads, AsyncReads, PeerReads,
           PeerWrites, ChunkReaders, Communicate, ProcessRequest, CountWritten,
           Streams
<1>3. QED
  BY TypesInvariant, <1>1, <1>2, PTL DEF Spec

\* Types; no counter runs past the size of its message or of its buffer, and the
\* buffer holds as many bytes as were counted.
THEOREM TypeCorrect == Spec => []TypeOK
<1>1. Types /\ Counted => TypeOK
  <2> SUFFICES ASSUME Types, Counted, NEW s \in Streams
               PROVE  /\ written[s] + putting[s] \in 0 .. size[s]
                      /\ read[s] + getting[s] \in
                           0 .. IF kind \in ChunkReaders THEN MessageSize ELSE size[s]
                      /\ Len(wire[s]) <= Window
                      /\ Len(buffer[s]) = read[s] + getting[s]
    BY DEF Types, TypeOK
  <2>1. Put(s) \in Nat /\ Taken(s) \in Nat /\ size[s] \in Nat
    BY DEF Types, Put, Taken
  <2>2. Len(wire[s]) = Put(s) - Taken(s)
    BY <2>1, NumbersProperties DEF Counted
  <2>3. Len(buffer[s]) = Taken(s)
    <3>1. Len(Numbers(0 + 1, Taken(s))) = Taken(s) - 0
      BY <2>1, NumbersProperties
    <3>2. QED
      BY <2>1, <3>1 DEF Counted
  <2>4. QED
    BY StreamAssumption, <2>1, <2>2, <2>3 DEF Counted, Put, Taken
<1>2. QED
  BY TypesInvariant, CountedInvariant, <1>1, PTL

\* However the chunks are cut, the reader has the bytes of the message, each once
\* and in order, and what is under way follows them.
THEOREM BytesInOrderHolds == Spec => []BytesInOrder
<1>1. Types /\ Counted => BytesInOrder
  <2> SUFFICES ASSUME Types, Counted, NEW s \in Streams
               PROVE  buffer[s] \o wire[s] = Numbers(1, Len(buffer[s] \o wire[s]))
    BY DEF BytesInOrder
  <2>1. Put(s) \in Nat /\ Taken(s) \in Nat /\ 0 <= Taken(s) /\ Taken(s) <= Put(s)
    BY DEF Types, Counted, Put, Taken
  <2>2. buffer[s] = Numbers(0 + 1, Taken(s)) /\ wire[s] = Numbers(Taken(s) + 1, Put(s))
    BY DEF Counted
  <2>3. buffer[s] \o wire[s] = Numbers(0 + 1, Put(s))
    BY <2>1, <2>2, NumbersConcat
  <2>4. Len(Numbers(0 + 1, Put(s))) = Put(s) - 0
    BY <2>1, NumbersProperties
  <2>5. QED
    BY <2>1, <2>3, <2>4
<1>2. QED
  BY TypesInvariant, CountedInvariant, <1>1, PTL
-----------------------------------------------------------------------------
(* The end of the stream                                                   *)

\* Whoever has shut down or closed has written everything, was killed, or has met a
\* broken connection; and whoever has seen the end has the whole message.
LEMMA PhasesInvariant == Spec => []Phases
<1> USE DEF Streams, Programs, Writer, Reader, Inbound, Outbound, Ended
<1>1. Init => Phases
  BY DEF Init, Message, ChunkReaders, Phases, EofMeansWhole
<1>2. Types /\ Counted /\ Phases /\ [Next]_vars => Phases'
  <2> SUFFICES ASSUME Types, Counted, Phases, [Next]_vars PROVE Phases'
    OBVIOUS
  \* The end of a stream is seen, the message was written out, none is under way.
  <2>100. ASSUME NEW s \in Streams, AtEof(s), WrittenOut(s)
          PROVE  buffer[s] = Numbers(1, size[s])
    <3>1. Put(s) \in Nat /\ Taken(s) \in Nat /\ Taken(s) <= Put(s)
      BY DEF Types, Counted, Put, Taken
    <3>2. wire[s] = <<>> /\ Put(s) = size[s]
      BY <2>100 DEF AtEof, WrittenOut, Types, Put
    <3>3. Taken(s) = Put(s)
      BY <3>1, <3>2, NumbersEmpty DEF Counted
    <3>4. QED
      BY <3>2, <3>3 DEF Counted
  <2>1. ASSUME NEW s \in Streams, WriteSome(s)
        PROVE  Phases'
    BY <2>1 DEF WriteSome, Types, Phases, WrittenOut, EofMeansWhole
  <2>2. ASSUME NEW s \in Streams, ReadSome(s)
        PROVE  Phases'
    BY <2>2 DEF ReadSome, Types, Phases, WrittenOut, EofMeansWhole
  <2>3. ASSUME NEW s \in Streams, NEW then \in {"shutdown", "done"},
               CountWritten(s, then), then = "shutdown" <=> kind = "halfclose"
        PROVE  Phases'
    BY <2>3
       DEF CountWritten, End, Goto, Types, Phases, WrittenOut, EofMeansWhole
  <2>4. ASSUME NEW s \in Streams, CountRead(s)
        PROVE  Phases'
    BY <2>4
       DEF CountRead, End, Goto, Types, Phases, WrittenOut, EofMeansWhole,
           ChunkReaders
  <2>5. ASSUME AsyncMainReturns
        PROVE  Phases'
    BY <2>5
       DEF AsyncMainReturns, End, Goto, streamVars, Types, Phases, WrittenOut,
           EofMeansWhole
  <2>6. ASSUME EofTooEarly
        PROVE  Phases'
    <3>1. kind' # "halfclose"
      BY <2>6 DEF EofTooEarly, ChunkReaders
    <3>2. QED
      BY <3>1 DEF Phases
  <2>7. ASSUME PeerFinishes
        PROVE  Phases'
    <3>1. kind' # "halfclose"
      BY <2>7 DEF PeerFinishes, ChunkWriters
    <3>2. QED
      BY <3>1 DEF Phases
  <2>8. ASSUME ClientShutsDown
        PROVE  Phases'
    BY <2>8
       DEF ClientShutsDown, ShutDownSend, Goto, streamVars, Types, Phases,
           WrittenOut, EofMeansWhole
  <2>9. ASSUME kind = "halfclose", AtEof("response"), End("client", "done"),
               UNCHANGED <<kind, size, streamVars>>
        PROVE  Phases'
    <3>1. \/ program["server"] = "done" /\ WrittenOut("response")
          \/ program["server"] = "killed"
      BY <2>9 DEF AtEof, Phases
    <3>2. buffer["response"] = Numbers(1, size["response"]) \/ program["server"] = "killed"
      BY <2>9, <3>1, <2>100 DEF Types
    <3>3. program["client"] = "read"
      BY <2>9 DEF AtEof
    <3>4. QED
      BY <2>9, <3>2, <3>3
         DEF End, Goto, streamVars, Types, Phases, WrittenOut, EofMeansWhole
  <2>10. ASSUME kind = "halfclose", AtEof("request"), Goto("server", "write"),
                UNCHANGED <<kind, size, streamVars, eof, reset>>
         PROVE  Phases'
    <3>1. \/ program["client"] \in {"read", "done"} /\ WrittenOut("request")
          \/ program["client"] = "killed"
      BY <2>10 DEF AtEof, Phases
    <3>2. \/ buffer["request"] = Numbers(1, size["request"])
          \/ program["client"] = "killed"
      BY <2>10, <3>1, <2>100
    <3>3. program["server"] = "read"
      BY <2>10 DEF AtEof
    <3>4. QED
      BY <2>10, <3>2, <3>3
         DEF Goto, streamVars, Types, Phases, WrittenOut, EofMeansWhole
  <2>11. ASSUME program["server"] = "shutdown", ~reset, End("server", "done"),
                UNCHANGED <<kind, size, streamVars>>
         PROVE  Phases'
    BY <2>11 DEF End, Goto, streamVars, Types, Phases, WrittenOut, EofMeansWhole
  <2>12. ASSUME NEW p \in Programs, Fail(p)
         PROVE  Phases'
    BY <2>12
       DEF Fail, End, Goto, streamVars, Types, Phases, WrittenOut, EofMeansWhole
  <2>13. ASSUME NEW p \in Programs, Kill(p)
         PROVE  Phases'
    BY <2>13
       DEF Kill, End, Goto, Ended, streamVars, Types, Phases, WrittenOut,
           EofMeansWhole
  <2>14. ASSUME Break
         PROVE  Phases'
    BY <2>14 DEF Break, streamVars, Types, Phases, WrittenOut, EofMeansWhole
  <2>15. CASE Finished \/ UNCHANGED vars
    BY <2>15
       DEF Finished, vars, streamVars, Types, Phases, WrittenOut, EofMeansWhole
  <2>16. QED
    BY <2>1, <2>2, <2>3, <2>4, <2>5, <2>6, <2>7, <2>8, <2>9, <2>10, <2>11,
       <2>12, <2>13, <2>14, <2>15
       DEF Next, ProgramStep, SyncWrites, SyncReads, AsyncReads, PeerReads,
           PeerWrites, ChunkReaders, Communicate, ProcessRequest, CountWritten,
           Streams
<1>3. QED
  BY TypesInvariant, CountedInvariant, <1>1, <1>2, PTL DEF Spec

\* The end of the stream means "all data was transfered", unless the program at the
\* other end was killed.
THEOREM EofMeansWholeHolds == Spec => []EofMeansWhole
<1>1. Phases => EofMeansWhole
  BY DEF Phases, EofMeansWhole
<1>2. QED
  BY PhasesInvariant, <1>1, PTL
=============================================================================
