--------------------------- MODULE ChannelProofs ----------------------------
(***************************************************************************)
(* Type correctness of a channel, the invariant that its stream is cut at  *)
(* frames, and that it implements the exchange it promises, for every set  *)
(* of payloads, every capacity of the buffers and every number of calls.   *)
(***************************************************************************)
EXTENDS Channel, SequenceTheorems, TLAPS

(* `payload.len() as u32` loses nothing.  The last two results need it; a  *)
(* longer payload is what the run channel_length is about.                 *)
PayloadsFit == \A payload \in Payloads : Len(payload) < HeaderMod

LEMMA Ends ==
  /\ \A p \in Party : Peer(p) \in Party /\ Peer(p) # p /\ Peer(Peer(p)) = p
  /\ \A p, r \in Party : r = p \/ r = Peer(p)
BY DEF Party, Peer

-----------------------------------------------------------------------------
(* Sequences of cells.                                                     *)

LEMMA MoveOne ==
  ASSUME NEW S, NEW s \in Seq(S), NEW t \in Seq(S), t # <<>>
  PROVE  /\ Append(s, Head(t)) \o Tail(t) = s \o t
         /\ <<Head(t)>> \o Tail(t) = t
<1>1. /\ Head(t) \in S /\ Tail(t) \in Seq(S) /\ Len(Tail(t)) = Len(t) - 1
      /\ \A i \in 1 .. Len(Tail(t)) : Tail(t)[i] = t[i + 1]
  BY HeadTailProperties
<1>2. <<Head(t)>> \in Seq(S) /\ Len(<<Head(t)>>) = 1 /\ <<Head(t)>>[1] = t[1]
  BY <1>1
<1>3. Len(t) \in Nat /\ Len(t) # 0
  BY EmptySeq, LenProperties
<1>4. <<Head(t)>> \o Tail(t) = t
  <2>1. /\ <<Head(t)>> \o Tail(t) \in Seq(S)
        /\ Len(<<Head(t)>> \o Tail(t)) = Len(t)
        /\ \A i \in 1 .. Len(t) : (<<Head(t)>> \o Tail(t))[i] =
              IF i <= 1 THEN <<Head(t)>>[i] ELSE Tail(t)[i - 1]
    BY <1>1, <1>2, <1>3, ConcatProperties
  <2>2. ASSUME NEW i \in 1 .. Len(t) PROVE (<<Head(t)>> \o Tail(t))[i] = t[i]
    <3>1. CASE i = 1
      BY <1>2, <1>3, <2>1, <3>1
    <3>2. CASE i # 1
      <4>1. i - 1 \in 1 .. Len(Tail(t)) /\ (i - 1) + 1 = i /\ ~(i <= 1)
        BY <1>1, <1>3, <3>2
      <4> QED BY <1>1, <2>1, <4>1
    <3> QED BY <3>1, <3>2
  <2> QED BY <2>1, <2>2, SeqEqual
<1>5. Append(s, Head(t)) = s \o <<Head(t)>>
  BY <1>1, AppendIsConcat
<1> QED BY <1>1, <1>2, <1>4, <1>5, ConcatAssociative

(* Concatenation, to be reasoned about by its laws alone.                  *)
s ++ t == s \o t
Single(c) == <<c>>

LEMMA Cells ==
  /\ <<>> \in Seq(Cell)
  /\ \A c \in Cell : Single(c) \in Seq(Cell) /\ Len(Single(c)) = 1 /\ Single(c)[1] = c
  /\ \A s, t \in Seq(Cell) : s ++ t \in Seq(Cell) /\ Len(s ++ t) = Len(s) + Len(t)
  /\ \A s \in Seq(Cell) : /\ Len(s) \in Nat
                          /\ s # <<>> => Len(s) # 0
                          /\ s # <<>> => Head(s) \in Cell /\ Tail(s) \in Seq(Cell)
                          /\ s ++ <<>> = s /\ <<>> ++ s = s
  /\ \A s \in Seq(Cell), c \in Cell : Append(s, c) \in Seq(Cell)
<1>1. <<>> \in Seq(Cell)
  BY EmptySeq
<1>2. \A c \in Cell : Single(c) \in Seq(Cell) /\ Len(Single(c)) = 1 /\ Single(c)[1] = c
  BY DEF Single
<1>3. ASSUME NEW s \in Seq(Cell), NEW t \in Seq(Cell)
      PROVE  s ++ t \in Seq(Cell) /\ Len(s ++ t) = Len(s) + Len(t)
  BY ConcatProperties DEF ++
<1>4. ASSUME NEW s \in Seq(Cell)
      PROVE  /\ Len(s) \in Nat
             /\ s # <<>> => Len(s) # 0
             /\ s # <<>> => Head(s) \in Cell /\ Tail(s) \in Seq(Cell)
             /\ s ++ <<>> = s /\ <<>> ++ s = s
  BY EmptySeq, LenProperties, HeadTailProperties, ConcatEmptySeq DEF ++
<1>5. ASSUME NEW s \in Seq(Cell), NEW c \in Cell PROVE Append(s, c) \in Seq(Cell)
  BY AppendProperties
<1> QED BY <1>1, <1>2, <1>3, <1>4, <1>5

LEMMA Assoc == \A r, s, t \in Seq(Cell) : r ++ s ++ t = r ++ (s ++ t)
BY ConcatAssociative DEF ++

LEMMA Frames ==
  ASSUME ChannelAssumption, NEW m \in Payloads
  PROVE  /\ m \in Seq(Cell) /\ Len(m) \in Nat
         /\ Len(m) % HeaderMod \in Cell
         /\ Frame(m) \in Seq(Cell)
         /\ PayloadsFit => Frame(m) = Single(Len(m)) ++ m /\ Len(m) \in Cell
<1>1. m \in Seq(Cell) /\ HeaderMod \in Nat \ {0}
  BY DEF ChannelAssumption
<1>2. Len(m) \in Nat
  BY <1>1, Cells
<1>3. Len(m) % HeaderMod \in Cell
  BY <1>1, <1>2 DEF Cell
<1>4. Frame(m) \in Seq(Cell)
  BY <1>1, <1>3, Cells DEF Frame, ++, Single
<1>5. PayloadsFit => Len(m) % HeaderMod = Len(m)
  BY <1>1, <1>2 DEF PayloadsFit
<1> QED BY <1>1, <1>2, <1>3, <1>4, <1>5 DEF Frame, ++, Single

(* What the frames still to come are, by how far the writer is ahead.      *)
LEMMA NextFrames ==
  ASSUME ChannelAssumption, NEW s \in Seq(Payloads), NEW n \in Nat,
         Len(s) - n \in 0 .. 2
  PROVE  /\ FramesAfter(n, s) \in Seq(Cell)
         /\ Len(s) = n <=> FramesAfter(n, s) = <<>>
         /\ Len(s) # n => /\ n + 1 \in 1 .. Len(s) /\ s[n + 1] \in Payloads
                          /\ Len(s) - (n + 1) \in 0 .. 1
                          /\ FramesAfter(n + 1, s) \in Seq(Cell)
                          /\ FramesAfter(n, s) = Frame(s[n + 1]) ++ FramesAfter(n + 1, s)
<1>1. Len(s) \in Nat /\ \A i \in 1 .. Len(s) : s[i] \in Payloads
  BY LenProperties, ElementOfSeq
<1>2. \A i \in 1 .. Len(s) : Frame(s[i]) \in Seq(Cell) /\ Len(Frame(s[i])) # 0
  <2> SUFFICES ASSUME NEW i \in 1 .. Len(s)
               PROVE  Frame(s[i]) \in Seq(Cell) /\ Len(Frame(s[i])) # 0
    OBVIOUS
  <2>1. PICK m \in Payloads : m = s[i]
    BY <1>1
  <2>2. m \in Seq(Cell) /\ Len(m) \in Nat /\ Len(m) % HeaderMod \in Cell
    BY Frames
  <2>3. Frame(m) \in Seq(Cell)
    BY Frames
  <2>4. Len(Frame(m)) = 1 + Len(m)
    BY <2>2, Cells DEF Frame, ++, Single
  <2> QED BY <2>1, <2>2, <2>3, <2>4
<1>3. CASE Len(s) = n
  BY <1>3, Cells DEF FramesAfter, ++
<1>4. CASE Len(s) = n + 1
  <2>1. n + 1 \in 1 .. Len(s) /\ Len(s) # n /\ Len(s) - (n + 1) = 0
    BY <1>1, <1>4
  <2>2. FramesAfter(n, s) = Frame(s[n + 1]) /\ FramesAfter(n + 1, s) = <<>>
    BY <1>4, <2>1 DEF FramesAfter, ++
  <2>3. Frame(s[n + 1]) \in Seq(Cell) /\ Len(Frame(s[n + 1])) # 0
    BY <1>2, <2>1
  <2>4. Frame(s[n + 1]) # <<>>
    BY <2>3
  <2>5. Frame(s[n + 1]) = Frame(s[n + 1]) ++ <<>>
    BY <2>3, Cells
  <2>6. s[n + 1] \in Payloads /\ Len(s) - (n + 1) \in 0 .. 1
    BY <1>1, <2>1
  <2>7. PICK f \in Seq(Cell) : f = FramesAfter(n, s) /\ f # <<>>
    BY <2>2, <2>3, <2>4
  <2>8. FramesAfter(n + 1, s) \in Seq(Cell) /\ f = Frame(s[n + 1]) ++ FramesAfter(n + 1, s)
    BY <2>2, <2>5, <2>7, Cells
  <2> QED BY <2>1, <2>6, <2>7, <2>8
<1>5. CASE Len(s) = n + 2
  <2>1. /\ n + 1 \in 1 .. Len(s) /\ n + 2 \in 1 .. Len(s) /\ (n + 1) + 1 = n + 2
        /\ Len(s) # n /\ Len(s) # n + 1 /\ Len(s) - (n + 1) = 1 /\ Len(s) = (n + 1) + 1
    BY <1>1, <1>5
  <2>2. /\ FramesAfter(n, s) = Frame(s[n + 1]) ++ Frame(s[n + 2])
        /\ FramesAfter(n + 1, s) = Frame(s[n + 2])
    BY <1>5, <2>1 DEF FramesAfter, ++
  <2>3. PICK a \in Seq(Cell) : a = Frame(s[n + 1]) /\ Len(a) # 0
    BY <1>2, <2>1
  <2>4. PICK b \in Seq(Cell) : b = Frame(s[n + 2])
    BY <1>2, <2>1
  <2>5. a ++ b \in Seq(Cell) /\ Len(a ++ b) = Len(a) + Len(b) /\ Len(a) \in Nat /\ Len(b) \in Nat
    BY Cells
  <2>6. a ++ b # <<>>
    BY <2>3, <2>5, EmptySeq
  <2>7. s[n + 1] \in Payloads /\ Len(s) - (n + 1) \in 0 .. 1
    BY <1>1, <2>1
  <2>8. PICK f \in Seq(Cell) : f = FramesAfter(n, s) /\ f # <<>>
    BY <2>2, <2>3, <2>4, <2>5, <2>6
  <2>9. FramesAfter(n + 1, s) \in Seq(Cell) /\ f = Frame(s[n + 1]) ++ FramesAfter(n + 1, s)
    BY <2>2, <2>3, <2>4, <2>8
  <2> QED BY <2>1, <2>7, <2>8, <2>9
<1> QED BY <1>1, <1>3, <1>4, <1>5

LEMMA MoreFrames ==
  ASSUME ChannelAssumption, NEW s \in Seq(Payloads), NEW n \in Nat, NEW m \in Payloads,
         Len(s) - n \in 0 .. 1
  PROVE  FramesAfter(n, Append(s, m)) = FramesAfter(n, s) ++ Frame(m)
<1>1. /\ Len(s) \in Nat /\ Len(Append(s, m)) = Len(s) + 1
      /\ \A i \in 1 .. Len(s) : Append(s, m)[i] = s[i]
      /\ Append(s, m)[Len(s) + 1] = m
  BY LenProperties, AppendProperties
<1>2. Frame(m) \in Seq(Cell)
  BY Frames
<1>3. CASE Len(s) = n
  BY <1>1, <1>2, <1>3, Cells DEF FramesAfter, ++
<1>4. CASE Len(s) = n + 1
  <2>1. /\ n + 1 \in 1 .. Len(s) /\ Len(s) + 1 = n + 2 /\ Len(s) # n
        /\ Len(Append(s, m)) # n /\ Len(Append(s, m)) # n + 1
    BY <1>1, <1>4
  <2>2. Append(s, m)[n + 1] = s[n + 1] /\ Append(s, m)[n + 2] = m
    BY <1>1, <2>1
  <2> QED BY <1>4, <2>1, <2>2 DEF FramesAfter, ++
<1> QED BY <1>1, <1>3, <1>4

(* What the steps of the two threads do to the stream of one direction:    *)
(* read, wire, unsent and lost are its parts in the order of their cells.  *)
LEMMA Streamed ==
  ASSUME NEW r \in Seq(Cell), NEW w \in Seq(Cell), NEW u \in Seq(Cell), NEW l \in Seq(Cell)
  PROVE  /\ r ++ w ++ u ++ l \in Seq(Cell)
         /\ r ++ w ++ <<>> ++ (u ++ l) = r ++ w ++ u ++ l
         /\ r ++ w ++ u ++ l = r ++ (w ++ u ++ l)
<1>1. /\ r ++ w \in Seq(Cell) /\ w ++ u \in Seq(Cell) /\ u ++ l \in Seq(Cell)
      /\ r ++ w ++ u \in Seq(Cell) /\ w ++ u ++ l \in Seq(Cell)
  BY Cells
<1>2. r ++ w ++ u ++ l \in Seq(Cell)
  BY <1>1, Cells
<1>3. r ++ w ++ <<>> = r ++ w
  BY <1>1, Cells
<1>4. r ++ w ++ (u ++ l) = r ++ w ++ u ++ l
  BY <1>1, Assoc
<1>5. r ++ w ++ u ++ l = r ++ (w ++ u ++ l)
  <2>1. r ++ w ++ u = r ++ (w ++ u)
    BY Assoc
  <2>2. r ++ (w ++ u) ++ l = r ++ (w ++ u ++ l)
    BY <1>1, Assoc
  <2> QED BY <2>1, <2>2
<1> QED BY <1>2, <1>3, <1>4, <1>5

(* The first cell of u moves to the end of w, which makes them t and a.    *)
Moves(w, u, a, t) == u # <<>> /\ a = Append(w, Head(u)) /\ t = Tail(u)

LEMMA Moved ==
  \A r, w, u, l, a, t \in Seq(Cell) :
    Moves(w, u, a, t) => r ++ a ++ t ++ l = r ++ w ++ u ++ l
<1> SUFFICES ASSUME NEW r \in Seq(Cell), NEW w \in Seq(Cell), NEW u \in Seq(Cell),
                    NEW l \in Seq(Cell), NEW a \in Seq(Cell), NEW t \in Seq(Cell),
                    Moves(w, u, a, t)
             PROVE  r ++ a ++ t ++ l = r ++ w ++ u ++ l
  OBVIOUS
<1>1. a ++ t = w ++ u
  BY MoveOne DEF Moves, ++
<1>2. r ++ a ++ t = r ++ (a ++ t)
  BY Assoc
<1>3. r ++ w ++ u = r ++ (w ++ u)
  BY Assoc
<1> QED BY <1>1, <1>2, <1>3

(* A cell leaves a wire and is, or joins, what has been read.              *)
Leaves(w, c, t) == w # <<>> /\ c = Head(w) /\ t = Tail(w)

LEMMA FirstMoved ==
  \A w, u, l, t \in Seq(Cell), c \in Cell :
    Leaves(w, c, t)
      => (Single(c) ++ <<>>) ++ t ++ u ++ l = <<>> ++ w ++ u ++ l
<1> SUFFICES ASSUME NEW w \in Seq(Cell), NEW u \in Seq(Cell), NEW l \in Seq(Cell),
                    NEW t \in Seq(Cell), NEW c \in Cell,
                    Leaves(w, c, t)
             PROVE  (Single(c) ++ <<>>) ++ t ++ u ++ l = <<>> ++ w ++ u ++ l
  OBVIOUS
<1>1. Single(c) ++ t = w
  BY MoveOne, EmptySeq DEF ++, Single, Leaves
<1>2. Single(c) ++ <<>> = Single(c) /\ <<>> ++ w = w
  BY Cells
<1> QED BY <1>1, <1>2

LEMMA NextMoved ==
  \A w, u, l, t, b, a \in Seq(Cell), c \in Cell :
    Moves(b, w, a, t) => (Single(c) ++ a) ++ t ++ u ++ l = (Single(c) ++ b) ++ w ++ u ++ l
<1> SUFFICES ASSUME NEW w \in Seq(Cell), NEW u \in Seq(Cell), NEW l \in Seq(Cell),
                    NEW t \in Seq(Cell), NEW b \in Seq(Cell), NEW a \in Seq(Cell),
                    NEW c \in Cell, Moves(b, w, a, t)
             PROVE  (Single(c) ++ a) ++ t ++ u ++ l = (Single(c) ++ b) ++ w ++ u ++ l
  OBVIOUS
<1>1. PICK h \in Seq(Cell) : h = Single(c)
  BY Cells
<1>2. h ++ a ++ t ++ u = h ++ b ++ w ++ u
  BY Moved
<1> QED BY <1>1, <1>2

(* Two streams that agree and start with parts of the same length start    *)
(* with the same part.                                                     *)
LEMMA SameFront ==
  ASSUME NEW s \in Seq(Cell), NEW x \in Seq(Cell), NEW t \in Seq(Cell), NEW y \in Seq(Cell),
         s ++ x = t ++ y, Len(s) = Len(t)
  PROVE  s = t /\ x = y
<1>1. Len(s) \in Nat /\ Len(x) \in Nat /\ Len(t) \in Nat /\ Len(y) \in Nat
  BY Cells
<1>2. \A i \in 1 .. Len(s) + Len(x) : (s ++ x)[i] = IF i <= Len(s) THEN s[i] ELSE x[i - Len(s)]
  BY ConcatProperties DEF ++
<1>3. \A i \in 1 .. Len(t) + Len(y) : (t ++ y)[i] = IF i <= Len(t) THEN t[i] ELSE y[i - Len(t)]
  BY ConcatProperties DEF ++
<1>4. ASSUME NEW i \in 1 .. Len(s) PROVE s[i] = t[i]
  <2>1. i \in 1 .. Len(s) + Len(x) /\ i \in 1 .. Len(t) + Len(y) /\ i <= Len(s) /\ i <= Len(t)
    BY <1>1
  <2> QED BY <1>2, <1>3, <2>1
<1>5. s = t
  BY <1>4, SeqEqual
<1> QED BY <1>5, ConcatSimplifications DEF ++

LEMMA ReadPart ==
  ASSUME NEW b \in Seq(Cell), NEW h \in Seq(Cell), Len(h) = 1,
         NEW w \in Seq(Cell), NEW u \in Seq(Cell), NEW l \in Seq(Cell)
  PROVE  /\ w ++ u ++ l \in Seq(Cell)
         /\ <<>> ++ w ++ u ++ l = w ++ u ++ l
         /\ h ++ b ++ w ++ u ++ l = h ++ b ++ (w ++ u ++ l)
         /\ h ++ b ++ w ++ u ++ l # <<>>
<1>1. w ++ u ++ l \in Seq(Cell)
  <2>1. w ++ u \in Seq(Cell)
    BY Cells
  <2> QED BY <2>1, Cells
<1>2. h ++ b \in Seq(Cell) /\ Len(h ++ b) = Len(h) + Len(b)
  BY Cells
<1>3. PICK r \in Seq(Cell) : r = h ++ b
  BY <1>2
<1>4. r ++ w ++ u ++ l = r ++ (w ++ u ++ l)
  BY Streamed
<1>5. r ++ (w ++ u ++ l) # <<>>
  <2>1. Len(r ++ (w ++ u ++ l)) = Len(r) + Len(w ++ u ++ l)
    BY <1>1, Cells
  <2>2. Len(w ++ u ++ l) \in Nat /\ Len(b) \in Nat
    BY <1>1, Cells
  <2>3. Len(r ++ (w ++ u ++ l)) # 0
    BY <1>2, <1>3, <2>1, <2>2
  <2> QED BY <2>3, EmptySeq
<1>6. <<>> ++ w = w
  BY Cells
<1> QED BY <1>1, <1>3, <1>4, <1>5, <1>6

(* A call that has read as many cells as the header announced has read the *)
(* next message of the peer, and the rest of the stream is what follows it.*)
LEMMA MessageRead ==
  ASSUME ChannelAssumption, PayloadsFit,
         NEW s \in Seq(Payloads), NEW n \in Nat, Len(s) - n \in 0 .. 2,
         NEW b \in Seq(Cell), NEW c \in Cell,
         NEW w \in Seq(Cell), NEW u \in Seq(Cell), NEW l \in Seq(Cell),
         (Single(c) ++ b) ++ w ++ u ++ l = FramesAfter(n, s)
  PROVE  /\ n < Len(s)
         /\ c = Len(s[n + 1])
         /\ Len(b) = c => b = s[n + 1] /\ <<>> ++ w ++ u ++ l = FramesAfter(n + 1, s)
         /\ Len(b) < c => w ++ u ++ l # <<>>
<1>1. PICK h \in Seq(Cell) : h = Single(c) /\ Len(h) = 1 /\ h[1] = c
  BY Cells
<1>2. /\ w ++ u ++ l \in Seq(Cell)
      /\ <<>> ++ w ++ u ++ l = w ++ u ++ l
      /\ h ++ b ++ w ++ u ++ l = h ++ b ++ (w ++ u ++ l)
      /\ h ++ b ++ w ++ u ++ l # <<>>
  BY <1>1, ReadPart
<1>3. PICK x \in Seq(Cell) : x = w ++ u ++ l
  BY <1>2
<1>4. Len(s) \in Nat /\ Len(s) # n
  BY <1>1, <1>2, LenProperties, NextFrames
<1>5. /\ s[n + 1] \in Payloads /\ FramesAfter(n + 1, s) \in Seq(Cell)
      /\ FramesAfter(n, s) = Frame(s[n + 1]) ++ FramesAfter(n + 1, s)
  BY <1>4, NextFrames
<1>6. PICK m \in Payloads : m = s[n + 1]
  BY <1>5
<1>7. PICK y \in Seq(Cell) : y = FramesAfter(n + 1, s)
  BY <1>5
<1>8. m \in Seq(Cell) /\ Len(m) \in Cell /\ Frame(m) = Single(Len(m)) ++ m
  BY Frames
<1>9. PICK k \in Seq(Cell) : k = Single(Len(m)) /\ Len(k) = 1 /\ k[1] = Len(m)
  BY <1>8, Cells
<1>10. PICK z \in Seq(Cell) : z = m
  BY <1>8
<1>11. h ++ b ++ x = k ++ z ++ y
  BY <1>1, <1>2, <1>3, <1>5, <1>6, <1>7, <1>8, <1>9, <1>10
<1>12. Len(h) = 1 /\ Len(k) = 1
  BY <1>1, <1>9
<1>13. h = k /\ b ++ x = z ++ y
  <2>1. PICK v \in Seq(Cell), t \in Seq(Cell) : v = b ++ x /\ t = z ++ y
    BY Cells
  <2>2. h ++ b ++ x = h ++ v
    BY <2>1, Assoc
  <2>3. k ++ z ++ y = k ++ t
    BY <2>1, Assoc
  <2>4. h ++ v = k ++ t
    BY <1>11, <2>2, <2>3
  <2>5. h = k /\ v = t
    BY <1>12, <2>4, SameFront
  <2> QED BY <2>1, <2>5
<1>14. Len(b) = Len(z) => b = z /\ x = y
  BY <1>13, SameFront
<1>15. ASSUME Len(b) < Len(z), x = <<>> PROVE FALSE
  <2>1. b = z ++ y
    BY <1>13, <1>15, Cells
  <2>2. Len(z ++ y) = Len(z) + Len(y) /\ Len(y) \in Nat /\ Len(z) \in Nat
    BY Cells
  <2> QED BY <1>15, <2>1, <2>2
<1>16. n < Len(s)
  BY <1>4
<1>17. c = Len(m)
  BY <1>1, <1>9, <1>13
<1> QED BY <1>2, <1>3, <1>6, <1>7, <1>10, <1>14, <1>15, <1>16, <1>17

-----------------------------------------------------------------------------
(* Type correctness.                                                       *)

LEMMA InitTypeOK == ChannelAssumption /\ Init => TypeOK
<1> SUFFICES ASSUME ChannelAssumption, Init PROVE TypeOK
  OBVIOUS
<1>1. 0 \in Cell /\ <<>> \in Seq(Cell) /\ <<>> \in Seq(Payloads) /\ <<>> \in Seq(Seq(Cell))
  BY EmptySeq DEF ChannelAssumption, Cell
<1>2. Len(<<>>) <= Capacity
  BY EmptySeq DEF ChannelAssumption
<1> QED BY <1>1, <1>2 DEF Init, TypeOK, Phases

LEMMA StepTypeOK ==
  ASSUME ChannelAssumption, TypeOK, [Next]_vars
  PROVE  TypeOK'
<1> USE DEF TypeOK, Phases
<1>0. Capacity \in Nat /\ \A p \in Party : Len(wire[p]) \in Nat
  BY Cells DEF ChannelAssumption
<1>1. ASSUME NEW p \in Party, NEW payload \in Payloads, Begin(p, payload) PROVE TypeOK'
  <2>1. Frame(payload) \in Seq(Cell) /\ Append(sent[p], payload) \in Seq(Payloads)
    BY <1>1, Frames, AppendProperties
  <2> QED BY <1>1, <2>1 DEF Begin
<1>2. ASSUME NEW p \in Party, Write(p) PROVE TypeOK'
  <2>1. Head(unsent[p]) \in Cell /\ Tail(unsent[p]) \in Seq(Cell)
    BY <1>2, Cells DEF Write
  <2>2. /\ Append(wire[p], Head(unsent[p])) \in Seq(Cell)
        /\ Len(Append(wire[p], Head(unsent[p]))) = Len(wire[p]) + 1
    BY <2>1, AppendProperties
  <2>3. Len(Append(wire[p], Head(unsent[p]))) <= Capacity
    BY <1>0, <1>2, <2>2 DEF Write
  <2> QED BY <1>2, <2>1, <2>2, <2>3 DEF Write
<1>3. ASSUME NEW p \in Party, FinishWriting(p) PROVE TypeOK'
  BY <1>3 DEF FinishWriting
<1>4. ASSUME NEW p \in Party, FailWriting(p) PROVE TypeOK'
  BY <1>4, Cells DEF FailWriting
<1>5. ASSUME NEW p \in Party, wire[Peer(p)] # <<>>
      PROVE  /\ Head(wire[Peer(p)]) \in Cell /\ Tail(wire[Peer(p)]) \in Seq(Cell)
             /\ Len(Tail(wire[Peer(p)])) <= Capacity
  <2>1. Peer(p) \in Party
    BY Ends
  <2>2. /\ Head(wire[Peer(p)]) \in Cell /\ Tail(wire[Peer(p)]) \in Seq(Cell)
        /\ Len(Tail(wire[Peer(p)])) = Len(wire[Peer(p)]) - 1
    BY <1>5, <2>1, HeadTailProperties
  <2> QED BY <1>0, <2>1, <2>2
<1>6. ASSUME NEW p \in Party, ReadHeader(p) PROVE TypeOK'
  BY <1>5, <1>6, Ends, Cells DEF ReadHeader, Take
<1>7. ASSUME NEW p \in Party, ReadBody(p) PROVE TypeOK'
  <2>1. wire[Peer(p)] # <<>>
    BY <1>7 DEF ReadBody
  <2>2. Append(buffer[p], Head(wire[Peer(p)])) \in Seq(Cell)
    BY <1>5, <2>1, AppendProperties
  <2> QED BY <1>5, <1>7, <2>1, <2>2, Ends DEF ReadBody, Take
<1>8. ASSUME NEW p \in Party, FailReading(p) PROVE TypeOK'
  BY <1>8 DEF FailReading
<1>9. ASSUME NEW p \in Party, Unwind(p) PROVE TypeOK'
  BY <1>9 DEF Unwind
<1>10. ASSUME NEW p \in Party, Join(p) PROVE TypeOK'
  <2>1. Append(got[p], buffer[p]) \in Seq(Seq(Cell))
    BY AppendProperties
  <2> QED BY <1>10, <2>1 DEF Join
<1>11. ASSUME NEW p \in Party, Close(p) PROVE TypeOK'
  BY <1>11 DEF Close
<1>12. ASSUME NEW p \in Party, Crash(p) PROVE TypeOK'
  BY <1>12, Cells DEF Crash
<1>13. CASE UNCHANGED vars
  BY <1>13 DEF vars
<1> QED
  BY <1>1, <1>2, <1>3, <1>4, <1>6, <1>7, <1>8, <1>9, <1>10, <1>11, <1>12, <1>13
  DEF Next, Caller, Helper, Reader, Over

(* Every variable of a channel keeps its type, and no direction ever holds *)
(* more than its buffers do (net.rs:69-85).                                *)
THEOREM ChannelIsTyped == Spec => []TypeOK
<1>1. ChannelAssumption /\ Init => TypeOK
  BY InitTypeOK
<1>2. ChannelAssumption /\ TypeOK /\ [Next]_vars => TypeOK'
  BY StepTypeOK
<1> QED BY <1>1, <1>2, ChannelAssumption, PTL DEF Spec

-----------------------------------------------------------------------------
(* The invariant.  A call sends before it returns, so the two counts of a  *)
(* party and those of the two parties stay within one call of each other.  *)
Counted(p) ==
  /\ phase[p] = "between" => Len(sent[p]) = Len(got[p])
  /\ phase[p] \in {"header", "body", "unwind", "broken"} => Len(sent[p]) = Len(got[p]) + 1
  /\ Len(got[p]) \in {Len(sent[p]) - 1, Len(sent[p])}
  /\ Len(got[p]) <= Len(sent[Peer(p)])

(* A peer that is gone and leaves p without an answer or unheard.          *)
LeftBehind(p) ==
  LET q == Peer(p)
  IN  \/ phase[q] = "crashed"
      \/ phase[q] = "closed" /\ (Len(sent[q]) <= Len(got[p]) \/ Len(got[q]) < Len(sent[p]))

(* The helper lives as long as its call; it fails only if the peer is gone *)
(* without having taken what it had to write.                              *)
Threads(p) ==
  /\ (helper[p] = "none") <=> (phase[p] \in {"between", "broken", "closed", "crashed"})
  /\ helper[p] # "writing" => unsent[p] = <<>>
  /\ phase[p] = "body" => Len(buffer[p]) <= expected[p]
  /\ helper[p] = "failed" => Gone(Peer(p)) /\ Len(got[Peer(p)]) < Len(sent[p])
  /\ phase[p] = "unwind" => LeftBehind(p)

(* Where p has returned every message of its peer, nothing is under way.   *)
Settled(p) ==
  Len(got[p]) = Len(sent[Peer(p)]) => wire[Peer(p)] = <<>> /\ unsent[Peer(p)] = <<>>

(* What p has read of a frame, what is on the wire, what the helper of the *)
(* peer holds and what a kill has lost are the frames p has not returned.  *)
ReadSoFar(p) == IF phase[p] = "body" THEN Single(expected[p]) ++ buffer[p] ELSE <<>>

Stream(p, lost) ==
  ReadSoFar(p) ++ wire[Peer(p)] ++ unsent[Peer(p)] ++ lost
    = FramesAfter(Len(got[p]), sent[Peer(p)])

Listening(p) == phase[p] \in {"between", "header", "body"}

Flows(p) ==
  Listening(p) =>
    \E lost \in Seq(Cell) : (phase[Peer(p)] # "crashed" => lost = <<>>) /\ Stream(p, lost)

Sound(p) == Counted(p) /\ Threads(p) /\ Settled(p) /\ Flows(p)

ChannelInv == TypeOK /\ \A p \in Party : Sound(p)

(* What the counts of both parties say together.                           *)
LEMMA Distances ==
  ASSUME ChannelInv, NEW p \in Party
  PROVE  /\ Len(sent[p]) \in Nat /\ Len(got[p]) \in Nat
         /\ Len(sent[Peer(p)]) - Len(got[p]) \in 0 .. 2
         /\ phase[Peer(p)] = "between" => Len(sent[Peer(p)]) - Len(got[p]) \in 0 .. 1
<1>1. PICK q \in Party : q = Peer(p) /\ Peer(q) = p
  BY Ends
<1>2. Counted(p) /\ Counted(q) /\ TypeOK
  BY DEF ChannelInv, Sound
<1>3. sent[p] \in Seq(Payloads) /\ sent[q] \in Seq(Payloads)
      /\ got[p] \in Seq(Seq(Cell)) /\ got[q] \in Seq(Seq(Cell))
  BY <1>2 DEF TypeOK
<1>4. Len(sent[p]) \in Nat /\ Len(sent[q]) \in Nat /\ Len(got[p]) \in Nat /\ Len(got[q]) \in Nat
  BY <1>3, LenProperties
<1>5. /\ Len(got[p]) <= Len(sent[q]) /\ Len(got[q]) <= Len(sent[p])
      /\ Len(sent[q]) <= Len(got[q]) + 1 /\ Len(sent[p]) <= Len(got[p]) + 1
      /\ phase[q] = "between" => Len(sent[q]) = Len(got[q])
  BY <1>1, <1>2, <1>4 DEF Counted
<1> QED BY <1>1, <1>4, <1>5

(* The same for one party at a time: what a step that does not touch the   *)
(* variables a part is about leaves of it.                                 *)
LEMMA CountedKept ==
  ASSUME NEW r \in Party, Counted(r),
         sent'[r] = sent[r], got'[r] = got[r], sent'[Peer(r)] = sent[Peer(r)],
         phase'[r] = "between" => phase[r] = "between",
         phase'[r] \in {"header", "body", "unwind", "broken"}
           => phase[r] \in {"header", "body", "unwind", "broken"}
  PROVE  Counted(r)'
BY DEF Counted

LEMMA SettledKept ==
  ASSUME NEW r \in Party, Settled(r),
         got'[r] = got[r], sent'[Peer(r)] = sent[Peer(r)],
         wire[Peer(r)] = <<>> => wire'[Peer(r)] = <<>>,
         unsent[Peer(r)] = <<>> => unsent'[Peer(r)] = <<>>
  PROVE  Settled(r)'
BY DEF Settled

LEMMA FlowsKept ==
  ASSUME NEW r \in Party, Flows(r),
         Listening(r)' => phase'[r] = phase[r],
         phase'[Peer(r)] # "crashed" => phase[Peer(r)] # "crashed",
         expected'[r] = expected[r], buffer'[r] = buffer[r],
         got'[r] = got[r], sent'[Peer(r)] = sent[Peer(r)],
         wire'[Peer(r)] = wire[Peer(r)], unsent'[Peer(r)] = unsent[Peer(r)]
  PROVE  Flows(r)'
<1>1. SUFFICES ASSUME Listening(r)'
               PROVE  \E lost \in Seq(Cell) : /\ phase'[Peer(r)] # "crashed" => lost = <<>>
                                              /\ Stream(r, lost)'
  BY DEF Flows
<1>2. phase'[r] = phase[r] /\ Listening(r)
  BY <1>1 DEF Listening
<1>3. PICK lost \in Seq(Cell) : (phase[Peer(r)] # "crashed" => lost = <<>>) /\ Stream(r, lost)
  BY <1>2 DEF Flows
<1>4. Stream(r, lost)'
  BY <1>2, <1>3 DEF Stream, ReadSoFar
<1> QED BY <1>3, <1>4

LEMMA ThreadsKept ==
  ASSUME NEW r \in Party, Threads(r),
         phase'[r] = phase[r], helper'[r] = helper[r], unsent'[r] = unsent[r],
         expected'[r] = expected[r], buffer'[r] = buffer[r],
         sent'[r] = sent[r], got'[r] = got[r],
         Gone(Peer(r)) => /\ phase'[Peer(r)] = phase[Peer(r)]
                          /\ sent'[Peer(r)] = sent[Peer(r)] /\ got'[Peer(r)] = got[Peer(r)]
  PROVE  Threads(r)'
<1>1. Gone(Peer(r)) => Gone(Peer(r))'
  BY DEF Gone
<1>2. LeftBehind(r) => Gone(Peer(r))
  BY DEF LeftBehind, Gone
<1>3. LeftBehind(r) => LeftBehind(r)'
  BY <1>2 DEF LeftBehind
<1> QED BY <1>1, <1>2, <1>3 DEF Threads

LEMMA InitInv == ChannelAssumption /\ Init => ChannelInv
<1> SUFFICES ASSUME ChannelAssumption, Init PROVE ChannelInv
  OBVIOUS
<1>1. TypeOK
  BY InitTypeOK
<1>2. ASSUME NEW p \in Party PROVE Sound(p)
  <2>1. Peer(p) \in Party
    BY Ends
  <2>2. Len(got[p]) = 0 /\ Len(sent[p]) = 0 /\ Len(sent[Peer(p)]) = 0
    BY <2>1, EmptySeq DEF Init
  <2>3. Counted(p)
    BY <2>2 DEF Counted, Init
  <2>4. Threads(p)
    BY DEF Threads, Init
  <2>5. Settled(p)
    BY <2>1 DEF Settled, Init
  <2>6. Flows(p)
    <3>1. ReadSoFar(p) ++ wire[Peer(p)] ++ unsent[Peer(p)] ++ <<>> = <<>>
      <4>1. <<>> ++ <<>> ++ <<>> ++ <<>> = <<>>
        BY Cells
      <4>2. ReadSoFar(p) = <<>> /\ wire[Peer(p)] = <<>> /\ unsent[Peer(p)] = <<>>
        BY <2>1 DEF ReadSoFar, Init
      <4> QED BY <4>1, <4>2
    <3>2. FramesAfter(Len(got[p]), sent[Peer(p)]) = <<>>
      BY <2>2 DEF FramesAfter
    <3> QED BY <3>1, <3>2, Cells DEF Flows, Stream
  <2> QED BY <2>3, <2>4, <2>5, <2>6 DEF Sound
<1> QED BY <1>1, <1>2 DEF ChannelInv

-----------------------------------------------------------------------------
(* The steps of a party p, q being its peer.                               *)

LEMMA BeginInv ==
  ASSUME ChannelAssumption, ChannelInv, TypeOK', NEW p \in Party, NEW payload \in Payloads,
         Begin(p, payload)
  PROVE  ChannelInv'
<1>1. PICK q \in Party : q = Peer(p) /\ Peer(q) = p /\ q # p
  BY Ends
<1>2. TypeOK /\ Sound(p) /\ Sound(q)
  BY DEF ChannelInv
<1>3. /\ phase[p] = "between" /\ helper[p] = "none" /\ unsent[p] = <<>>
      /\ phase'[p] = "header" /\ helper'[p] = "writing" /\ unsent'[p] = Frame(payload)
      /\ sent'[p] = Append(sent[p], payload)
      /\ phase'[q] = phase[q] /\ helper'[q] = helper[q] /\ unsent'[q] = unsent[q]
      /\ sent'[q] = sent[q]
      /\ wire' = wire /\ expected' = expected /\ buffer' = buffer /\ got' = got
  BY <1>1, <1>2 DEF Begin, TypeOK, Sound, Threads
<1>4. /\ sent[p] \in Seq(Payloads) /\ Len(sent[p]) \in Nat /\ Len(got[p]) \in Nat
      /\ Len(sent'[p]) = Len(sent[p]) + 1
      /\ sent[q] \in Seq(Payloads) /\ Len(sent[q]) \in Nat /\ Len(got[q]) \in Nat
  BY <1>1, <1>2, <1>3, LenProperties, AppendProperties DEF TypeOK
<1>5. Counted(p)'
  BY <1>1, <1>2, <1>3, <1>4 DEF Counted, Sound
<1>6. Counted(q)'
  <2>1. Len(got[q]) <= Len(sent[p])
    BY <1>1, <1>2 DEF Sound, Counted
  <2>2. Len(got'[q]) <= Len(sent'[p])
    BY <1>3, <1>4, <2>1
  <2> QED BY <1>1, <1>2, <1>3, <2>2 DEF Sound, Counted
<1>7. Threads(p)'
  BY <1>2, <1>3 DEF Threads, Sound
<1>8. Threads(q)'
  <2>1. ~Gone(p)
    BY <1>3 DEF Gone
  <2> QED BY <1>1, <1>2, <1>3, <2>1, ThreadsKept DEF Sound
<1>9. Settled(p)'
  BY <1>1, <1>2, <1>3, SettledKept DEF Sound
<1>10. Settled(q)'
  <2>1. Len(got[q]) <= Len(sent[p])
    BY <1>1, <1>2 DEF Sound, Counted
  <2>2. Len(got'[q]) # Len(sent'[p])
    BY <1>3, <1>4, <2>1
  <2> QED BY <1>1, <2>2 DEF Settled
<1>11. Flows(p)'
  <2>1. PICK lost \in Seq(Cell) : (phase[q] # "crashed" => lost = <<>>) /\ Stream(p, lost)
    BY <1>1, <1>2, <1>3 DEF Sound, Flows, Listening
  <2>2. ReadSoFar(p) = <<>> /\ ReadSoFar(p)' = <<>>
    BY <1>3 DEF ReadSoFar
  <2>3. Stream(p, lost)'
    BY <1>1, <1>3, <2>1, <2>2 DEF Stream
  <2> QED BY <1>1, <1>3, <2>1, <2>3 DEF Flows
<1>12. Flows(q)'
  <2>1. SUFFICES ASSUME Listening(q)' PROVE Stream(q, <<>>)'
    BY <2>1, Cells DEF Flows
  <2>2. Listening(q) /\ ReadSoFar(q)' = ReadSoFar(q)
    BY <1>3, <2>1 DEF Listening, ReadSoFar
  <2>3. Stream(q, <<>>)
    BY <1>1, <1>2, <1>3, <2>2 DEF Sound, Flows
  <2>4. FramesAfter(Len(got[q]), sent'[p]) = FramesAfter(Len(got[q]), sent[p]) ++ Frame(payload)
    <3>1. Len(sent[p]) - Len(got[q]) \in 0 .. 1
      BY <1>1, <1>3, Distances
    <3> QED BY <1>3, <1>4, <3>1, MoreFrames
  <2>5. PICK r \in Seq(Cell) : r = ReadSoFar(q)
    BY <1>2, Cells DEF ReadSoFar, TypeOK
  <2>6. PICK w \in Seq(Cell) : w = wire[p]
    BY <1>2 DEF TypeOK
  <2>7. PICK f \in Seq(Cell) : f = Frame(payload)
    BY Frames
  <2>8. r ++ w ++ <<>> ++ <<>> = FramesAfter(Len(got[q]), sent[p])
    BY <1>1, <1>3, <2>3, <2>5, <2>6 DEF Stream
  <2>9. r ++ w ++ <<>> ++ <<>> = r ++ w /\ r ++ w ++ f ++ <<>> = r ++ w ++ f
    <3>1. r ++ w \in Seq(Cell) /\ r ++ w ++ f \in Seq(Cell)
      BY Cells
    <3> QED BY <3>1, Cells
  <2>10. r ++ w ++ f ++ <<>> = FramesAfter(Len(got[q]), sent'[p])
    BY <2>4, <2>7, <2>8, <2>9
  <2> QED BY <1>1, <1>3, <2>2, <2>5, <2>6, <2>7, <2>10 DEF Stream
<1>13. Sound(p)' /\ Sound(q)'
  BY <1>5, <1>6, <1>7, <1>8, <1>9, <1>10, <1>11, <1>12 DEF Sound
<1> QED BY <1>1, <1>13, Ends DEF ChannelInv

LEMMA WriteInv ==
  ASSUME ChannelInv, TypeOK', NEW p \in Party, Write(p)
  PROVE  ChannelInv'
<1>1. PICK q \in Party : q = Peer(p) /\ Peer(q) = p /\ q # p
  BY Ends
<1>2. TypeOK /\ Sound(p) /\ Sound(q)
  BY DEF ChannelInv
<1>3. /\ helper[p] = "writing" /\ unsent[p] # <<>>
      /\ wire'[p] = Append(wire[p], Head(unsent[p])) /\ unsent'[p] = Tail(unsent[p])
      /\ wire'[q] = wire[q] /\ unsent'[q] = unsent[q]
      /\ phase' = phase /\ helper' = helper /\ expected' = expected /\ buffer' = buffer
      /\ sent' = sent /\ got' = got
  BY <1>1, <1>2 DEF Write, TypeOK
<1>4. Counted(p)' /\ Counted(q)'
  BY <1>1, <1>2, <1>3, CountedKept DEF Sound
<1>5. Threads(p)'
  BY <1>1, <1>2, <1>3 DEF Sound, Threads, LeftBehind, Gone
<1>6. Threads(q)'
  BY <1>1, <1>2, <1>3, ThreadsKept DEF Sound
<1>7. Settled(p)'
  BY <1>1, <1>2, <1>3, SettledKept DEF Sound
<1>8. Settled(q)'
  BY <1>1, <1>2, <1>3 DEF Sound, Settled
<1>9. Flows(p)'
  BY <1>1, <1>2, <1>3, FlowsKept DEF Sound, Listening
<1>10. Flows(q)'
  <2>1. SUFFICES ASSUME Listening(q)'
                 PROVE  \E lost \in Seq(Cell) : /\ phase'[p] # "crashed" => lost = <<>>
                                                /\ Stream(q, lost)'
    BY <1>1 DEF Flows
  <2>2. Listening(q) /\ ReadSoFar(q)' = ReadSoFar(q)
    BY <1>3, <2>1 DEF Listening, ReadSoFar
  <2>3. PICK lost \in Seq(Cell) : (phase[p] # "crashed" => lost = <<>>) /\ Stream(q, lost)
    BY <1>1, <1>2, <2>2 DEF Sound, Flows
  <2>4. PICK r \in Seq(Cell), w \in Seq(Cell), u \in Seq(Cell) :
            r = ReadSoFar(q) /\ w = wire[p] /\ u = unsent[p]
    BY <1>2, Cells DEF ReadSoFar, TypeOK
  <2>5. PICK a \in Seq(Cell), t \in Seq(Cell) : a = wire'[p] /\ t = unsent'[p]
    BY DEF TypeOK
  <2>6. r ++ a ++ t ++ lost = r ++ w ++ u ++ lost
    <3>1. Moves(w, u, a, t)
      BY <1>3, <2>4, <2>5 DEF Moves
    <3> QED BY <3>1, Moved
  <2>7. Stream(q, lost)'
    BY <1>1, <1>3, <2>2, <2>3, <2>4, <2>5, <2>6 DEF Stream
  <2> QED BY <1>3, <2>3, <2>7
<1> QED BY <1>1, <1>4, <1>5, <1>6, <1>7, <1>8, <1>9, <1>10, Ends DEF ChannelInv, Sound

LEMMA FinishWritingInv ==
  ASSUME ChannelInv, TypeOK', NEW p \in Party, FinishWriting(p)
  PROVE  ChannelInv'
<1>1. PICK q \in Party : q = Peer(p) /\ Peer(q) = p /\ q # p
  BY Ends
<1>2. TypeOK /\ Sound(p) /\ Sound(q)
  BY DEF ChannelInv
<1>3. /\ helper[p] = "writing" /\ unsent[p] = <<>> /\ helper'[p] = "ok" /\ helper'[q] = helper[q]
      /\ wire' = wire /\ unsent' = unsent
      /\ phase' = phase /\ expected' = expected /\ buffer' = buffer /\ sent' = sent /\ got' = got
  BY <1>1, <1>2 DEF FinishWriting, TypeOK
<1>4. Counted(p)' /\ Counted(q)'
  BY <1>1, <1>2, <1>3, CountedKept DEF Sound
<1>5. Threads(p)'
  BY <1>1, <1>2, <1>3 DEF Sound, Threads, LeftBehind, Gone
<1>6. Threads(q)'
  BY <1>1, <1>2, <1>3, ThreadsKept DEF Sound
<1>7. Settled(p)' /\ Settled(q)'
  BY <1>1, <1>2, <1>3, SettledKept DEF Sound
<1>8. Flows(p)' /\ Flows(q)'
  BY <1>1, <1>2, <1>3, FlowsKept DEF Sound, Listening
<1> QED BY <1>1, <1>4, <1>5, <1>6, <1>7, <1>8, Ends DEF ChannelInv, Sound

LEMMA FailWritingInv ==
  ASSUME ChannelInv, TypeOK', NEW p \in Party, FailWriting(p)
  PROVE  ChannelInv'
<1>1. PICK q \in Party : q = Peer(p) /\ Peer(q) = p /\ q # p
  BY Ends
<1>2. TypeOK /\ Sound(p) /\ Sound(q)
  BY DEF ChannelInv
<1>3. /\ helper[p] = "writing" /\ unsent[p] # <<>> /\ Gone(q)
      /\ helper'[p] = "failed" /\ helper'[q] = helper[q]
      /\ unsent'[p] = <<>> /\ unsent'[q] = unsent[q]
      /\ wire' = wire
      /\ phase' = phase /\ expected' = expected /\ buffer' = buffer /\ sent' = sent /\ got' = got
  BY <1>1, <1>2 DEF FailWriting, TypeOK
<1>4. Counted(p)' /\ Counted(q)'
  BY <1>1, <1>2, <1>3, CountedKept DEF Sound
<1>5. Len(got[q]) < Len(sent[p])
  <2>1. Len(got[q]) # Len(sent[p]) /\ Len(got[q]) <= Len(sent[p])
    BY <1>1, <1>2, <1>3 DEF Sound, Settled, Counted
  <2> QED BY <1>1, <2>1, Distances
<1>6. Threads(p)'
  BY <1>1, <1>2, <1>3, <1>5 DEF Sound, Threads, LeftBehind, Gone
<1>7. Threads(q)'
  BY <1>1, <1>2, <1>3, ThreadsKept DEF Sound
<1>8. Settled(p)' /\ Settled(q)'
  BY <1>1, <1>2, <1>3, SettledKept DEF Sound
<1>9. Flows(p)'
  BY <1>1, <1>2, <1>3, FlowsKept DEF Sound, Listening
<1>10. Flows(q)'
  BY <1>3 DEF Flows, Listening, Gone
<1> QED BY <1>1, <1>4, <1>6, <1>7, <1>8, <1>9, <1>10, Ends DEF ChannelInv, Sound

(* A step that takes a cell from the wire of q leaves what the steps of q  *)
(* are about alone.                                                        *)
LEMMA TakeOther ==
  ASSUME ChannelInv, NEW p \in Party, NEW q \in Party, q = Peer(p), p = Peer(q), q # p,
         phase'[q] = phase[q], helper' = helper, unsent' = unsent,
         expected'[q] = expected[q], buffer'[q] = buffer[q], wire'[p] = wire[p],
         sent' = sent, got' = got, ~Gone(p), phase'[p] # "crashed"
  PROVE  Counted(q)' /\ Threads(q)' /\ Settled(q)' /\ Flows(q)'
<1>1. Sound(q)
  BY DEF ChannelInv
<1>2. Counted(q)'
  BY <1>1, CountedKept DEF Sound
<1>3. Threads(q)'
  BY <1>1, ThreadsKept DEF Sound
<1>4. Settled(q)'
  BY <1>1, SettledKept DEF Sound
<1>5. Flows(q)'
  <2>1. phase[p] # "crashed"
    BY DEF Gone
  <2> QED BY <1>1, <2>1, FlowsKept DEF Sound
<1> QED BY <1>2, <1>3, <1>4, <1>5

LEMMA ReadHeaderInv ==
  ASSUME ChannelInv, TypeOK', NEW p \in Party, ReadHeader(p)
  PROVE  ChannelInv'
<1>1. PICK q \in Party : q = Peer(p) /\ Peer(q) = p /\ q # p
  BY Ends
<1>2. TypeOK /\ Sound(p) /\ Sound(q)
  BY DEF ChannelInv
<1>3. /\ phase[p] = "header" /\ wire[q] # <<>>
      /\ phase'[p] = "body" /\ phase'[q] = phase[q]
      /\ wire'[q] = Tail(wire[q]) /\ wire'[p] = wire[p]
      /\ expected'[p] = Head(wire[q]) /\ expected'[q] = expected[q]
      /\ buffer'[p] = <<>> /\ buffer'[q] = buffer[q]
      /\ helper' = helper /\ unsent' = unsent /\ sent' = sent /\ got' = got
  BY <1>1, <1>2 DEF ReadHeader, Take, TypeOK
<1>4. ~Gone(p) /\ phase'[p] # "crashed"
  BY <1>3 DEF Gone
<1>5. Counted(q)' /\ Threads(q)' /\ Settled(q)' /\ Flows(q)'
  BY <1>1, <1>3, <1>4, TakeOther
<1>6. Counted(p)'
  BY <1>1, <1>2, <1>3, CountedKept DEF Sound
<1>7. Threads(p)'
  <2>1. Head(wire[q]) \in Nat
    <3>1. wire[q] \in Seq(Cell)
      BY <1>2 DEF TypeOK
    <3>2. Head(wire[q]) \in Cell
      BY <1>3, <3>1, Cells
    <3> QED BY <3>2 DEF Cell
  <2>2. Len(buffer'[p]) <= expected'[p]
    BY <1>3, <2>1, EmptySeq
  <2> QED BY <1>1, <1>2, <1>3, <2>2 DEF Sound, Threads, Gone
<1>8. Settled(p)'
  BY <1>1, <1>2, <1>3 DEF Sound, Settled
<1>9. Flows(p)'
  <2>1. PICK lost \in Seq(Cell) : (phase[q] # "crashed" => lost = <<>>) /\ Stream(p, lost)
    BY <1>1, <1>2, <1>3 DEF Sound, Flows, Listening
  <2>2. PICK w \in Seq(Cell), u \in Seq(Cell), t \in Seq(Cell), c \in Cell :
            w = wire[q] /\ u = unsent[q] /\ t = wire'[q] /\ c = expected'[p]
    BY <1>2 DEF TypeOK
  <2>3. (Single(c) ++ <<>>) ++ t ++ u ++ lost = <<>> ++ w ++ u ++ lost
    <3>1. Leaves(w, c, t)
      BY <1>3, <2>2 DEF Leaves
    <3> QED BY <3>1, FirstMoved
  <2>4. ReadSoFar(p) = <<>> /\ ReadSoFar(p)' = Single(c) ++ <<>>
    BY <1>3, <2>2 DEF ReadSoFar
  <2>5. Stream(p, lost)'
    BY <1>1, <1>3, <2>1, <2>2, <2>3, <2>4 DEF Stream
  <2> QED BY <1>1, <1>3, <2>1, <2>5 DEF Flows
<1> QED BY <1>1, <1>5, <1>6, <1>7, <1>8, <1>9, Ends DEF ChannelInv, Sound

LEMMA ReadBodyInv ==
  ASSUME ChannelInv, TypeOK', NEW p \in Party, ReadBody(p)
  PROVE  ChannelInv'
<1>1. PICK q \in Party : q = Peer(p) /\ Peer(q) = p /\ q # p
  BY Ends
<1>2. TypeOK /\ Sound(p) /\ Sound(q)
  BY DEF ChannelInv
<1>3. /\ phase[p] = "body" /\ Len(buffer[p]) < expected[p] /\ wire[q] # <<>>
      /\ wire'[q] = Tail(wire[q]) /\ wire'[p] = wire[p]
      /\ buffer'[p] = Append(buffer[p], Head(wire[q])) /\ buffer'[q] = buffer[q]
      /\ phase' = phase /\ expected' = expected
      /\ helper' = helper /\ unsent' = unsent /\ sent' = sent /\ got' = got
  BY <1>1, <1>2 DEF ReadBody, WantsMore, Take, TypeOK
<1>4. ~Gone(p) /\ phase'[p] # "crashed"
  BY <1>3 DEF Gone
<1>5. Counted(q)' /\ Threads(q)' /\ Settled(q)' /\ Flows(q)'
  BY <1>1, <1>3, <1>4, TakeOther
<1>6. Counted(p)'
  BY <1>1, <1>2, <1>3, CountedKept DEF Sound
<1>7. Threads(p)'
  <2>1. Len(buffer'[p]) = Len(buffer[p]) + 1 /\ Len(buffer[p]) \in Nat /\ expected[p] \in Nat
    <3>1. wire[q] \in Seq(Cell) /\ buffer[p] \in Seq(Cell) /\ expected[p] \in Cell
      BY <1>2 DEF TypeOK
    <3>2. Head(wire[q]) \in Cell
      BY <1>3, <3>1, Cells
    <3> QED BY <1>3, <3>1, <3>2, AppendProperties, LenProperties DEF Cell
  <2>2. Len(buffer'[p]) <= expected'[p]
    BY <1>3, <2>1
  <2> QED BY <1>1, <1>2, <1>3, <2>2 DEF Sound, Threads, Gone
<1>8. Settled(p)'
  BY <1>1, <1>2, <1>3 DEF Sound, Settled
<1>9. Flows(p)'
  <2>1. PICK lost \in Seq(Cell) : (phase[q] # "crashed" => lost = <<>>) /\ Stream(p, lost)
    BY <1>1, <1>2, <1>3 DEF Sound, Flows, Listening
  <2>2. PICK w \in Seq(Cell), u \in Seq(Cell), t \in Seq(Cell), b \in Seq(Cell), a \in Seq(Cell),
             c \in Cell :
            /\ w = wire[q] /\ u = unsent[q] /\ t = wire'[q]
            /\ b = buffer[p] /\ a = buffer'[p] /\ c = expected[p]
    BY <1>2 DEF TypeOK
  <2>3. (Single(c) ++ a) ++ t ++ u ++ lost = (Single(c) ++ b) ++ w ++ u ++ lost
    <3>1. Moves(b, w, a, t)
      BY <1>3, <2>2 DEF Moves
    <3> QED BY <3>1, NextMoved
  <2>4. ReadSoFar(p) = Single(c) ++ b /\ ReadSoFar(p)' = Single(c) ++ a
    BY <1>3, <2>2 DEF ReadSoFar
  <2>5. Stream(p, lost)'
    BY <1>1, <1>3, <2>1, <2>2, <2>3, <2>4 DEF Stream
  <2> QED BY <1>1, <1>3, <2>1, <2>5 DEF Flows
<1> QED BY <1>1, <1>5, <1>6, <1>7, <1>8, <1>9, Ends DEF ChannelInv, Sound

(* A call whose reads are cut short by a peer that closed has not been     *)
(* sent a message it has not returned, or leaves the peer one to read.     *)
LEMMA CutShort ==
  ASSUME ChannelAssumption, PayloadsFit, ChannelInv, NEW p \in Party, FailReading(p)
  PROVE  LeftBehind(p)
<1>1. PICK q \in Party : q = Peer(p) /\ Peer(q) = p /\ q # p
  BY Ends
<1>2. TypeOK /\ Sound(p) /\ Sound(q)
  BY DEF ChannelInv
<1>3. phase[p] \in {"header", "body"} /\ WantsMore(p) /\ Cut(p)
  BY DEF FailReading, Reading
<1>4. CASE phase[q] = "crashed"
  BY <1>1, <1>4 DEF LeftBehind
<1>5. CASE phase[q] = "closed" /\ wire[p] # <<>>
  <2>1. Len(got[q]) # Len(sent[p]) /\ Len(got[q]) <= Len(sent[p])
    BY <1>1, <1>2, <1>5 DEF Sound, Settled, Counted
  <2>2. Len(got[q]) < Len(sent[p])
    BY <1>1, <2>1, Distances
  <2> QED BY <1>1, <1>5, <2>2 DEF LeftBehind
<1>6. CASE phase[q] = "closed" /\ wire[q] = <<>>
  <2>1. Stream(p, <<>>)
    BY <1>1, <1>2, <1>3, <1>6 DEF Sound, Flows, Listening
  <2>2. unsent[q] = <<>>
    BY <1>2, <1>6 DEF Sound, Threads
  <2>3. PICK n \in Nat, s \in Seq(Payloads) : n = Len(got[p]) /\ s = sent[q]
    BY <1>1, <1>2, Distances DEF TypeOK
  <2>4. Len(s) - n \in 0 .. 2 /\ Len(s) \in Nat
    BY <1>1, <2>3, Distances
  <2>5. ReadSoFar(p) ++ <<>> ++ <<>> ++ <<>> = FramesAfter(n, s)
    BY <1>1, <1>6, <2>1, <2>2, <2>3 DEF Stream
  <2>6. Len(s) = n
    <3>1. CASE phase[p] = "header"
      <4>1. ReadSoFar(p) = <<>>
        BY <3>1 DEF ReadSoFar
      <4>2. <<>> ++ <<>> ++ <<>> ++ <<>> = <<>>
        BY Cells
      <4>3. FramesAfter(n, s) = <<>>
        BY <2>5, <4>1, <4>2
      <4> QED BY <2>4, <4>3, NextFrames
    <3>2. CASE phase[p] = "body"
      <4>1. PICK b \in Seq(Cell), c \in Cell :
                b = buffer[p] /\ c = expected[p] /\ Len(b) < c
        BY <1>2, <1>3, <3>2 DEF TypeOK, WantsMore
      <4>2. (Single(c) ++ b) ++ <<>> ++ <<>> ++ <<>> = FramesAfter(n, s)
        BY <2>5, <3>2, <4>1 DEF ReadSoFar
      <4>3. PICK e \in Seq(Cell) : e = <<>>
        BY Cells
      <4>4. (Single(c) ++ b) ++ e ++ e ++ e = FramesAfter(n, s)
        BY <4>2, <4>3
      <4>5. e ++ e ++ e # <<>>
        BY <2>4, <4>1, <4>4, MessageRead
      <4> QED BY <4>3, <4>5, Cells
    <3> QED BY <1>3, <3>1, <3>2
  <2> QED BY <1>1, <1>6, <2>3, <2>4, <2>6 DEF LeftBehind
<1> QED BY <1>1, <1>3, <1>4, <1>5, <1>6 DEF Cut

LEMMA FailReadingInv ==
  ASSUME ChannelAssumption, PayloadsFit, ChannelInv, TypeOK', NEW p \in Party, FailReading(p)
  PROVE  ChannelInv'
<1>1. PICK q \in Party : q = Peer(p) /\ Peer(q) = p /\ q # p
  BY Ends
<1>2. TypeOK /\ Sound(p) /\ Sound(q)
  BY DEF ChannelInv
<1>3. /\ phase[p] \in {"header", "body"} /\ phase'[p] = "unwind" /\ phase'[q] = phase[q]
      /\ helper' = helper /\ unsent' = unsent /\ wire' = wire /\ expected' = expected
      /\ buffer' = buffer /\ sent' = sent /\ got' = got
  BY <1>1, <1>2 DEF FailReading, Reading, TypeOK
<1>4. ~Gone(p) /\ phase'[p] # "crashed"
  BY <1>3 DEF Gone
<1>5. Counted(q)' /\ Threads(q)' /\ Settled(q)' /\ Flows(q)'
  BY <1>1, <1>3, <1>4, TakeOther
<1>6. Counted(p)'
  BY <1>1, <1>2, <1>3, CountedKept DEF Sound
<1>7. Threads(p)'
  <2>1. LeftBehind(p)
    BY CutShort
  <2>2. LeftBehind(p)'
    BY <1>1, <1>3, <2>1 DEF LeftBehind
  <2> QED BY <1>1, <1>2, <1>3, <2>2 DEF Sound, Threads, Gone
<1>8. Settled(p)'
  BY <1>1, <1>2, <1>3, SettledKept DEF Sound
<1>9. Flows(p)'
  BY <1>3 DEF Flows, Listening
<1> QED BY <1>1, <1>5, <1>6, <1>7, <1>8, <1>9, Ends DEF ChannelInv, Sound

LEMMA UnwindInv ==
  ASSUME ChannelInv, TypeOK', NEW p \in Party, Unwind(p)
  PROVE  ChannelInv'
<1>1. PICK q \in Party : q = Peer(p) /\ Peer(q) = p /\ q # p
  BY Ends
<1>2. TypeOK /\ Sound(p) /\ Sound(q)
  BY DEF ChannelInv
<1>3. /\ phase[p] = "unwind" /\ helper[p] \in {"ok", "failed"}
      /\ phase'[p] = "broken" /\ phase'[q] = phase[q]
      /\ helper'[p] = "none" /\ helper'[q] = helper[q]
      /\ unsent' = unsent /\ wire' = wire /\ expected' = expected
      /\ buffer' = buffer /\ sent' = sent /\ got' = got
  BY <1>1, <1>2 DEF Unwind, TypeOK
<1>4. ~Gone(p) /\ phase'[p] # "crashed" /\ phase[p] # "crashed"
  BY <1>3 DEF Gone
<1>5. Counted(p)' /\ Counted(q)'
  BY <1>1, <1>2, <1>3, CountedKept DEF Sound
<1>6. Threads(p)'
  BY <1>1, <1>2, <1>3 DEF Sound, Threads
<1>7. Threads(q)'
  BY <1>1, <1>2, <1>3, <1>4, ThreadsKept DEF Sound
<1>8. Settled(p)' /\ Settled(q)'
  BY <1>1, <1>2, <1>3, SettledKept DEF Sound
<1>9. Flows(p)'
  BY <1>3 DEF Flows, Listening
<1>10. Flows(q)'
  BY <1>1, <1>2, <1>3, <1>4, FlowsKept DEF Sound
<1> QED BY <1>1, <1>5, <1>6, <1>7, <1>8, <1>9, <1>10, Ends DEF ChannelInv, Sound

LEMMA CloseInv ==
  ASSUME ChannelInv, TypeOK', NEW p \in Party, Close(p)
  PROVE  ChannelInv'
<1>1. PICK q \in Party : q = Peer(p) /\ Peer(q) = p /\ q # p
  BY Ends
<1>2. TypeOK /\ Sound(p) /\ Sound(q)
  BY DEF ChannelInv
<1>3. /\ phase[p] \in {"between", "broken"} /\ phase'[p] = "closed" /\ phase'[q] = phase[q]
      /\ helper' = helper /\ unsent' = unsent /\ wire' = wire /\ expected' = expected
      /\ buffer' = buffer /\ sent' = sent /\ got' = got
  BY <1>1, <1>2 DEF Close, TypeOK
<1>4. ~Gone(p) /\ phase[p] # "crashed"
  BY <1>3 DEF Gone
<1>5. Counted(p)' /\ Counted(q)'
  BY <1>1, <1>2, <1>3, CountedKept DEF Sound
<1>6. Threads(p)'
  BY <1>1, <1>2, <1>3 DEF Sound, Threads
<1>7. Threads(q)'
  BY <1>1, <1>2, <1>3, <1>4, ThreadsKept DEF Sound
<1>8. Settled(p)' /\ Settled(q)'
  BY <1>1, <1>2, <1>3, SettledKept DEF Sound
<1>9. Flows(p)'
  BY <1>3 DEF Flows, Listening
<1>10. Flows(q)'
  BY <1>1, <1>2, <1>3, <1>4, FlowsKept DEF Sound
<1> QED BY <1>1, <1>5, <1>6, <1>7, <1>8, <1>9, <1>10, Ends DEF ChannelInv, Sound

LEMMA CrashInv ==
  ASSUME ChannelInv, TypeOK', NEW p \in Party, Crash(p)
  PROVE  ChannelInv'
<1>1. PICK q \in Party : q = Peer(p) /\ Peer(q) = p /\ q # p
  BY Ends
<1>2. TypeOK /\ Sound(p) /\ Sound(q)
  BY DEF ChannelInv
<1>3. /\ ~Gone(p) /\ phase'[p] = "crashed" /\ phase'[q] = phase[q]
      /\ helper'[p] = "none" /\ helper'[q] = helper[q]
      /\ unsent'[p] = <<>> /\ unsent'[q] = unsent[q]
      /\ wire' = wire /\ expected' = expected
      /\ buffer' = buffer /\ sent' = sent /\ got' = got
  BY <1>1, <1>2 DEF Crash, TypeOK
<1>4. Counted(p)' /\ Counted(q)'
  BY <1>1, <1>2, <1>3, CountedKept DEF Sound
<1>5. Threads(p)'
  BY <1>1, <1>2, <1>3 DEF Sound, Threads
<1>6. Threads(q)'
  BY <1>1, <1>2, <1>3, ThreadsKept DEF Sound
<1>7. Settled(p)' /\ Settled(q)'
  BY <1>1, <1>2, <1>3, SettledKept DEF Sound
<1>8. Flows(p)'
  BY <1>3 DEF Flows, Listening
<1>9. Flows(q)'
  <2>1. SUFFICES ASSUME Listening(q)'
                 PROVE  \E lost \in Seq(Cell) : Stream(q, lost)'
    BY <1>1, <1>3 DEF Flows
  <2>2. Listening(q) /\ ReadSoFar(q)' = ReadSoFar(q)
    BY <1>3, <2>1 DEF Listening, ReadSoFar
  <2>3. PICK lost \in Seq(Cell) : Stream(q, lost)
    BY <1>1, <1>2, <2>2 DEF Sound, Flows
  <2>4. PICK r \in Seq(Cell), w \in Seq(Cell), u \in Seq(Cell) :
            r = ReadSoFar(q) /\ w = wire[p] /\ u = unsent[p]
    BY <1>2, Cells DEF ReadSoFar, TypeOK
  <2>5. r ++ w ++ <<>> ++ (u ++ lost) = r ++ w ++ u ++ lost /\ u ++ lost \in Seq(Cell)
    BY Streamed, Cells
  <2>6. Stream(q, u ++ lost)'
    BY <1>1, <1>3, <2>2, <2>3, <2>4, <2>5 DEF Stream
  <2> QED BY <2>5, <2>6
<1> QED BY <1>1, <1>4, <1>5, <1>6, <1>7, <1>8, <1>9, Ends DEF ChannelInv, Sound

LEMMA NothingLeft ==
  \A w, u, l \in Seq(Cell) : <<>> ++ w ++ u ++ l = <<>> => w = <<>> /\ u = <<>>
<1> SUFFICES ASSUME NEW w \in Seq(Cell), NEW u \in Seq(Cell), NEW l \in Seq(Cell),
                    <<>> ++ w ++ u ++ l = <<>>
             PROVE  w = <<>> /\ u = <<>>
  OBVIOUS
<1>1. <<>> ++ w = w /\ w ++ u \in Seq(Cell)
  BY Cells
<1>2. (w ++ u) ++ l = <<>>
  BY <1>1
<1>3. w ++ u = <<>>
  BY <1>1, <1>2, ConcatSimplifications DEF ++
<1> QED BY <1>3, ConcatSimplifications DEF ++

(* What a call that has read its whole frame returns.                      *)
LEMMA WholeFrame ==
  ASSUME ChannelAssumption, PayloadsFit, ChannelInv, NEW p \in Party,
         phase[p] = "body", ~WantsMore(p)
  PROVE  /\ Len(got[p]) < Len(sent[Peer(p)])
         /\ buffer[p] = sent[Peer(p)][Len(got[p]) + 1]
         /\ \E lost \in Seq(Cell) :
              /\ phase[Peer(p)] # "crashed" => lost = <<>>
              /\ <<>> ++ wire[Peer(p)] ++ unsent[Peer(p)] ++ lost
                   = FramesAfter(Len(got[p]) + 1, sent[Peer(p)])
<1>1. PICK q \in Party : q = Peer(p) /\ Peer(q) = p /\ q # p
  BY Ends
<1>2. TypeOK /\ Sound(p) /\ Sound(q)
  BY DEF ChannelInv
<1>3. PICK lost \in Seq(Cell) : (phase[q] # "crashed" => lost = <<>>) /\ Stream(p, lost)
  BY <1>1, <1>2 DEF Sound, Flows, Listening
<1>4. PICK n \in Nat, s \in Seq(Payloads) : n = Len(got[p]) /\ s = sent[q]
  BY <1>1, <1>2, Distances DEF TypeOK
<1>5. Len(s) - n \in 0 .. 2
  BY <1>1, <1>4, Distances
<1>6. PICK w \in Seq(Cell), u \in Seq(Cell), b \in Seq(Cell), c \in Cell :
          w = wire[q] /\ u = unsent[q] /\ b = buffer[p] /\ c = expected[p]
  BY <1>2 DEF TypeOK
<1>7. Len(b) = c
  <2>1. Len(b) <= c /\ ~(Len(b) < c)
    BY <1>2, <1>6 DEF Sound, Threads, WantsMore
  <2>2. Len(b) \in Nat /\ c \in Nat
    BY Cells DEF Cell
  <2> QED BY <2>1, <2>2
<1>8. (Single(c) ++ b) ++ w ++ u ++ lost = FramesAfter(n, s)
  BY <1>1, <1>3, <1>4, <1>6 DEF Stream, ReadSoFar
<1>9. n < Len(s) /\ b = s[n + 1] /\ <<>> ++ w ++ u ++ lost = FramesAfter(n + 1, s)
  BY <1>5, <1>7, <1>8, MessageRead
<1> QED BY <1>1, <1>3, <1>4, <1>6, <1>9

LEMMA JoinInv ==
  ASSUME ChannelAssumption, PayloadsFit, ChannelInv, TypeOK', NEW p \in Party, Join(p)
  PROVE  ChannelInv'
<1>1. PICK q \in Party : q = Peer(p) /\ Peer(q) = p /\ q # p
  BY Ends
<1>2. TypeOK /\ Sound(p) /\ Sound(q)
  BY DEF ChannelInv
<1>3. /\ phase[p] = "body" /\ ~WantsMore(p) /\ helper[p] \in {"ok", "failed"}
      /\ helper'[p] = "none" /\ helper'[q] = helper[q]
      /\ phase'[p] \in {"between", "broken"} /\ phase'[q] = phase[q] /\ got'[q] = got[q]
      /\ unsent' = unsent /\ wire' = wire /\ expected' = expected
      /\ buffer' = buffer /\ sent' = sent
  BY <1>1, <1>2 DEF Join, TypeOK
<1>4. ~Gone(p) /\ phase'[p] # "crashed" /\ phase[p] # "crashed"
  BY <1>3 DEF Gone
<1>5. Counted(q)'
  BY <1>1, <1>2, <1>3, CountedKept DEF Sound
<1>6. Threads(p)'
  BY <1>1, <1>2, <1>3 DEF Sound, Threads
<1>7. Threads(q)'
  BY <1>1, <1>2, <1>3, <1>4, ThreadsKept DEF Sound
<1>8. Settled(q)'
  BY <1>1, <1>2, <1>3, SettledKept DEF Sound
<1>9. Flows(q)'
  BY <1>1, <1>2, <1>3, <1>4, FlowsKept DEF Sound
<1>10. CASE helper[p] = "ok"
  <2>1. phase'[p] = "between" /\ got'[p] = Append(got[p], buffer[p])
    BY <1>2, <1>3, <1>10 DEF Join, TypeOK
  <2>2. PICK n \in Nat, s \in Seq(Payloads) : n = Len(got[p]) /\ s = sent[q]
    BY <1>1, <1>2, Distances DEF TypeOK
  <2>3. Len(got'[p]) = n + 1
    BY <1>2, <2>1, <2>2, AppendProperties DEF TypeOK
  <2>4. /\ n < Len(s)
        /\ \E lost \in Seq(Cell) :
             /\ phase[q] # "crashed" => lost = <<>>
             /\ <<>> ++ wire[q] ++ unsent[q] ++ lost = FramesAfter(n + 1, s)
    BY <1>1, <1>3, <2>2, WholeFrame
  <2>5. PICK lost \in Seq(Cell) :
             /\ phase[q] # "crashed" => lost = <<>>
             /\ <<>> ++ wire[q] ++ unsent[q] ++ lost = FramesAfter(n + 1, s)
    BY <2>4
  <2>6. Len(s) \in Nat /\ Len(sent[p]) \in Nat
    BY <1>1, <2>2, Distances
  <2>7. Counted(p)'
    <3>1. Len(sent[p]) = n + 1
      BY <1>2, <1>3, <2>2 DEF Sound, Counted
    <3>2. n + 1 <= Len(s)
      BY <2>4, <2>6
    <3> QED BY <1>1, <1>3, <2>1, <2>2, <2>3, <3>1, <3>2 DEF Counted
  <2>8. Settled(p)'
    <3>1. SUFFICES ASSUME n + 1 = Len(s) PROVE wire[q] = <<>> /\ unsent[q] = <<>>
      BY <1>1, <1>3, <2>2, <2>3 DEF Settled
    <3>2. FramesAfter(n + 1, s) = <<>>
      BY <3>1 DEF FramesAfter
    <3>3. PICK w \in Seq(Cell), u \in Seq(Cell) : w = wire[q] /\ u = unsent[q]
      BY <1>2 DEF TypeOK
    <3>4. <<>> ++ w ++ u ++ lost = <<>>
      BY <2>5, <3>2, <3>3
    <3> QED BY <3>3, <3>4, NothingLeft
  <2>9. Flows(p)'
    <3>1. ReadSoFar(p)' = <<>>
      BY <2>1 DEF ReadSoFar
    <3>2. Stream(p, lost)'
      BY <1>1, <1>3, <2>2, <2>3, <2>5, <3>1 DEF Stream
    <3> QED BY <1>1, <1>3, <2>5, <3>2 DEF Flows
  <2> QED BY <1>1, <1>5, <1>6, <1>7, <1>8, <1>9, <2>7, <2>8, <2>9, Ends DEF ChannelInv, Sound
<1>11. CASE helper[p] = "failed"
  <2>1. phase'[p] = "broken" /\ got' = got
    BY <1>2, <1>3, <1>11 DEF Join, TypeOK
  <2>2. Counted(p)'
    BY <1>1, <1>2, <1>3, <2>1, CountedKept DEF Sound
  <2>3. Settled(p)'
    BY <1>1, <1>2, <1>3, <2>1, SettledKept DEF Sound
  <2>4. Flows(p)'
    BY <2>1 DEF Flows, Listening
  <2> QED BY <1>1, <1>5, <1>6, <1>7, <1>8, <1>9, <2>2, <2>3, <2>4, Ends DEF ChannelInv, Sound
<1> QED BY <1>3, <1>10, <1>11

LEMMA StepInv ==
  ASSUME ChannelAssumption, PayloadsFit, ChannelInv, [Next]_vars
  PROVE  ChannelInv'
<1>0. TypeOK'
  BY StepTypeOK DEF ChannelInv
<1>1. ASSUME NEW p \in Party, Caller(p) PROVE ChannelInv'
  BY <1>0, <1>1, BeginInv, CloseInv DEF Caller
<1>2. ASSUME NEW p \in Party, Helper(p) PROVE ChannelInv'
  BY <1>0, <1>2, WriteInv, FinishWritingInv, FailWritingInv DEF Helper
<1>3. ASSUME NEW p \in Party, Reader(p) PROVE ChannelInv'
  BY <1>0, <1>3, ReadHeaderInv, ReadBodyInv, FailReadingInv, UnwindInv, JoinInv DEF Reader
<1>4. ASSUME NEW p \in Party, Crash(p) PROVE ChannelInv'
  BY <1>0, <1>4, CrashInv
<1>5. CASE UNCHANGED vars
  <2>1. /\ phase' = phase /\ helper' = helper /\ unsent' = unsent /\ wire' = wire
        /\ expected' = expected /\ buffer' = buffer /\ sent' = sent /\ got' = got
    BY <1>5 DEF vars
  <2>2. ASSUME NEW p \in Party PROVE Sound(p)'
    <3>1. Sound(p)
      BY DEF ChannelInv
    <3>2. Counted(p)' /\ Settled(p)'
      BY <2>1, <3>1, CountedKept, SettledKept DEF Sound
    <3>3. Threads(p)'
      BY <2>1, <3>1, ThreadsKept DEF Sound
    <3>4. Flows(p)'
      BY <2>1, <3>1, FlowsKept DEF Sound
    <3> QED BY <3>2, <3>3, <3>4 DEF Sound
  <2> QED BY <1>0, <2>2 DEF ChannelInv
<1> QED BY <1>1, <1>2, <1>3, <1>4, <1>5 DEF Next, Over

LEMMA InvAligned == ChannelInv => Aligned
<1> SUFFICES ASSUME ChannelInv PROVE Aligned
  OBVIOUS
<1>1. ASSUME NEW p \in Party, NEW q \in Party, q = Peer(p),
             phase[p] \in {"between", "header", "body"}, ~Gone(q)
      PROVE  Read(p) \o wire[q] \o unsent[q] = FramesAfter(Len(got[p]), sent[q])
  <2>1. Stream(p, <<>>)
    BY <1>1 DEF ChannelInv, Sound, Flows, Listening, Gone
  <2>2. ReadSoFar(p) \in Seq(Cell) /\ wire[q] \in Seq(Cell) /\ unsent[q] \in Seq(Cell)
    BY <1>1, Cells DEF ChannelInv, TypeOK, ReadSoFar
  <2>3. ReadSoFar(p) ++ wire[q] ++ unsent[q] ++ <<>> = ReadSoFar(p) ++ wire[q] ++ unsent[q]
    <3>1. PICK r \in Seq(Cell), w \in Seq(Cell), u \in Seq(Cell) :
              r = ReadSoFar(p) /\ w = wire[q] /\ u = unsent[q]
      BY <2>2
    <3>2. r ++ w ++ u \in Seq(Cell)
      <4>1. r ++ w \in Seq(Cell)
        BY Cells
      <4> QED BY <4>1, Cells
    <3> QED BY <3>1, <3>2, Cells
  <2>4. Read(p) = ReadSoFar(p)
    BY DEF Read, ReadSoFar, ++, Single
  <2>5. ReadSoFar(p) ++ wire[q] ++ unsent[q] = FramesAfter(Len(got[p]), sent[q])
    BY <1>1, <2>1, <2>3 DEF Stream
  <2> QED BY <2>4, <2>5 DEF ++
<1> QED BY <1>1, Distances, Ends DEF Aligned

(* While both ends are up the stream of either direction stays cut at      *)
(* frames, whatever the threads do and in whatever pieces it is read       *)
(* (net.rs:69-85).                                                         *)
THEOREM StreamStaysAligned == PayloadsFit => (Spec => []Aligned)
<1> SUFFICES ASSUME PayloadsFit PROVE Spec => []Aligned
  OBVIOUS
<1>1. ChannelAssumption /\ Init => ChannelInv
  BY InitInv
<1>2. ChannelAssumption /\ PayloadsFit /\ ChannelInv /\ [Next]_vars => ChannelInv'
  BY StepInv
<1>3. ChannelInv => Aligned
  BY InvAligned
<1> QED BY <1>1, <1>2, <1>3, ChannelAssumption, PTL DEF Spec

-----------------------------------------------------------------------------
(* A channel is an exchange.  A call is the abstract call from the moment  *)
(* the caller enters it; it returns or fails when its threads have joined; *)
(* what the threads do in between the exchange does not see.               *)

LEMMA Stages ==
  /\ StatusOf("between") = "idle"
  /\ StatusOf("header") = "busy" /\ StatusOf("body") = "busy" /\ StatusOf("unwind") = "busy"
  /\ StatusOf("broken") = "broken" /\ StatusOf("closed") = "closed"
  /\ StatusOf("crashed") = "crashed"
BY DEF StatusOf

LEMMA StandingMoves ==
  ASSUME TypeOK, NEW p \in Party, NEW stage, phase' = [phase EXCEPT ![p] = stage]
  PROVE  Standing' = [Standing EXCEPT ![p] = StatusOf(stage)]
<1>1. \A r \in Party : phase'[r] = IF r = p THEN stage ELSE phase[r]
  BY DEF TypeOK
<1>2. Standing' = [r \in Party |-> StatusOf(phase'[r])]
  BY DEF Standing
<1>3. [Standing EXCEPT ![p] = StatusOf(stage)]
        = [r \in Party |-> IF r = p THEN StatusOf(stage) ELSE StatusOf(phase[r])]
  BY DEF Standing
<1>4. \A r \in Party : StatusOf(phase'[r]) = IF r = p THEN StatusOf(stage) ELSE StatusOf(phase[r])
  BY <1>1
<1> QED BY <1>2, <1>3, <1>4

LEMMA Mapped ==
  /\ Promise!Party = Party
  /\ \A p \in Party : Promise!Peer(p) = Peer(p)
BY DEF Promise!Party, Party, Promise!Peer, Peer

LEMMA InitImplements == Init => Promise!ExchangeInit
<1> SUFFICES ASSUME Init PROVE Promise!ExchangeInit
  OBVIOUS
<1>1. Standing = [p \in Party |-> "idle"]
  BY Stages DEF Standing, Init
<1> QED BY <1>1, Mapped DEF Promise!ExchangeInit, Init

(* The steps of the exchange, one by one.                                  *)
LEMMA Steps ==
  ASSUME NEW p \in Party, Promise!ExchangeStep(p)
  PROVE  Promise!ExchangeNext
BY Mapped DEF Promise!ExchangeNext

LEMMA Calls ==
  ASSUME NEW p \in Party, NEW payload \in Payloads,
         Standing[p] = "idle", sent' = [sent EXCEPT ![p] = Append(@, payload)],
         Standing' = [Standing EXCEPT ![p] = "busy"], got' = got
  PROVE  Promise!ExchangeNext
<1>1. Promise!Call(p, payload)
  BY DEF Promise!Call
<1> QED BY <1>1, Steps DEF Promise!ExchangeStep

LEMMA Returns ==
  ASSUME NEW p \in Party, Standing[p] = "busy", Len(got[p]) < Len(sent[Peer(p)]),
         got' = [got EXCEPT ![p] = Append(@, sent[Peer(p)][Len(got[p]) + 1])],
         Standing' = [Standing EXCEPT ![p] = "idle"], sent' = sent
  PROVE  Promise!ExchangeNext
<1>1. Promise!Return(p)
  BY Mapped DEF Promise!Return, Promise!HasMail, Promise!Incoming
<1> QED BY <1>1, Steps DEF Promise!ExchangeStep

LEMMA Aborts ==
  ASSUME NEW p \in Party, Standing[p] = "busy",
         \/ Standing[Peer(p)] = "crashed"
         \/ /\ Standing[Peer(p)] = "closed"
            /\ ~(Len(got[p]) < Len(sent[Peer(p)])) \/ Len(got[Peer(p)]) < Len(sent[p]),
         Standing' = [Standing EXCEPT ![p] = "broken"], sent' = sent, got' = got
  PROVE  Promise!ExchangeNext
<1>1. Promise!HasMail(p) <=> Len(got[p]) < Len(sent[Peer(p)])
  BY Mapped DEF Promise!HasMail
<1>2. Promise!HasMail(Peer(p)) <=> Len(got[Peer(p)]) < Len(sent[p])
  BY Mapped, Ends DEF Promise!HasMail
<1>3. Promise!PeerIsGone(p)
  BY <1>1, <1>2, Mapped DEF Promise!PeerIsGone
<1>4. Promise!Abort(p)
  BY <1>3 DEF Promise!Abort
<1> QED BY <1>4, Steps DEF Promise!ExchangeStep

LEMMA Closes ==
  ASSUME NEW p \in Party, Standing[p] \in {"idle", "broken"},
         Standing' = [Standing EXCEPT ![p] = "closed"], sent' = sent, got' = got
  PROVE  Promise!ExchangeNext
<1>1. Promise!Close(p)
  BY DEF Promise!Close
<1> QED BY <1>1, Steps DEF Promise!ExchangeStep

LEMMA Crashes ==
  ASSUME NEW p \in Party, Standing[p] \in {"idle", "busy", "broken"},
         Standing' = [Standing EXCEPT ![p] = "crashed"], sent' = sent, got' = got
  PROVE  Promise!ExchangeNext
<1>1. Promise!Crash(p)
  BY DEF Promise!Crash
<1> QED BY <1>1, Steps DEF Promise!ExchangeStep

LEMMA Stutters ==
  ASSUME Standing' = Standing, sent' = sent, got' = got
  PROVE  UNCHANGED Promise!exchangeVars
BY DEF Promise!exchangeVars

(* A step between two stages of a call is not seen.                        *)
LEMMA InsideCall ==
  ASSUME TypeOK, NEW p \in Party, NEW stage, phase' = [phase EXCEPT ![p] = stage],
         StatusOf(phase[p]) = StatusOf(stage)
  PROVE  Standing' = Standing
<1>1. Standing' = [Standing EXCEPT ![p] = StatusOf(stage)]
  BY StandingMoves
<1>2. Standing[p] = StatusOf(stage) /\ Standing = [r \in Party |-> Standing[r]]
  BY DEF Standing
<1> QED BY <1>1, <1>2

LEMMA StepImplements ==
  ASSUME ChannelAssumption, PayloadsFit, ChannelInv, [Next]_vars
  PROVE  [Promise!ExchangeNext]_(Promise!exchangeVars)
<1>0. TypeOK /\ \A p \in Party : Sound(p) /\ Peer(p) \in Party /\ Peer(Peer(p)) = p
  BY Ends DEF ChannelInv
<1>1. \A p \in Party : Standing[p] = StatusOf(phase[p])
  BY DEF Standing
<1>2. ASSUME NEW p \in Party, NEW payload \in Payloads, Begin(p, payload)
      PROVE  Promise!ExchangeNext
  <2>1. Standing' = [Standing EXCEPT ![p] = "busy"] /\ Standing[p] = "idle"
    <3>1. phase' = [phase EXCEPT ![p] = "header"] /\ phase[p] = "between"
      BY <1>2 DEF Begin
    <3>2. Standing' = [Standing EXCEPT ![p] = StatusOf("header")]
      BY <1>0, <3>1, StandingMoves
    <3> QED BY <1>1, <3>1, <3>2, Stages
  <2> QED BY <1>2, <2>1, Calls DEF Begin
<1>3. ASSUME NEW p \in Party, Helper(p) PROVE UNCHANGED Promise!exchangeVars
  <2>1. phase' = phase /\ sent' = sent /\ got' = got
    BY <1>3 DEF Helper, Write, FinishWriting, FailWriting
  <2>2. Standing' = Standing
    BY <2>1 DEF Standing
  <2> QED BY <2>1, <2>2, Stutters
<1>4. ASSUME NEW p \in Party, ReadHeader(p) \/ ReadBody(p) \/ FailReading(p)
      PROVE  UNCHANGED Promise!exchangeVars
  <2>1. sent' = sent /\ got' = got
    BY <1>4 DEF ReadHeader, ReadBody, FailReading
  <2>2. CASE ReadHeader(p)
    <3>1. Standing' = Standing
      BY <1>0, <2>2, Stages, InsideCall DEF ReadHeader
    <3> QED BY <2>1, <3>1, Stutters
  <2>3. CASE ReadBody(p)
    <3>1. Standing' = Standing
      BY <2>3 DEF ReadBody, Standing
    <3> QED BY <2>1, <3>1, Stutters
  <2>4. CASE FailReading(p)
    <3>1. phase' = [phase EXCEPT ![p] = "unwind"] /\ StatusOf(phase[p]) = StatusOf("unwind")
      BY <2>4, Stages DEF FailReading, Reading
    <3>2. Standing' = Standing
      BY <1>0, <3>1, InsideCall
    <3> QED BY <2>1, <3>2, Stutters
  <2> QED BY <1>4, <2>2, <2>3, <2>4
<1>5. ASSUME NEW p \in Party, Unwind(p) PROVE Promise!ExchangeNext
  <2>1. Standing' = [Standing EXCEPT ![p] = "broken"] /\ Standing[p] = "busy"
        /\ sent' = sent /\ got' = got
    <3>1. phase' = [phase EXCEPT ![p] = "broken"] /\ phase[p] = "unwind" /\ sent' = sent /\ got' = got
      BY <1>5 DEF Unwind
    <3>2. Standing' = [Standing EXCEPT ![p] = StatusOf("broken")]
      BY <1>0, <3>1, StandingMoves
    <3> QED BY <1>1, <3>1, <3>2, Stages
  <2>2. LeftBehind(p)
    BY <1>0, <1>5 DEF Unwind, Sound, Threads
  <2>3. /\ Len(got[p]) \in Nat /\ Len(sent[Peer(p)]) \in Nat
    BY <1>0, Distances
  <2>4. \/ phase[Peer(p)] = "crashed"
        \/ /\ phase[Peer(p)] = "closed"
           /\ ~(Len(got[p]) < Len(sent[Peer(p)])) \/ Len(got[Peer(p)]) < Len(sent[p])
    BY <2>2, <2>3 DEF LeftBehind
  <2>5. \/ Standing[Peer(p)] = "crashed"
        \/ /\ Standing[Peer(p)] = "closed"
           /\ ~(Len(got[p]) < Len(sent[Peer(p)])) \/ Len(got[Peer(p)]) < Len(sent[p])
    BY <1>0, <1>1, <2>4, Stages
  <2> QED BY <2>1, <2>5, Aborts
<1>6. ASSUME NEW p \in Party, Join(p) PROVE Promise!ExchangeNext
  <2>1. phase[p] = "body" /\ ~WantsMore(p) /\ helper[p] \in {"ok", "failed"} /\ sent' = sent
    BY <1>6 DEF Join
  <2>2. Standing[p] = "busy"
    BY <1>1, <2>1, Stages
  <2>3. CASE helper[p] = "ok"
    <3>1. phase' = [phase EXCEPT ![p] = "between"] /\ got' = [got EXCEPT ![p] = Append(@, buffer[p])]
      BY <1>6, <2>3 DEF Join
    <3>2. Standing' = [Standing EXCEPT ![p] = "idle"]
      BY <1>0, <3>1, Stages, StandingMoves
    <3>3. Len(got[p]) < Len(sent[Peer(p)]) /\ buffer[p] = sent[Peer(p)][Len(got[p]) + 1]
      BY <2>1, WholeFrame
    <3>4. got' = [got EXCEPT ![p] = Append(@, sent[Peer(p)][Len(got[p]) + 1])]
      BY <3>1, <3>3
    <3> QED BY <2>1, <2>2, <3>2, <3>3, <3>4, Returns
  <2>4. CASE helper[p] = "failed"
    <3>1. phase' = [phase EXCEPT ![p] = "broken"] /\ got' = got
      BY <1>6, <2>4 DEF Join
    <3>2. Standing' = [Standing EXCEPT ![p] = "broken"]
      BY <1>0, <3>1, Stages, StandingMoves
    <3>3. phase[Peer(p)] \in {"closed", "crashed"} /\ Len(got[Peer(p)]) < Len(sent[p])
      BY <1>0, <2>4 DEF Sound, Threads, Gone
    <3>4. Standing[Peer(p)] = phase[Peer(p)]
      BY <1>0, <1>1, <3>3, Stages
    <3> QED BY <2>1, <2>2, <3>1, <3>2, <3>3, <3>4, Aborts
  <2> QED BY <2>1, <2>3, <2>4
<1>7. ASSUME NEW p \in Party, Close(p) PROVE Promise!ExchangeNext
  <2>1. phase' = [phase EXCEPT ![p] = "closed"] /\ sent' = sent /\ got' = got
    BY <1>7 DEF Close
  <2>2. Standing' = [Standing EXCEPT ![p] = "closed"]
    BY <1>0, <2>1, Stages, StandingMoves
  <2>3. Standing[p] \in {"idle", "broken"}
    BY <1>1, <1>7, Stages DEF Close
  <2> QED BY <2>1, <2>2, <2>3, Closes
<1>8. ASSUME NEW p \in Party, Crash(p) PROVE Promise!ExchangeNext
  <2>1. phase' = [phase EXCEPT ![p] = "crashed"] /\ sent' = sent /\ got' = got
    BY <1>8 DEF Crash
  <2>2. Standing' = [Standing EXCEPT ![p] = "crashed"]
    BY <1>0, <2>1, Stages, StandingMoves
  <2>3. phase[p] \in {"between", "header", "body", "unwind", "broken"}
    BY <1>0, <1>8 DEF Crash, Gone, TypeOK, Phases
  <2>4. Standing[p] \in {"idle", "busy", "broken"}
    BY <1>1, <2>3, Stages
  <2> QED BY <2>1, <2>2, <2>4, Crashes
<1>9. CASE UNCHANGED vars
  <2>1. phase' = phase /\ sent' = sent /\ got' = got
    BY <1>9 DEF vars
  <2>2. Standing' = Standing
    BY <2>1 DEF Standing
  <2> QED BY <2>1, <2>2, Stutters
<1> QED BY <1>2, <1>3, <1>4, <1>5, <1>6, <1>7, <1>8, <1>9 DEF Next, Caller, Reader, Over

(* Channel::exchange keeps its promise for every set of payloads whose     *)
(* lengths fit into a header, every capacity of the buffers and any number *)
(* of calls (net.rs:69-98).                                                *)
THEOREM ChannelIsExchange == PayloadsFit => (Spec => Implements)
<1> SUFFICES ASSUME PayloadsFit PROVE Spec => Implements
  OBVIOUS
<1>1. ChannelAssumption /\ Init => ChannelInv
  BY InitInv
<1>2. ChannelAssumption /\ PayloadsFit /\ ChannelInv /\ [Next]_vars => ChannelInv'
  BY StepInv
<1>3. Init => Promise!ExchangeInit
  BY InitImplements
<1>4. ChannelAssumption /\ PayloadsFit /\ ChannelInv /\ [Next]_vars
        => [Promise!ExchangeNext]_(Promise!exchangeVars)
  BY StepImplements
<1> QED BY <1>1, <1>2, <1>3, <1>4, ChannelAssumption, PTL DEF Spec, Implements, Promise!ExchangeSpec
=============================================================================
