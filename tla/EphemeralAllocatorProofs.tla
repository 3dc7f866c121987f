---------------------- MODULE EphemeralAllocatorProofs ----------------------
(***************************************************************************)
(* The allocator never gives a handle out twice, and every handle it gives *)
(* out can be followed, for any number of contexts, buffers and sizes.     *)
(***************************************************************************)
EXTENDS EphemeralAllocator, TLAPS

(* Index and offset of a handle *)

\* A handle is put together from its index and its offset.
LEMMA HandleParts ==
    ASSUME NEW h \in Nat
    PROVE  /\ Index(h) \in Nat
           /\ Offset(h) \in 0 .. BufSize - 1
           /\ h = Index(h) * BufSize + Offset(h)
    BY BufSizeAssumption DEF Index, Offset

\* Products with the size of a buffer keep the order of the indices.
LEMMA ProductOrder ==
    ASSUME NEW i \in Nat, NEW j \in Nat, i < j
    PROVE  i * BufSize + BufSize <= j * BufSize
<1>1. PICK d \in Nat : j = i + 1 + d
    <2>1. j - i - 1 \in Nat
        OBVIOUS
    <2>2. j = i + 1 + (j - i - 1)
        OBVIOUS
    <2> QED BY <2>1, <2>2
<1>2. d * BufSize >= 0
    BY <1>1, BufSizeAssumption
<1>3. j * BufSize = i * BufSize + BufSize + d * BufSize
    BY <1>1, BufSizeAssumption
<1>4. i * BufSize \in Nat /\ d * BufSize \in Nat
    BY <1>1, BufSizeAssumption
<1> QED BY <1>2, <1>3, <1>4, BufSizeAssumption

\* Index and offset are unique.
LEMMA PartsUnique ==
    ASSUME NEW q \in Nat, NEW r \in 0 .. BufSize - 1
    PROVE  /\ Index(q * BufSize + r) = q
           /\ Offset(q * BufSize + r) = r
<1> DEFINE h == q * BufSize + r
<1>1. q * BufSize \in Nat /\ h \in Nat
    BY BufSizeAssumption
<1>2. /\ Index(h) \in Nat
      /\ Offset(h) \in 0 .. BufSize - 1
      /\ h = Index(h) * BufSize + Offset(h)
    BY <1>1, HandleParts
<1> HIDE DEF h
<1>3. Index(h) * BufSize \in Nat
    BY <1>2, BufSizeAssumption
<1>4. ~(Index(h) < q)
    <2>1. Index(h) < q => Index(h) * BufSize + BufSize <= q * BufSize
        BY <1>2, ProductOrder
    <2> QED BY <2>1, <1>1, <1>2, <1>3, BufSizeAssumption DEF h
<1>5. ~(q < Index(h))
    <2>1. q < Index(h) => q * BufSize + BufSize <= Index(h) * BufSize
        BY <1>2, ProductOrder
    <2> QED BY <2>1, <1>1, <1>2, <1>3, BufSizeAssumption DEF h
<1>6. Index(h) = q
    BY <1>2, <1>4, <1>5
<1>7. Offset(h) = r
    BY <1>1, <1>2, <1>6, BufSizeAssumption DEF h
<1> QED BY <1>6, <1>7 DEF h

\* The handles of the buffer with index i.
LEMMA BufferHandles ==
    ASSUME NEW i \in Buffer, NEW r \in 0 .. BufSize - 1
    PROVE  /\ i * BufSize + r \in Handle
           /\ Index(i * BufSize + r) = i
           /\ Offset(i * BufSize + r) = r
<1>1. i \in Nat /\ NumBuffers \in Nat /\ i < NumBuffers
    BY NumBuffersAssumption DEF Buffer
<1>2. i * BufSize + BufSize <= NumBuffers * BufSize
    BY <1>1, ProductOrder
<1>3. i * BufSize \in Nat /\ NumBuffers * BufSize \in Nat
    BY <1>1, BufSizeAssumption
<1>4. i * BufSize + r \in Handle
    BY <1>2, <1>3, BufSizeAssumption DEF Handle
<1> QED BY <1>1, <1>4, PartsUnique

\* The first handle of a buffer.
LEMMA BaseHandle ==
    ASSUME NEW i \in Buffer
    PROVE  Base(i) \in Handle /\ Index(Base(i)) = i /\ Offset(Base(i)) = 0
<1>1. 0 \in 0 .. BufSize - 1
    BY BufSizeAssumption
<1>2. i * BufSize + 0 = Base(i)
    BY BufSizeAssumption, NumBuffersAssumption DEF Base, Buffer
<1> QED BY <1>1, <1>2, BufferHandles

\* A handle is a natural number, and lies in one of the buffers.
LEMMA HandleBuffer ==
    ASSUME NEW h \in Handle
    PROVE  /\ h \in Nat
           /\ Index(h) \in Buffer
           /\ Offset(h) \in 0 .. BufSize - 1
           /\ h = Index(h) * BufSize + Offset(h)
<1>1. NumBuffers * BufSize \in Nat
    BY BufSizeAssumption, NumBuffersAssumption
<1>2. h \in Nat /\ h < NumBuffers * BufSize
    BY <1>1 DEF Handle
<1>3. /\ Index(h) \in Nat
      /\ Offset(h) \in 0 .. BufSize - 1
      /\ h = Index(h) * BufSize + Offset(h)
    BY <1>2, HandleParts
<1>4. Index(h) * BufSize \in Nat
    BY <1>3, BufSizeAssumption
<1>5. Index(h) # NumBuffers
    BY <1>1, <1>2, <1>3, <1>4, BufSizeAssumption
<1>6. ~(NumBuffers < Index(h))
    <2>1. NumBuffers < Index(h) =>
              NumBuffers * BufSize + BufSize <= Index(h) * BufSize
        BY <1>3, NumBuffersAssumption, ProductOrder
    <2> QED BY <2>1, <1>1, <1>2, <1>3, <1>4, BufSizeAssumption
<1>7. Index(h) \in Buffer
    BY <1>3, <1>5, <1>6, NumBuffersAssumption DEF Buffer
<1> QED BY <1>2, <1>3, <1>7

\* An allocation that passes overflow_check stays in the buffer, and so does
\* the position after it; it does not touch the last handle of the buffer.
LEMMA StaysInside ==
    ASSUME NEW h \in Handle, NEW n \in Nat, Offset(h) + n < BufSize,
           NEW g \in h .. h + n
    PROVE  /\ g \in Handle
           /\ Index(g) = Index(h)
           /\ Offset(g) = Offset(h) + (g - h)
<1>1. /\ h \in Nat
      /\ Index(h) \in Buffer
      /\ Offset(h) \in 0 .. BufSize - 1
      /\ h = Index(h) * BufSize + Offset(h)
    BY HandleBuffer
<1> DEFINE r == Offset(h) + (g - h)
<1>2. r \in 0 .. BufSize - 1
    BY <1>1, BufSizeAssumption
<1>3. Index(h) * BufSize \in Nat
    BY <1>1, BufSizeAssumption, NumBuffersAssumption DEF Buffer
<1>4. g = Index(h) * BufSize + r
    BY <1>1, <1>3, BufSizeAssumption
<1> HIDE DEF r
<1>5. /\ Index(h) * BufSize + r \in Handle
      /\ Index(Index(h) * BufSize + r) = Index(h)
      /\ Offset(Index(h) * BufSize + r) = r
    BY <1>1, <1>2, BufferHandles
<1> QED BY <1>4, <1>5 DEF r

\* The handle UINT32_MAX has the largest offset.
LEMMA SentinelOffset == Offset(NumBuffers * BufSize - 1) = BufSize - 1
<1> DEFINE i == NumBuffers - 1
           r == BufSize - 1
<1>1. i \in Nat /\ r \in 0 .. BufSize - 1
    BY BufSizeAssumption, NumBuffersAssumption
<1>2. i * BufSize + r = NumBuffers * BufSize - 1
    BY BufSizeAssumption, NumBuffersAssumption
<1> HIDE DEF i
<1> QED BY <1>1, <1>2, PartsUnique

-----------------------------------------------------------------------------
(* The invariant *)

\* PositionsOK for one kind, in its parts.
GivenOK(k) ==
    \A h \in Handle : times[k][h] > 0 =>
        Index(h) \in made[k] /\ Index(h) < next[k] /\ Offset(h) < BufSize - 1
CounterOK(k) ==
    \A c \in Contexts : Holds(c, k) =>
        Index(pos[k][c]) \in made[k] /\ Index(pos[k][c]) < next[k]
FreshOK(k) ==
    \A c \in Contexts : Holds(c, k) =>
        \A h \in Handle : Index(h) = Index(pos[k][c]) /\ h >= pos[k][c]
                            => times[k][h] = 0
ApartOK(k) ==
    \A c \in Contexts : Holds(c, k) =>
        \A d \in Contexts : d # c /\ Holds(d, k) =>
            Index(pos[k][d]) # Index(pos[k][c])

\* PositionsOK is the conjunction of its parts.
LEMMA PositionParts ==
    PositionsOK <=> \A k \in Kind : GivenOK(k) /\ CounterOK(k) /\ FreshOK(k) /\ ApartOK(k)
    BY DEF PositionsOK, GivenOK, CounterOK, FreshOK, ApartOK

\* The initial state satisfies the invariant.
LEMMA InitInd == Init => IndInv
<1> SUFFICES ASSUME Init PROVE IndInv
    OBVIOUS
<1>1. 0 \in Handle
    <2>1. 0 \in Buffer
        BY NumBuffersAssumption DEF Buffer
    <2>2. Base(0) = 0
        BY BufSizeAssumption DEF Base
    <2> QED BY <2>1, <2>2, BaseHandle
<1>2. TypeOK
    BY <1>1 DEF Init, TypeOK
<1>3. GivenOnce
    BY DEF Init, GivenOnce
<1>4. PositionsOK
    BY DEF Init, PositionsOK, Holds
<1> QED BY <1>2, <1>3, <1>4 DEF IndInv

\* A step that gives context c the next buffer of kind k keeps the invariant:
\* nobody is in that buffer, and nothing of it was given out.
LEMMA AssignStep ==
    ASSUME IndInv, NEW c \in Contexts, NEW k \in Kind, Assign(c, k),
           UNCHANGED times,
           state' \in [Contexts -> {"none", "half", "ready"}],
           \A d \in Contexts, j \in Kind :
               Holds(d, j)' => Holds(d, j) \/ (d = c /\ j = k)
    PROVE  IndInv'
<1> USE DEF IndInv
<1> DEFINE i == next[k]
<1>1. i \in Buffer
    BY NumBuffersAssumption DEF TypeOK, Assign, Buffer
<1>2. Base(i) \in Handle /\ Index(Base(i)) = i
    BY <1>1, BaseHandle
<1> HIDE DEF i
<1>3. /\ next' = [next EXCEPT ![k] = i + 1]
      /\ made' = [made EXCEPT ![k] = @ \cup {i}]
      /\ pos'  = [pos EXCEPT ![k][c] = Base(i)]
    BY DEF Assign, i
<1>4. TypeOK'
    <2>1. next' \in [Kind -> Nat]
        BY <1>1, <1>3, NumBuffersAssumption DEF TypeOK, Buffer
    <2>2. made' \in [Kind -> SUBSET Buffer]
        BY <1>1, <1>3 DEF TypeOK
    <2>3. pos' \in [Kind -> [Contexts -> Handle]]
        BY <1>2, <1>3 DEF TypeOK
    <2> QED BY <2>1, <2>2, <2>3 DEF TypeOK
<1>5. GivenOnce'
    BY DEF GivenOnce
<1>6. ASSUME NEW j \in Kind
      PROVE  GivenOK(j)' /\ CounterOK(j)' /\ FreshOK(j)' /\ ApartOK(j)'
    <2>1. GivenOK(j) /\ CounterOK(j) /\ FreshOK(j) /\ ApartOK(j)
        BY PositionParts
    <2>2. /\ next[j] \in Nat
          /\ \A h \in Handle : times[j][h] \in Nat
          /\ \A h \in Handle : Index(h) \in Nat
        BY HandleBuffer, NumBuffersAssumption DEF TypeOK, Buffer
    <2>3. \A d \in Contexts : pos[j][d] \in Handle /\ pos'[j][d] \in Handle
        BY <1>4 DEF TypeOK
    <2>4. CASE j # k
        <3>1. next'[j] = next[j] /\ made'[j] = made[j] /\ pos'[j] = pos[j]
            BY <1>3, <2>4 DEF TypeOK
        <3>2. \A d \in Contexts : Holds(d, j)' => Holds(d, j)
            BY <2>4
        <3> QED BY <2>1, <3>1, <3>2 DEF GivenOK, CounterOK, FreshOK, ApartOK
    <2>5. CASE j = k
        <3>1. /\ next[j] = i /\ next'[j] = i + 1
              /\ made'[j] = made[j] \cup {i}
              /\ pos'[j][c] = Base(i)
              /\ \A d \in Contexts : d # c => pos'[j][d] = pos[j][d]
            BY <1>3, <2>5 DEF TypeOK, i
        <3>2. \A d \in Contexts : d # c /\ Holds(d, j)' => Holds(d, j)
            BY <2>5
        <3>3. GivenOK(j)'
            BY <2>1, <2>2, <3>1 DEF GivenOK
        <3>4. CounterOK(j)'
            BY <1>2, <2>1, <2>2, <2>3, <3>1, <3>2 DEF CounterOK
        <3>5. FreshOK(j)'
            <4>1. \A h \in Handle : Index(h) = i => times[j][h] = 0
                BY <2>1, <2>2, <3>1 DEF GivenOK
            <4> QED BY <1>2, <2>1, <3>1, <3>2, <4>1 DEF FreshOK
        <3>6. ApartOK(j)'
            <4>1. \A d \in Contexts : d # c /\ Holds(d, j)' =>
                      Index(pos'[j][d]) # i
                BY <2>1, <2>2, <2>3, <3>1, <3>2 DEF CounterOK
            <4> QED BY <1>2, <2>1, <3>1, <3>2, <4>1 DEF ApartOK
        <3> QED BY <3>3, <3>4, <3>5, <3>6
    <2> QED BY <2>4, <2>5
<1>7. PositionsOK'
    BY <1>6 DEF PositionsOK, GivenOK, CounterOK, FreshOK, ApartOK
<1> QED BY <1>4, <1>5, <1>7

\* allocate and allocate_value keep the invariant: the handles they give out
\* are of the context's own buffer and were not given out before.
LEMMA AllocateStep ==
    ASSUME IndInv, NEW c \in Contexts, NEW k \in Kind, NEW n \in Counts(k),
           Allocate(c, k, n)
    PROVE  IndInv'
<1> USE DEF IndInv
<1> DEFINE p == pos[k][c]
<1>1. n \in Nat \ {0}
    BY CountsAssumption, BufSizeAssumption DEF Counts
<1>2. p \in Handle
    BY DEF TypeOK
<1>3. Offset(p) \in 0 .. BufSize - 1 /\ p \in Nat
    BY <1>2, HandleBuffer
<1>4. Offset(p) + n < BufSize
    BY <1>1, <1>3, BufSizeAssumption DEF Allocate, overflow_check
<1>5. Holds(c, k)
    BY DEF Allocate, Holds
<1> HIDE DEF p
<1>6. \A h \in p .. p + n : /\ h \in Handle
                            /\ Index(h) = Index(p)
                            /\ Offset(h) = Offset(p) + (h - p)
    BY <1>1, <1>2, <1>4, StaysInside
<1>7. p + n \in Handle /\ Index(p + n) = Index(p)
    BY <1>1, <1>3, <1>6
<1>8. /\ times' = [times EXCEPT ![k] = [h \in Handle |->
                       IF h \in Block(p, n) THEN times[k][h] + 1 ELSE times[k][h]]]
      /\ pos' = [pos EXCEPT ![k][c] = p + n]
      /\ next' = next /\ made' = made /\ state' = state
    BY DEF Allocate, p
<1>9. \A h \in Handle : h \in Nat /\ times[k][h] \in Nat
    BY HandleBuffer DEF TypeOK
<1>10. \A h \in Block(p, n) : /\ h \in Handle /\ h >= p /\ h < p + n
                              /\ Index(h) = Index(p)
                              /\ Offset(h) < BufSize - 1
    BY <1>1, <1>3, <1>4, <1>6, BufSizeAssumption DEF Block
<1>11. GivenOK(k) /\ CounterOK(k) /\ FreshOK(k) /\ ApartOK(k)
    BY PositionParts
<1>12. \A h \in Block(p, n) : times[k][h] = 0
    BY <1>5, <1>10, <1>11 DEF FreshOK, p
<1>13. \A h \in Handle : times'[k][h] = IF h \in Block(p, n) THEN 1 ELSE times[k][h]
    BY <1>8, <1>12 DEF TypeOK
<1>14. TypeOK'
    <2>1. pos' \in [Kind -> [Contexts -> Handle]]
        BY <1>7, <1>8 DEF TypeOK
    <2>2. times' \in [Kind -> [Handle -> Nat]]
        BY <1>8, <1>9 DEF TypeOK
    <2> QED BY <1>8, <2>1, <2>2 DEF TypeOK
<1>15. \A j \in Kind : j # k => times'[j] = times[j] /\ pos'[j] = pos[j]
    BY <1>8 DEF TypeOK
<1>16. \A d \in Contexts, j \in Kind : Holds(d, j)' <=> Holds(d, j)
    BY <1>8 DEF Holds
<1>17. GivenOnce'
    <2>1. \A h \in Handle : times'[k][h] <= 1
        BY <1>13 DEF GivenOnce
    <2>2. \A j \in Kind, h \in Handle : j # k => times'[j][h] <= 1
        BY <1>15 DEF GivenOnce
    <2> QED BY <2>1, <2>2 DEF GivenOnce
<1>18. ASSUME NEW j \in Kind
       PROVE  GivenOK(j)' /\ CounterOK(j)' /\ FreshOK(j)' /\ ApartOK(j)'
    <2>1. CASE j # k
        <3>1. GivenOK(j) /\ CounterOK(j) /\ FreshOK(j) /\ ApartOK(j)
            BY PositionParts
        <3> QED BY <1>8, <1>15, <1>16, <2>1, <3>1
            DEF GivenOK, CounterOK, FreshOK, ApartOK
    <2>2. CASE j = k
        <3>1. /\ pos'[k][c] = p + n
              /\ \A d \in Contexts : d # c => pos'[k][d] = pos[k][d]
            BY <1>8 DEF TypeOK
        <3>2. Index(pos'[k][c]) = Index(pos[k][c])
            BY <1>7, <3>1 DEF p
        <3>3. GivenOK(k)'
            <4>1. Index(p) \in made[k] /\ Index(p) < next[k]
                BY <1>5, <1>11 DEF CounterOK, p
            <4> QED BY <1>8, <1>10, <1>11, <1>13, <4>1 DEF GivenOK
        <3>4. CounterOK(k)'
            BY <1>8, <1>11, <1>16, <3>1, <3>2 DEF CounterOK
        <3>5. FreshOK(k)'
            <4>1. ASSUME NEW h \in Handle, Index(h) = Index(p), h >= p + n
                  PROVE  times'[k][h] = 0
                <5>1. h \notin Block(p, n)
                    BY <4>1, <1>1, <1>3, <1>9 DEF Block
                <5>2. h >= p
                    BY <4>1, <1>1, <1>3, <1>9
                <5> QED BY <1>5, <1>11, <1>13, <4>1, <5>1, <5>2 DEF FreshOK, p
            <4>2. ASSUME NEW d \in Contexts, d # c, Holds(d, k),
                         NEW h \in Handle, Index(h) = Index(pos[k][d]), h >= pos[k][d]
                  PROVE  times'[k][h] = 0
                <5>1. Index(pos[k][d]) # Index(p)
                    BY <1>5, <1>11, <4>2 DEF ApartOK, p
                <5>2. h \notin Block(p, n)
                    BY <1>10, <4>2, <5>1
                <5> QED BY <1>11, <1>13, <4>2, <5>2 DEF FreshOK
            <4> QED BY <1>7, <1>16, <3>1, <4>1, <4>2 DEF FreshOK
        <3>6. ApartOK(k)'
            BY <1>11, <1>16, <3>1, <3>2 DEF ApartOK
        <3> QED BY <2>2, <3>3, <3>4, <3>5, <3>6
    <2> QED BY <2>1, <2>2
<1>19. PositionsOK'
    BY <1>18 DEF PositionsOK, GivenOK, CounterOK, FreshOK, ApartOK
<1> QED BY <1>14, <1>17, <1>19

\* A step that only advances counters, and may take a context away, keeps the
\* invariant.
LEMMA ExhaustedStep ==
    ASSUME IndInv, NEW k \in Kind, Exhausted(k), UNCHANGED <<made, pos, times>>,
           state' \in [Contexts -> {"none", "half", "ready"}],
           \A d \in Contexts, j \in Kind : Holds(d, j)' => Holds(d, j)
    PROVE  IndInv'
<1> USE DEF IndInv
<1>1. /\ next' \in [Kind -> Nat]
      /\ \A j \in Kind : next[j] \in Nat /\ next'[j] >= next[j]
    BY RequestsAssumption DEF TypeOK, Exhausted
<1>2. TypeOK'
    BY <1>1 DEF TypeOK
<1>3. GivenOnce'
    BY DEF GivenOnce
<1>4. \A h \in Handle : Index(h) \in Nat
    BY HandleBuffer, NumBuffersAssumption DEF Buffer
<1>5. \A j \in Kind, d \in Contexts : pos[j][d] \in Handle
    BY DEF TypeOK
<1>6. \A j \in Kind : GivenOK(j)' /\ CounterOK(j)' /\ FreshOK(j)' /\ ApartOK(j)'
    <2> SUFFICES ASSUME NEW j \in Kind
                 PROVE  GivenOK(j)' /\ CounterOK(j)' /\ FreshOK(j)' /\ ApartOK(j)'
        OBVIOUS
    <2>1. GivenOK(j) /\ CounterOK(j) /\ FreshOK(j) /\ ApartOK(j)
        BY PositionParts
    <2>2. GivenOK(j)'
        BY <1>1, <1>4, <2>1 DEF GivenOK
    <2>3. CounterOK(j)'
        BY <1>1, <1>4, <1>5, <2>1 DEF CounterOK
    <2>4. FreshOK(j)' /\ ApartOK(j)'
        BY <2>1 DEF FreshOK, ApartOK
    <2> QED BY <2>2, <2>3, <2>4
<1>7. PositionsOK'
    BY <1>6 DEF PositionsOK, GivenOK, CounterOK, FreshOK, ApartOK
<1> QED BY <1>2, <1>3, <1>7

\* Every step keeps the invariant.
LEMMA NextInd == IndInv /\ [Next]_vars => IndInv'
<1> SUFFICES ASSUME IndInv, [Next]_vars PROVE IndInv'
    OBVIOUS
<1>0. state \in [Contexts -> {"none", "half", "ready"}]
    BY DEF IndInv, TypeOK
<1>1. ASSUME NEW c \in Contexts, NewContextNode(c) PROVE IndInv'
    <2>1. Assign(c, "node") /\ UNCHANGED times /\ "node" \in Kind
        BY <1>1 DEF NewContextNode, Kind
    <2>2. state' \in [Contexts -> {"none", "half", "ready"}]
        BY <1>0, <1>1 DEF NewContextNode
    <2>3. \A d \in Contexts, j \in Kind :
              Holds(d, j)' => Holds(d, j) \/ (d = c /\ j = "node")
        BY <1>0, <1>1 DEF NewContextNode, Holds
    <2> QED BY <2>1, <2>2, <2>3, AssignStep
<1>2. ASSUME NEW c \in Contexts, NewContextValue(c) PROVE IndInv'
    <2>1. Assign(c, "value") /\ UNCHANGED times /\ "value" \in Kind
        BY <1>2 DEF NewContextValue, Kind
    <2>2. state' \in [Contexts -> {"none", "half", "ready"}]
        BY <1>0, <1>2 DEF NewContextValue
    <2>3. \A d \in Contexts, j \in Kind :
              Holds(d, j)' => Holds(d, j) \/ (d = c /\ j = "value")
        BY <1>0, <1>2 DEF NewContextValue, Holds, Kind
    <2> QED BY <2>1, <2>2, <2>3, AssignStep
<1>3. ASSUME NEW c \in Contexts, NewContextFails(c) PROVE IndInv'
    <2>1. PICK k \in Kind : Exhausted(k)
        BY <1>3 DEF NewContextFails, Kind
    <2>2. state' \in [Contexts -> {"none", "half", "ready"}]
        BY <1>0, <1>3 DEF NewContextFails
    <2>3. \A d \in Contexts, j \in Kind : Holds(d, j)' => Holds(d, j)
        BY <1>0, <1>3 DEF NewContextFails, Holds
    <2>4. UNCHANGED <<made, pos, times>>
        BY <1>3 DEF NewContextFails
    <2> QED BY <2>1, <2>2, <2>3, <2>4, ExhaustedStep
<1>4. ASSUME NEW c \in Contexts, NEW k \in Kind, NEW n \in Counts(k),
             AssignNewBuffer(c, k, n)
      PROVE  IndInv'
    <2>1. Assign(c, k) /\ UNCHANGED <<state, times>>
        BY <1>4 DEF AssignNewBuffer
    <2>2. \A d \in Contexts, j \in Kind : Holds(d, j)' => Holds(d, j)
        BY <2>1 DEF Holds
    <2> QED BY <1>0, <2>1, <2>2, AssignStep
<1>5. ASSUME NEW c \in Contexts, NEW k \in Kind, NEW n \in Counts(k),
             AllocateFails(c, k, n)
      PROVE  IndInv'
    <2>1. Exhausted(k) /\ UNCHANGED <<made, state, pos, times>>
        BY <1>5 DEF AllocateFails
    <2>2. \A d \in Contexts, j \in Kind : Holds(d, j)' => Holds(d, j)
        BY <2>1 DEF Holds
    <2> QED BY <1>0, <2>1, <2>2, ExhaustedStep
<1>6. CASE Reset
    <2>1. TypeOK'
        BY <1>6 DEF Reset, IndInv, TypeOK
    <2>2. \A k \in Kind, h \in Handle : times'[k][h] = 0
        BY <1>6 DEF Reset
    <2>3. \A c \in Contexts, k \in Kind : ~Holds(c, k)'
        BY <1>6 DEF Reset, Holds
    <2>4. GivenOnce'
        BY <2>2 DEF GivenOnce
    <2>5. PositionsOK'
        BY <2>2, <2>3 DEF PositionsOK
    <2> QED BY <2>1, <2>4, <2>5 DEF IndInv
<1>7. CASE UNCHANGED vars
    <2>1. TypeOK' /\ GivenOnce'
        BY <1>7 DEF vars, IndInv, TypeOK, GivenOnce
    <2>2. PositionsOK'
        BY <1>7 DEF vars, IndInv, PositionsOK, Holds
    <2> QED BY <2>1, <2>2 DEF IndInv
<1> QED BY <1>1, <1>2, <1>3, <1>4, <1>5, <1>6, <1>7, AllocateStep DEF Next

\* The invariant holds in every reachable state.
THEOREM Inductive == Spec => []IndInv
    BY InitInd, NextInd, PTL DEF Spec

\* Every variable keeps its type; in particular no position leaves the buffers.
THEOREM Typed == Spec => []TypeOK
<1>1. IndInv => TypeOK
    BY DEF IndInv
<1> QED BY <1>1, Inductive, PTL

\* No handle is given out twice before a reset, for any number of contexts
\* that compete for the buffers.
THEOREM NeverGivenTwice == Spec => []GivenOnce
<1>1. IndInv => GivenOnce
    BY DEF IndInv
<1> QED BY <1>1, Inductive, PTL

\* Every handle that was given out has memory, and is not the handle that
\* stands for no child.
THEOREM AlwaysUsable == Spec => []HandlesUsable
<1>1. IndInv => HandlesUsable
    <2> SUFFICES ASSUME IndInv, NEW k \in Kind, NEW h \in Handle, times[k][h] > 0
                 PROVE  Index(h) \in made[k] /\ h # NumBuffers * BufSize - 1
        BY DEF HandlesUsable
    <2>1. Index(h) \in made[k] /\ Offset(h) < BufSize - 1
        BY DEF IndInv, PositionsOK
    <2> QED BY <2>1, SentinelOffset, BufSizeAssumption
<1> QED BY <1>1, Inductive, PTL
=============================================================================
