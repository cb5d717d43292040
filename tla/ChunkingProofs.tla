--------------------------- MODULE ChunkingProofs ---------------------------
(***************************************************************************)
(* Proofs about the splitting of documents, for any window, any overlap     *)
(* that is smaller, and any document.                                       *)
(***************************************************************************)
EXTENDS Chunking, TLAPS, WellFoundedInduction

-----------------------------------------------------------------------------
(* Sets of numbers.                                                        *)

LEMMA Least ==
    ASSUME NEW S \in SUBSET Nat, S # {}
    PROVE  \E m \in S : \A n \in S : m <= n
  <1> DEFINE R == {ss \in Nat \X Nat : ss[1] < ss[2]}
  <1>1. R = OpToRel(<, Nat)
    BY DEF OpToRel
  <1>2. IsWellFoundedOn(R, Nat)
    BY <1>1, NatLessThanWellFounded
  <1> HIDE DEF R
  <1>3. PICK x \in S : \A y \in S : ~(<<y, x>> \in R)
    BY <1>2, WFMin
  <1>4. ASSUME NEW y \in S PROVE x <= y
    <2>1. ~(<<y, x>> \in R)
      BY <1>3
    <2>2. x \in Nat /\ y \in Nat
      OBVIOUS
    <2>3. <<y, x>> \in Nat \X Nat /\ <<y, x>>[1] = y /\ <<y, x>>[2] = x
      BY <2>2
    <2>4. ~(y < x)
      BY <2>1, <2>3 DEF R
    <2> QED BY <2>2, <2>4
  <1> QED BY <1>4

LEMMA Greatest ==
    ASSUME NEW S \in SUBSET Nat, S # {}, NEW b \in Nat, \A n \in S : n <= b
    PROVE  \E m \in S : \A n \in S : n <= m
  <1> DEFINE T == {k \in Nat : b - k \in S}
  <1>1. \A n \in S : n \in Nat /\ b - n \in Nat /\ b - (b - n) = n
    OBVIOUS
  <1>2. \A n \in S : b - n \in T
    BY <1>1
  <1>3. T \in SUBSET Nat /\ T # {}
    BY <1>2
  <1>4. PICK k \in T : \A l \in T : k <= l
    <2> HIDE DEF T
    <2> QED BY <1>3, Least
  <1>5. b - k \in S /\ k \in Nat
    BY <1>4
  <1>6. \A n \in S : n <= b - k
    <2> TAKE n \in S
    <2>1. k <= b - n
      BY <1>2, <1>4
    <2> QED BY <1>1, <1>5, <2>1
  <1> QED BY <1>5, <1>6

-----------------------------------------------------------------------------
(* The end of a window.                                                    *)

Ends(p, s) == {b \in p.ends : s < b /\ b <= s + ChunkSize}

\* The last boundary in the window, wherever it is, or its full length.
LEMMA BoundaryIsLast ==
    ASSUME NEW p \in Page, NEW s \in Nat
    PROVE  \/ /\ Boundary(p, s) \in Ends(p, s)
              /\ \A b \in Ends(p, s) : b <= Boundary(p, s)
           \/ Ends(p, s) = {} /\ Boundary(p, s) = s + ChunkSize
  <1> DEFINE F == s + Larger(1, ChunkSize \div 2)
             L == {b \in Ends(p, s) : b >= F}
             Last(S) == CHOOSE b \in S : \A d \in S : d <= b
  <1>0. p.ends \subseteq Nat /\ s + ChunkSize \in Nat
    BY ChunkingAssumption DEF Page
  <1>1. Ends(p, s) \in SUBSET Nat /\ \A b \in Ends(p, s) : b <= s + ChunkSize
    BY <1>0 DEF Ends
  <1>2. F \in Nat
    BY ChunkingAssumption DEF Larger
  <1>3. Boundary(p, s) = IF L # {} THEN Last(L)
                         ELSE IF Ends(p, s) # {} THEN Last(Ends(p, s)) ELSE s + ChunkSize
    BY DEF Boundary, Ends
  <1> HIDE DEF F
  <1>4. CASE L # {}
    <2>1. \E m \in L : \A n \in L : n <= m
      <3>1. L \in SUBSET Nat /\ \A n \in L : n <= s + ChunkSize
        BY <1>1
      <3> HIDE DEF L
      <3> QED BY <1>0, <1>4, <3>1, Greatest
    <2>2. Last(L) \in L /\ \A n \in L : n <= Last(L)
      <3> HIDE DEF L
      <3> QED BY <2>1
    <2> HIDE DEF Last
    <2>3. \A b \in Ends(p, s) : b <= Last(L)
      BY <1>1, <1>2, <2>2
    <2> QED BY <1>3, <1>4, <2>2, <2>3
  <1>5. CASE L = {} /\ Ends(p, s) # {}
    <2>1. \E m \in Ends(p, s) : \A n \in Ends(p, s) : n <= m
      BY <1>0, <1>1, <1>5, Greatest
    <2> QED BY <1>3, <1>5, <2>1
  <1> QED BY <1>3, <1>4, <1>5

\* A window is not empty, not longer than ChunkSize and ends in its page.
LEMMA EndInWindow ==
    ASSUME NEW p \in Page, NEW s \in Nat, s < p.tokens
    PROVE  /\ End(p, s) \in Nat /\ p.tokens \in 0..MaxTokens
           /\ s < End(p, s) /\ End(p, s) <= s + ChunkSize /\ End(p, s) <= p.tokens
  <1>1. p.tokens \in 0..MaxTokens /\ p.ends \subseteq 1..p.tokens
    BY DEF Page
  <1>2. CASE s + ChunkSize < p.tokens
    <2>1. End(p, s) = Boundary(p, s)
      BY <1>2 DEF End
    <2> QED BY <1>1, <1>2, <2>1, BoundaryIsLast, ChunkingAssumption DEF Ends
  <1>3. CASE ~(s + ChunkSize < p.tokens)
    BY <1>1, <1>3, ChunkingAssumption DEF End
  <1> QED BY <1>2, <1>3

\* A window that begins later in the page does not end earlier.
LEMMA EndGrows ==
    ASSUME NEW p \in Page, NEW s \in Nat, NEW r \in Nat,
           s < r, r <= End(p, s), End(p, s) < p.tokens
    PROVE  r < p.tokens /\ End(p, s) <= End(p, r)
  <1>1. p.tokens \in Nat /\ p.ends \subseteq Nat
    BY ChunkingAssumption DEF Page
  <1>2. s < p.tokens
    BY <1>1, ChunkingAssumption DEF End
  <1>3. End(p, s) \in Nat /\ End(p, s) <= s + ChunkSize /\ r < p.tokens
    BY <1>1, <1>2, EndInWindow
  <1>4. r < End(p, r) /\ End(p, r) \in Nat
    BY <1>3, EndInWindow
  <1>5. CASE r + ChunkSize < p.tokens
    <2>1. End(p, r) = Boundary(p, r) /\ End(p, s) = Boundary(p, s)
      BY <1>1, <1>3, <1>5, ChunkingAssumption DEF End
    <2>2. CASE Boundary(p, s) \in Ends(p, s)
      <3>1. CASE r = End(p, s)
        BY <1>3, <1>4, <3>1
      <3>2. CASE r < End(p, s)
        <4>1. End(p, s) \in Ends(p, r)
          BY <1>3, <2>1, <2>2, <3>2, ChunkingAssumption DEF Ends
        <4>2. \A b \in Ends(p, r) : b <= Boundary(p, r)
          BY <4>1, BoundaryIsLast
        <4> QED BY <1>3, <2>1, <4>1, <4>2
      <3> QED BY <1>3, <3>1, <3>2
    <2>3. CASE Ends(p, s) = {} /\ Boundary(p, s) = s + ChunkSize
      <3>1. CASE Boundary(p, r) \in Ends(p, r)
        <4>1. Boundary(p, r) \in p.ends /\ s < Boundary(p, r) /\ Boundary(p, r) \in Nat
          BY <1>1, <3>1 DEF Ends
        <4>2. ~(Boundary(p, r) <= s + ChunkSize)
          BY <2>3, <4>1 DEF Ends
        <4>3. s + ChunkSize \in Nat
          BY ChunkingAssumption
        <4> QED BY <1>3, <2>1, <2>3, <4>1, <4>2, <4>3
      <3>2. CASE Boundary(p, r) = r + ChunkSize
        <4>1. s + ChunkSize <= r + ChunkSize
          BY ChunkingAssumption
        <4> QED BY <1>3, <2>1, <2>3, <3>2, <4>1
      <3> QED BY <3>1, <3>2, BoundaryIsLast
    <2> QED BY <2>2, <2>3, BoundaryIsLast
  <1>6. CASE ~(r + ChunkSize < p.tokens)
    BY <1>1, <1>3, <1>6 DEF End
  <1> QED BY <1>3, <1>5, <1>6

-----------------------------------------------------------------------------
(* The invariant.                                                          *)

\* Where the next window begins follows from the last piece of its page; at the
\* start of a page there is no piece of it yet.
Position ==
    /\ \A j \in 1..Len(chunks) : chunks[j].page <= page
    /\ start = 0 => \A j \in 1..Len(chunks) : chunks[j].page < page
    /\ start # 0 =>
          /\ page <= Len(pages) /\ Len(chunks) # 0
          /\ LET last == chunks[Len(chunks)]
                 p == pages[page]
             IN  /\ last.page = page
                 /\ last.to = End(p, last.from) /\ last.to < p.tokens
                 /\ last.from < start /\ start <= last.to /\ last.to <= start + Overlap

Inv == TypeOK /\ Position /\ TokensKept /\ ChunksAdvance

LEMMA CutStep ==
    ASSUME Inv, Cut
    PROVE  Inv'
  <1> DEFINE p == pages[page]
             e == End(p, start)
             c == [page |-> page, from |-> start, to |-> e]
             n == Len(chunks)
  <1>1. page \in 1..Len(pages) /\ Len(pages) \in 0..MaxPages /\ p \in Page /\ n \in Nat /\ start \in Nat
    BY ChunkingAssumption DEF Inv, TypeOK, Cut
  <1>2. /\ start < p.tokens /\ chunks' = Append(chunks, c) /\ UNCHANGED pages
        /\ IF e = p.tokens THEN page' = page + 1 /\ start' = 0
           ELSE page' = page /\ start' = NextStart(start, e)
    BY DEF Cut
  <1>3. /\ e \in Nat /\ p.tokens \in 0..MaxTokens
        /\ start < e /\ e <= start + ChunkSize /\ e <= p.tokens
    BY <1>1, <1>2, EndInWindow
  <1>4. c \in Chunk
    BY <1>1, <1>2, <1>3, ChunkingAssumption DEF Chunk
  <1>5. /\ chunks' \in Seq(Chunk) /\ Len(chunks') = n + 1 /\ chunks'[n + 1] = c
        /\ \A j \in 1..n : chunks'[j] = chunks[j]
    BY <1>2, <1>4 DEF Inv, TypeOK
  <1>6. ASSUME e # p.tokens
        PROVE  /\ page' = page /\ start' \in Nat /\ e < p.tokens
               /\ start < start' /\ start' <= e /\ e <= start' + Overlap
    <2>1. page' = page /\ start' = NextStart(start, e)
      BY <1>2, <1>6
    <2>2. e < p.tokens /\ start + 1 \in Nat /\ start + 1 <= e
      BY <1>1, <1>3, <1>6
    <2>3. \/ e >= Overlap /\ NextStart(start, e) = Larger(e - Overlap, start + 1)
          \/ ~(e >= Overlap) /\ NextStart(start, e) = start + 1
      BY DEF NextStart
    <2> HIDE DEF e, p
    <2>4. /\ NextStart(start, e) \in Nat /\ start + 1 <= NextStart(start, e)
          /\ NextStart(start, e) <= e /\ e <= NextStart(start, e) + Overlap
      BY <1>1, <1>3, <2>2, <2>3, ChunkingAssumption DEF Larger
    <2> QED BY <1>1, <2>1, <2>2, <2>4
  <1>c. c.page = page /\ c.from = start /\ c.to = e
    OBVIOUS
  <1> HIDE DEF c, e, p
  <1>7. TypeOK'
    <2>1. CASE e = p.tokens
      <3>1. page' \in 1..(Len(pages) + 1) /\ start' = 0
        BY <1>1, <1>2, <2>1
      <3>2. page' <= Len(pages) => 0 <= pages[page'].tokens
        <4> SUFFICES ASSUME page' <= Len(pages) PROVE 0 <= pages[page'].tokens
          OBVIOUS
        <4>1. pages[page'] \in Page
          BY <3>1 DEF Inv, TypeOK
        <4> QED BY <4>1 DEF Page
      <3> QED BY <1>2, <1>5, <3>1, <3>2, ChunkingAssumption DEF Inv, TypeOK
    <2>2. CASE e # p.tokens
      BY <1>1, <1>2, <1>3, <1>5, <1>6, <2>2, ChunkingAssumption DEF Inv, TypeOK, p
    <2> QED BY <2>1, <2>2
  <1>8. Position'
    <2>0. \A j \in 1..n : chunks[j].page \in Nat /\ chunks[j].page <= page
      <3> TAKE j \in 1..n
      <3>1. chunks[j] \in Chunk
        BY DEF Inv, TypeOK
      <3> QED BY <3>1, ChunkingAssumption DEF Inv, Position, Chunk
    <2>1. CASE e = p.tokens
      <3>1. page' = page + 1 /\ start' = 0
        BY <1>2, <2>1
      <3>2. \A j \in 1..(n + 1) : chunks'[j].page < page + 1 /\ chunks'[j].page <= page + 1
        <4> TAKE j \in 1..(n + 1)
        <4>1. CASE j = n + 1
          BY <1>1, <1>5, <1>c, <4>1
        <4>2. CASE j \in 1..n
          BY <1>1, <1>5, <2>0, <4>2
        <4> QED BY <1>1, <4>1, <4>2
      <3> QED BY <1>5, <3>1, <3>2 DEF Position
    <2>2. CASE e # p.tokens
      <3>1. start' # 0 /\ page' = page
        BY <1>1, <1>6, <2>2
      <3>2. \A j \in 1..(n + 1) : chunks'[j].page <= page
        BY <1>1, <1>5, <1>c, <2>0
      <3> QED BY <1>1, <1>2, <1>5, <1>6, <1>c, <2>2, <3>1, <3>2 DEF Position, p, e
    <2> QED BY <2>1, <2>2
  <1>9. TokensKept'
    <2> SUFFICES ASSUME NEW i \in 1..Len(pages), NEW t \in 1..pages[i].tokens,
                        i < page' \/ (i = page' /\ t <= start')
                 PROVE  \E j \in 1..(n + 1) : /\ chunks'[j].page = i
                                              /\ chunks'[j].from < t /\ t <= chunks'[j].to
      BY <1>2, <1>5 DEF TokensKept
    <2>0. t \in Nat /\ i \in Nat
      BY <1>1
    <2>1. CASE i < page \/ (i = page /\ t <= start)
      <3>1. PICK j \in 1..n : chunks[j].page = i /\ chunks[j].from < t /\ t <= chunks[j].to
        BY <2>1 DEF Inv, TokensKept
      <3> QED BY <1>1, <1>5, <3>1
    <2>2. CASE i = page /\ start < t
      <3>1. t <= e
        BY <1>1, <1>2, <1>3, <1>6, <2>0, <2>2 DEF p
      <3> QED BY <1>1, <1>5, <1>c, <2>2, <3>1
    <2>3. i <= page
      BY <1>1, <1>2
    <2> QED BY <1>1, <2>0, <2>1, <2>2, <2>3
  <1>10. ChunksAdvance'
    <2>1. \A j \in 1..(n + 1) : /\ chunks'[j].from < chunks'[j].to
                                /\ chunks'[j].to - chunks'[j].from <= ChunkSize
      <3> TAKE j \in 1..(n + 1)
      <3>1. CASE j = n + 1
        BY <1>1, <1>3, <1>5, <1>c, <3>1, ChunkingAssumption
      <3>2. CASE j \in 1..n
        BY <1>5, <3>2 DEF Inv, ChunksAdvance
      <3> QED BY <1>1, <3>1, <3>2
    <2>2. ASSUME NEW j \in 2..(n + 1), chunks'[j].page = chunks'[j - 1].page
          PROVE  /\ chunks'[j - 1].from < chunks'[j].from
                 /\ chunks'[j].from <= chunks'[j - 1].to
                 /\ chunks'[j - 1].to <= chunks'[j].from + Overlap
                 /\ chunks'[j - 1].to <= chunks'[j].to
      <3>1. CASE j \in 2..n
        <4>1. chunks'[j] = chunks[j] /\ chunks'[j - 1] = chunks[j - 1]
          BY <1>1, <1>5, <3>1
        <4> QED BY <2>2, <3>1, <4>1 DEF Inv, ChunksAdvance
      <3>2. CASE j = n + 1
        <4>1. n \in 1..n /\ chunks'[j] = c /\ chunks'[j - 1] = chunks[n] /\ chunks[n] \in Chunk
          BY <1>1, <1>5, <3>2 DEF Inv, TypeOK
        <4>2. chunks[n].page = page
          BY <1>c, <2>2, <4>1
        <4>3. start # 0
          BY <1>1, <4>1, <4>2 DEF Inv, Position
        <4>4. /\ chunks[n].from < start /\ start <= chunks[n].to
              /\ chunks[n].to <= start + Overlap
              /\ chunks[n].to = End(p, chunks[n].from) /\ chunks[n].to < p.tokens
          BY <4>3 DEF Inv, Position, p
        <4>5. chunks[n].from \in Nat
          BY <4>1, ChunkingAssumption DEF Chunk
        <4>6. chunks[n].to <= e
          BY <1>1, <4>4, <4>5, EndGrows DEF e
        <4> QED BY <1>c, <4>1, <4>4, <4>6
      <3> QED BY <1>1, <3>1, <3>2
    <2> QED BY <1>5, <2>1, <2>2 DEF ChunksAdvance
  <1> QED BY <1>7, <1>8, <1>9, <1>10 DEF Inv

LEMMA EmptyPageStep ==
    ASSUME Inv, EmptyPage
    PROVE  Inv'
  <1>1. /\ page \in 1..Len(pages) /\ Len(pages) \in Nat
        /\ pages[page].tokens = 0 /\ page' = page + 1
        /\ UNCHANGED <<pages, start, chunks>> /\ start \in Nat
    BY ChunkingAssumption DEF Inv, TypeOK, EmptyPage
  <1>2. start = 0
    BY <1>1 DEF Inv, TypeOK
  <1>3. TypeOK'
    <2>1. page' <= Len(pages) => 0 <= pages[page'].tokens
      <3> SUFFICES ASSUME page' <= Len(pages) PROVE 0 <= pages[page'].tokens
        OBVIOUS
      <3>1. pages[page'] \in Page
        BY <1>1 DEF Inv, TypeOK
      <3> QED BY <3>1 DEF Page
    <2> QED BY <1>1, <1>2, <2>1 DEF Inv, TypeOK
  <1>4. Position'
    <2>1. \A j \in 1..Len(chunks) : chunks[j].page \in Nat
      <3> TAKE j \in 1..Len(chunks)
      <3>1. chunks[j] \in Chunk
        BY DEF Inv, TypeOK
      <3> QED BY <3>1, ChunkingAssumption DEF Chunk
    <2> QED BY <1>1, <1>2, <2>1 DEF Inv, Position
  <1>5. TokensKept'
    <2> SUFFICES ASSUME NEW i \in 1..Len(pages), NEW t \in 1..pages[i].tokens,
                        i < page' \/ (i = page' /\ t <= start')
                 PROVE  \E j \in 1..Len(chunks') : /\ chunks'[j].page = i
                                                   /\ chunks'[j].from < t /\ t <= chunks'[j].to
      BY <1>1 DEF TokensKept
    <2>1. pages[i].tokens \in Nat
      <3>1. pages[i] \in Page
        BY DEF Inv, TypeOK
      <3> QED BY <3>1, ChunkingAssumption DEF Page
    <2>2. i # page /\ t > start
      BY <1>1, <1>2, <2>1
    <2>3. i < page
      BY <1>1, <1>2, <2>1, <2>2
    <2> QED BY <1>1, <2>3 DEF Inv, TokensKept
  <1>6. ChunksAdvance'
    BY <1>1 DEF Inv, ChunksAdvance
  <1> QED BY <1>3, <1>4, <1>5, <1>6 DEF Inv

-----------------------------------------------------------------------------
(* The theorems.                                                           *)

LEMMA Initially == Init => Inv
  <1> SUFFICES ASSUME Init PROVE Inv
    OBVIOUS
  <1>1. PICK n \in 0..MaxPages : pages \in [1..n -> Page]
    BY DEF Init
  <1>2. n \in Nat /\ pages \in Seq(Page) /\ Len(pages) = n
    BY <1>1, ChunkingAssumption
  <1>3. chunks = <<>> /\ chunks \in Seq(Chunk) /\ Len(chunks) = 0 /\ page = 1 /\ start = 0
    BY DEF Init
  <1>4. TypeOK
    <2>1. 1 <= Len(pages) => 0 <= pages[1].tokens
      <3> SUFFICES ASSUME 1 <= Len(pages) PROVE 0 <= pages[1].tokens
        OBVIOUS
      <3>1. pages[1] \in Page
        BY <1>2
      <3> QED BY <3>1 DEF Page
    <2> QED BY <1>1, <1>2, <1>3, <2>1, ChunkingAssumption DEF TypeOK
  <1>5. Position /\ ChunksAdvance
    BY <1>3 DEF Position, ChunksAdvance
  <1>6. TokensKept
    BY <1>2, <1>3 DEF TokensKept
  <1> QED BY <1>4, <1>5, <1>6 DEF Inv

LEMMA NextStep == Inv /\ [Next]_vars => Inv'
  <1> SUFFICES ASSUME Inv, [Next]_vars PROVE Inv'
    OBVIOUS
  <1>1. CASE Done \/ UNCHANGED vars
    <2>1. UNCHANGED <<pages, page, start, chunks>>
      BY <1>1 DEF Done, vars
    <2>2. TypeOK' /\ Position'
      BY <2>1 DEF Inv, TypeOK, Position
    <2>3. TokensKept'
      BY <2>1 DEF Inv, TokensKept
    <2>4. ChunksAdvance'
      BY <2>1 DEF Inv, ChunksAdvance
    <2> QED BY <2>2, <2>3, <2>4 DEF Inv
  <1> QED BY <1>1, CutStep, EmptyPageStep DEF Next

LEMMA Invariant == Spec => []Inv
  BY Initially, NextStep, PTL DEF Spec

\* The loop of _split stays inside the document: it never runs past the end of
\* a page.
THEOREM TypeCorrect == Spec => []TypeOK
  <1>1. Inv => TypeOK
    BY DEF Inv
  <1> QED BY <1>1, Invariant, PTL

\* For every chunk_size and overlap that __init__ accepts, no token of any
\* document is lost between two windows.
THEOREM NoTokenLost == Spec => []TokensKept
  <1>1. Inv => TokensKept
    BY DEF Inv
  <1> QED BY <1>1, Invariant, PTL

\* For every chunk_size and overlap that __init__ accepts, pieces are not empty,
\* fit the window, advance, and share at most the overlap.
THEOREM PiecesAdvance == Spec => []ChunksAdvance
  <1>1. Inv => ChunksAdvance
    BY DEF Inv
  <1> QED BY <1>1, Invariant, PTL

=============================================================================
