-------------------------------- MODULE Scan --------------------------------
(***************************************************************************)
(* Reading a text from its first element to its last, with something kept  *)
(* from each to the next: the loop of every parser here.  A module that    *)
(* reads so INSTANCEs this one with what its loop does.                    *)
(***************************************************************************)
EXTENDS Integers, Sequences, SequenceTheorems, WellFoundedInduction, TLAPS

CONSTANT Read(_, _)   \* what the loop makes of what it kept and the next element

\* What is kept after each of the first elements.
Reads(first, text) ==
  LET read[n \in 0 .. Len(text)] == IF n = 0 THEN first ELSE Read(read[n - 1], text[n])
  IN  read

Scan(first, text) == Reads(first, text)[Len(text)]

-----------------------------------------------------------------------------

\* Induction up to a number, for a set.
LEMMA Upward ==
  ASSUME NEW N \in Nat, NEW S, 0 \in S, \A n \in 0 .. N - 1 : n \in S => n + 1 \in S
  PROVE  \A n \in 0 .. N : n \in S
<1> DEFINE Less == {ss \in Nat \X Nat : ss[1] < ss[2]}
           Bad  == {n \in 0 .. N : n \notin S}
<1>1. OpToRel(<, Nat) = Less
  BY DEF OpToRel
<1>2. IsWellFoundedOn(Less, Nat)
  BY <1>1, NatLessThanWellFounded
<1>3. SUFFICES ASSUME Bad # {} PROVE FALSE
  OBVIOUS
<1> HIDE DEF Less
<1>4. PICK x \in Bad : \A y \in Bad : ~ (<<y, x>> \in Less)
  <2>1. Bad \in SUBSET Nat
    OBVIOUS
  <2> HIDE DEF Bad
  <2>2. QED
    BY <1>2, <1>3, <2>1, WFMin
<1>5. x \in 1 .. N /\ x - 1 \in 0 .. N - 1
  BY <1>4
<1>6. x - 1 \notin S
  <2>1. x = (x - 1) + 1 /\ x \notin S
    BY <1>4, <1>5
  <2>2. QED
    BY <1>5, <2>1
<1>7. <<x - 1, x>> \in Less
  BY <1>5 DEF Less
<1>8. QED
  BY <1>4, <1>5, <1>6, <1>7

\* The loop is well defined: each step keeps what Read makes of the one before.
LEMMA ReadsAreRead ==
  ASSUME NEW first, NEW text, Len(text) \in Nat
  PROVE  Reads(first, text) =
           [n \in 0 .. Len(text) |-> IF n = 0 THEN first ELSE Read(Reads(first, text)[n - 1], text[n])]
<1> DEFINE Upto(f, k) == f = [n \in 0 .. k |-> IF n = 0 THEN first ELSE Read(f[n - 1], text[n])]
           Good == {k \in 0 .. Len(text) : \E f : Upto(f, k)}
<1>1. 0 \in Good
  <2> DEFINE f == [n \in 0 .. 0 |-> first]
  <2>1. Upto(f, 0)
    OBVIOUS
  <2> HIDE DEF f
  <2>2. QED
    BY <2>1
<1>2. ASSUME NEW k \in 0 .. Len(text) - 1, k \in Good
      PROVE  k + 1 \in Good
  <2>1. PICK f : Upto(f, k)
    BY <1>2
  <2> DEFINE g == [n \in 0 .. k + 1 |-> IF n <= k THEN f[n] ELSE Read(f[k], text[k + 1])]
  <2>2. \A n \in 0 .. k + 1 : g[n] = IF n = 0 THEN first ELSE Read(g[n - 1], text[n])
    <3>1. TAKE n \in 0 .. k + 1
    <3>2. CASE n <= k
      BY <2>1, <3>2
    <3>3. CASE n = k + 1
      BY <3>3
    <3>4. QED
      BY <3>2, <3>3
  <2>3. Upto(g, k + 1)
    BY <2>2
  <2>4. k + 1 \in 0 .. Len(text)
    OBVIOUS
  <2> HIDE DEF g, Upto
  <2>5. QED
    BY <2>3, <2>4
<1>3. Len(text) \in Good
  <2> HIDE DEF Good
  <2>1. \A n \in 0 .. Len(text) - 1 : n \in Good => n + 1 \in Good
    BY <1>2
  <2>2. \A n \in 0 .. Len(text) : n \in Good
    BY <1>1, <2>1, Upward
  <2>3. QED
    BY <2>2
<1>4. \E f : Upto(f, Len(text))
  BY <1>3
<1>5. QED
  BY <1>4, Zenon DEF Reads

\* What is kept at the beginning, and from one element to the next.
LEMMA ReadStep ==
  ASSUME NEW first, NEW S, NEW text \in Seq(S)
  PROVE  /\ Reads(first, text)[0] = first
         /\ \A n \in 1 .. Len(text) :
              Reads(first, text)[n] = Read(Reads(first, text)[n - 1], text[n])
<1>1. Len(text) \in Nat
  OBVIOUS
<1>2. Reads(first, text) =
        [n \in 0 .. Len(text) |-> IF n = 0 THEN first ELSE Read(Reads(first, text)[n - 1], text[n])]
  BY <1>1, ReadsAreRead
<1>3. \A n \in 0 .. Len(text) :
        Reads(first, text)[n] = IF n = 0 THEN first ELSE Read(Reads(first, text)[n - 1], text[n])
  BY <1>2
<1>4. QED
  BY <1>1, <1>3

\* What the loop never leaves, it ends in.
LEMMA ScanKeeps ==
  ASSUME NEW first, NEW S, NEW text \in Seq(S), NEW T,
         first \in T, \A kept \in T, x \in S : Read(kept, x) \in T
  PROVE  /\ \A n \in 0 .. Len(text) : Reads(first, text)[n] \in T
         /\ Scan(first, text) \in T
<1> DEFINE Kept == {n \in 0 .. Len(text) : Reads(first, text)[n] \in T}
<1>1. Len(text) \in Nat /\ \A n \in 1 .. Len(text) : text[n] \in S
  OBVIOUS
<1>2. 0 \in Kept
  BY <1>1, ReadStep
<1>3. ASSUME NEW n \in 0 .. Len(text) - 1, n \in Kept
      PROVE  n + 1 \in Kept
  <2>1. n + 1 \in 1 .. Len(text) /\ (n + 1) - 1 = n
    BY <1>1
  <2>2. Reads(first, text)[n + 1] = Read(Reads(first, text)[n], text[n + 1])
    BY <2>1, ReadStep
  <2>3. QED
    BY <1>1, <1>3, <2>1, <2>2
<1>4. \A n \in 0 .. Len(text) : n \in Kept
  <2> HIDE DEF Kept
  <2>1. \A n \in 0 .. Len(text) - 1 : n \in Kept => n + 1 \in Kept
    BY <1>3
  <2>2. QED
    BY <1>1, <1>2, <2>1, Upward
<1>5. QED
  BY <1>1, <1>4 DEF Scan

\* Nothing is read twice: one element more is one step more.
LEMMA ScanOneMore ==
  ASSUME NEW first, NEW S, NEW text \in Seq(S), NEW x \in S
  PROVE  Scan(first, Append(text, x)) = Read(Scan(first, text), x)
<1> DEFINE more == Append(text, x)
           Same == {n \in 0 .. Len(text) : Reads(first, more)[n] = Reads(first, text)[n]}
<1>1. /\ more \in Seq(S) /\ Len(text) \in Nat /\ Len(more) = Len(text) + 1
      /\ \A n \in 1 .. Len(text) : more[n] = text[n]
      /\ more[Len(more)] = x
  OBVIOUS
<1> HIDE DEF more
<1>2. 0 \in Same
  BY <1>1, ReadStep
<1>3. ASSUME NEW n \in 0 .. Len(text) - 1, n \in Same
      PROVE  n + 1 \in Same
  <2>1. n + 1 \in 1 .. Len(text) /\ n + 1 \in 1 .. Len(more) /\ (n + 1) - 1 = n
    BY <1>1
  <2>2. Reads(first, more)[n + 1] = Read(Reads(first, more)[n], more[n + 1])
    BY <1>1, <2>1, ReadStep
  <2>3. Reads(first, text)[n + 1] = Read(Reads(first, text)[n], text[n + 1])
    BY <2>1, ReadStep
  <2>4. QED
    BY <1>1, <1>3, <2>1, <2>2, <2>3
<1>4. Len(text) \in Same
  <2> HIDE DEF Same
  <2>1. \A n \in 0 .. Len(text) - 1 : n \in Same => n + 1 \in Same
    BY <1>3
  <2>2. \A n \in 0 .. Len(text) : n \in Same
    BY <1>1, <1>2, <2>1, Upward
  <2>3. QED
    BY <1>1, <2>2
<1>5. Len(more) \in 1 .. Len(more) /\ Len(more) - 1 = Len(text)
  BY <1>1
<1>6. Reads(first, more)[Len(more)] = Read(Reads(first, more)[Len(text)], x)
  BY <1>1, <1>5, ReadStep
<1>7. QED
  BY <1>4, <1>6 DEF Scan, more
=============================================================================
