--------------------------- MODULE Messages_proofs ---------------------------
(* Theorems about Messages and NodeMessages, for every set of slaves, values,   *)
(* start indexes, lengths and standard messages, and whatever the fields and    *)
(* bits hold that nobody assigned.                                              *)
EXTENDS NodeMessages, FiniteSetTheorems, WellFoundedInduction, TLAPS

-----------------------------------------------------------------------------
(* Bits and numbers *)

\* A bit of a scalar, and the number that the bits above the first k make.
WordBit(v, b) == IF b > WordBits THEN 0 ELSE ToBit(v, b)
High(v, k)    == IF k < WordBits THEN v \div 2^k ELSE 0

\* One bit more of a number.
LEMMA BitMore ==
  ASSUME NEW v \in Number, NEW k \in 0..63
  PROVE  High(v, k) = 2 * High(v, k + 1) + WordBit(v, k + 1) /\ WordBit(v, k + 1) \in {0, 1}
<1>1. CASE k = 0
  BY <1>1 DEF High, WordBit, WordBits, ToBit, Number
<1>2. CASE k = 1
  BY <1>2 DEF High, WordBit, WordBits, ToBit, Number
<1>3. CASE k = 2
  BY <1>3 DEF High, WordBit, WordBits, ToBit, Number
<1>4. CASE k = 3
  BY <1>4 DEF High, WordBit, WordBits, ToBit, Number
<1>5. CASE k = 4
  BY <1>5 DEF High, WordBit, WordBits, ToBit, Number
<1>6. CASE k = 5
  BY <1>6 DEF High, WordBit, WordBits, ToBit, Number
<1>7. CASE k = 6
  BY <1>7 DEF High, WordBit, WordBits, ToBit, Number
<1>8. CASE k = 7
  BY <1>8 DEF High, WordBit, WordBits, ToBit, Number
<1>9. CASE k = 8
  BY <1>9 DEF High, WordBit, WordBits, ToBit, Number
<1>10. CASE k = 9
  BY <1>10 DEF High, WordBit, WordBits, ToBit, Number
<1>11. CASE k = 10
  BY <1>11 DEF High, WordBit, WordBits, ToBit, Number
<1>12. CASE k = 11
  BY <1>12 DEF High, WordBit, WordBits, ToBit, Number
<1>13. CASE k = 12
  BY <1>13 DEF High, WordBit, WordBits, ToBit, Number
<1>14. CASE k = 13
  BY <1>14 DEF High, WordBit, WordBits, ToBit, Number
<1>15. CASE k = 14
  BY <1>15 DEF High, WordBit, WordBits, ToBit, Number
<1>16. CASE k = 15
  BY <1>16 DEF High, WordBit, WordBits, ToBit, Number
<1>17. CASE k = 16
  BY <1>17 DEF High, WordBit, WordBits, ToBit, Number
<1>18. CASE k = 17
  BY <1>18 DEF High, WordBit, WordBits, ToBit, Number
<1>19. CASE k = 18
  BY <1>19 DEF High, WordBit, WordBits, ToBit, Number
<1>20. CASE k = 19
  BY <1>20 DEF High, WordBit, WordBits, ToBit, Number
<1>21. CASE k = 20
  BY <1>21 DEF High, WordBit, WordBits, ToBit, Number
<1>22. CASE k = 21
  BY <1>22 DEF High, WordBit, WordBits, ToBit, Number
<1>23. CASE k = 22
  BY <1>23 DEF High, WordBit, WordBits, ToBit, Number
<1>24. CASE k = 23
  BY <1>24 DEF High, WordBit, WordBits, ToBit, Number
<1>25. CASE k = 24
  BY <1>25 DEF High, WordBit, WordBits, ToBit, Number
<1>26. CASE k = 25
  BY <1>26 DEF High, WordBit, WordBits, ToBit, Number
<1>27. CASE k = 26
  BY <1>27 DEF High, WordBit, WordBits, ToBit, Number
<1>28. CASE k = 27
  BY <1>28 DEF High, WordBit, WordBits, ToBit, Number
<1>29. CASE k = 28
  BY <1>29 DEF High, WordBit, WordBits, ToBit, Number
<1>30. CASE k = 29
  BY <1>30 DEF High, WordBit, WordBits, ToBit, Number
<1>31. CASE k \in 30..63
  BY <1>31 DEF High, WordBit, WordBits, Number
<1>32. \/ k = 0 \/ k = 1 \/ k = 2 \/ k = 3 \/ k = 4 \/ k = 5 \/ k = 6 \/ k = 7
         \/ k = 8 \/ k = 9 \/ k = 10 \/ k = 11 \/ k = 12 \/ k = 13 \/ k = 14 \/ k = 15
         \/ k = 16 \/ k = 17 \/ k = 18 \/ k = 19 \/ k = 20 \/ k = 21 \/ k = 22 \/ k = 23
         \/ k = 24 \/ k = 25 \/ k = 26 \/ k = 27 \/ k = 28 \/ k = 29
         \/ k \in 30..63
  OBVIOUS
<1> QED
  BY <1>1, <1>2, <1>3, <1>4, <1>5, <1>6, <1>7, <1>8, <1>9, <1>10,
     <1>11, <1>12, <1>13, <1>14, <1>15, <1>16, <1>17, <1>18, <1>19, <1>20,
     <1>21, <1>22, <1>23, <1>24, <1>25, <1>26, <1>27, <1>28, <1>29, <1>30,
     <1>31, <1>32

\* A non-empty set of numbers has a least one.
LEMMA HasLeast ==
  ASSUME NEW S \in SUBSET Nat, S # {}
  PROVE  \E x \in S : \A y \in S : ~(y < x)
<1> DEFINE R == OpToRel(<, Nat)
<1>1. \A x, y \in Nat : y < x => <<y, x>> \in R
  BY DEF OpToRel
<1> HIDE DEF R
<1>2. IsWellFoundedOn(R, Nat)
  BY NatLessThanWellFounded DEF R
<1>3. \E x \in S : \A y \in S : ~(<<y, x>> \in R)
  BY <1>2, WFMin
<1> QED
  BY <1>1, <1>3

LEMMA NothingHigh ==
  ASSUME NEW w \in 1..64, NEW v \in Nat, w < WordBits, v < 2^w
  PROVE  v \div 2^w = 0
<1>1. \A a \in Nat : v < a => v \div a = 0
  OBVIOUS
<1>2. 2^w \in Nat
  OBVIOUS
<1> QED
  BY <1>1, <1>2

\* The bits of a number make that number.
LEMMA BitsMakeNumber ==
  ASSUME NEW w \in 1..64, NEW v \in Number, w < WordBits => v < 2^w,
         NEW bits, bits = [b \in 1..w |-> WordBit(v, b)]
  PROVE  FromBits(bits) = v
<1> DEFINE Up(g) == g = [n \in 0..Len(bits) |->
                          IF n = 0 THEN 0 ELSE 2 * g[n - 1] + bits[Len(bits) + 1 - n]]
           high  == [n \in 0..w |-> High(v, w - n)]
           top   == CHOOSE g : Up(g)
<1>1. Len(bits) = w
  OBVIOUS
<1>2. FromBits(bits) = top[w]
  BY <1>1 DEF FromBits
<1>3. High(v, w) = 0 /\ High(v, 0) = v
  <2>1. w < WordBits => v \div 2^w = 0
    BY NothingHigh DEF Number
  <2>2. v \div 2^0 = v
    BY DEF Number
  <2> QED
    BY <2>1, <2>2 DEF High, WordBits, Number
<1>4. ASSUME NEW n \in 1..w
      PROVE  High(v, w - n) = 2 * High(v, w - (n - 1)) + bits[w + 1 - n]
  <2>1. w - n \in 0..63 /\ (w - n) + 1 = w - (n - 1) /\ (w - n) + 1 = w + 1 - n
          /\ w + 1 - n \in 1..w
    OBVIOUS
  <2>2. bits[w + 1 - n] = WordBit(v, w + 1 - n)
    BY <2>1
  <2> QED
    BY <2>1, <2>2, BitMore
<1>5. Up(high)
  <2>1. \A n \in 1..w : high[n] = 2 * high[n - 1] + bits[w + 1 - n]
    <3> SUFFICES ASSUME NEW n \in 1..w
                 PROVE  high[n] = 2 * high[n - 1] + bits[w + 1 - n]
      OBVIOUS
    <3>1. n \in 0..w /\ n - 1 \in 0..w
      OBVIOUS
    <3>2. high[n] = High(v, w - n) /\ high[n - 1] = High(v, w - (n - 1))
      BY <3>1
    <3> QED
      BY <3>2, <1>4
  <2>2. high[0] = 0
    BY <1>3
  <2>3. high = [n \in 0..w |-> high[n]]
    OBVIOUS
  <2> HIDE DEF high
  <2>4. \A n \in 0..w : n # 0 => n \in 1..w
    OBVIOUS
  <2> QED
    BY <1>1, <2>1, <2>2, <2>3, <2>4
<1>6. Up(top)
  BY <1>5
<1> HIDE DEF top, high
<1>7. top[0] = 0
  BY <1>1, <1>6
<1>8. ASSUME NEW n \in 1..w
      PROVE  top[n] = 2 * top[n - 1] + bits[w + 1 - n]
  <2>1. n \in 0..w /\ n # 0
    OBVIOUS
  <2>2. top = [i \in 0..w |-> IF i = 0 THEN 0 ELSE 2 * top[i - 1] + bits[w + 1 - i]]
    BY <1>1, <1>6
  <2> QED
    BY <2>1, <2>2
<1> DEFINE Wrong == {n \in 0..w : top[n] # High(v, w - n)}
<1>9. Wrong = {}
  <2> SUFFICES ASSUME Wrong # {}
               PROVE  FALSE
    OBVIOUS
  <2>1. PICK n \in Wrong : \A m \in Wrong : ~(m < n)
    <3>1. Wrong \in SUBSET Nat
      OBVIOUS
    <3> HIDE DEF Wrong
    <3> QED
      BY <3>1, HasLeast
  <2>2. n \in 0..w /\ top[n] # High(v, w - n)
    OBVIOUS
  <2>3. n # 0
    <3>1. w - 0 = w
      OBVIOUS
    <3>2. High(v, w - 0) = 0
      BY <3>1, <1>3
    <3> QED
      BY <1>7, <2>2, <3>2
  <2>4. n \in 1..w /\ n - 1 \in 0..w /\ n - 1 < n
    BY <2>2, <2>3
  <2>5. top[n - 1] = High(v, w - (n - 1))
    BY <2>1, <2>4
  <2> QED
    BY <1>4, <1>8, <2>2, <2>4, <2>5
<1>10. w \in 0..w /\ w - w = 0
  OBVIOUS
<1>11. top[w] = High(v, w - w)
  BY <1>9, <1>10
<1> QED
  BY <1>2, <1>3, <1>10, <1>11

\* What is cut to a width fits it, and is left alone if it does.
LEMMA CutFits ==
  ASSUME NEW w \in {1, 2, 6, 8, 16}, NEW v \in Nat
  PROVE  /\ Cut(v, w) \in Word /\ Cut(v, w) < 2^w
         /\ v < 2^w => Cut(v, w) = v
<1>1. CASE w = 1
  BY <1>1 DEF Cut, Word
<1>2. CASE w = 2
  BY <1>2 DEF Cut, Word
<1>3. CASE w = 6
  BY <1>3 DEF Cut, Word
<1>4. CASE w = 8
  BY <1>4 DEF Cut, Word
<1>5. CASE w = 16
  BY <1>5 DEF Cut, Word
<1> QED
  BY <1>1, <1>2, <1>3, <1>4, <1>5

-----------------------------------------------------------------------------
(* Layouts *)

Widths == {1, 2, 6, 8, 16}

\* The fields of a layout have the given names, no two of them the same key or a
\* bit in common, and they end where the layout does.
Within(layout, names, from, to) ==
  /\ from \in Nat /\ to \in Nat
  /\ \A f \in layout : /\ f.at \in Nat /\ f.width \in Widths
                       /\ from <= f.at /\ f.at + f.width <= to
                       /\ f.key \in Keys /\ f.key[1] \in names
  /\ \A f, g \in layout : f # g => /\ f.key # g.key
                                   /\ f.at + f.width <= g.at \/ g.at + g.width <= f.at
  /\ \E f \in layout : f.at + f.width = to

LEMMA SizeOfLayout ==
  ASSUME NEW layout, NEW names, NEW from, NEW to, Within(layout, names, from, to)
  PROVE  Size(layout) = to
<1> DEFINE ends == {f.at + f.width : f \in layout}
<1>1. to \in Nat /\ to \in ends /\ \A e \in ends : e \in Nat /\ e <= to
  BY DEF Within, Widths
<1> HIDE DEF ends
<1>2. to \in ends /\ \A e \in ends : to >= e
  BY <1>1
<1>3. \A m \in ends : (\A e \in ends : m >= e) => m = to
  BY <1>1
<1>4. Max(ends) = to
  BY <1>2, <1>3 DEF Max
<1> QED
  BY <1>4 DEF Size, ends

\* What follows a layout, under other names.
LEMMA Joined ==
  ASSUME NEW A, NEW B, NEW names, NEW others, NEW from, NEW at, NEW to,
         Within(A, names, from, at), Within(B, others, at, to), names \cap others = {}
  PROVE  Within(A \cup B, names \cup others, from, to)
<1>1. \A f \in A, g \in B : f.key # g.key /\ f.at + f.width <= g.at
  BY DEF Within, Widths
<1>2. from <= at /\ at <= to
  BY DEF Within, Widths
<1>3. \A f \in A \cup B : /\ f.at \in Nat /\ f.width \in Widths
                          /\ from <= f.at /\ f.at + f.width <= to
                          /\ f.key \in Keys /\ f.key[1] \in names \cup others
  <2>1. \A f \in A : f.at \in Nat /\ f.width \in Widths /\ from <= f.at /\ f.at + f.width <= to
    BY <1>2 DEF Within, Widths
  <2>2. \A f \in B : f.at \in Nat /\ f.width \in Widths /\ from <= f.at /\ f.at + f.width <= to
    BY <1>2 DEF Within, Widths
  <2> QED
    BY <2>1, <2>2 DEF Within
<1>4. \A f, g \in A \cup B : f # g => /\ f.key # g.key
                                      /\ f.at + f.width <= g.at \/ g.at + g.width <= f.at
  BY <1>1 DEF Within
<1>5. \E f \in A \cup B : f.at + f.width = to
  BY DEF Within
<1> QED
  BY <1>3, <1>4, <1>5 DEF Within

LEMMA ScalarWithin ==
  ASSUME NEW name \in ScalarNames, NEW at \in Nat, NEW width \in Widths
  PROVE  Within(Scalar(name, at, width), {name}, at, at + width)
<1>1. <<name, 0>> \in Keys
  BY DEF Keys
<1> QED
  BY <1>1 DEF Within, Scalar, Field, Widths

LEMMA ArrayWithin ==
  ASSUME NEW at \in Nat, NEW n \in 1..32, NEW width \in {1, 16}
  PROVE  Within(Array("values", at, n, width), {"values"}, at, at + n * width)
<1> DEFINE place(i) == at + (i - 1) * width
<1>1. \A i \in 1..n : <<"values", i>> \in Keys
  BY DEF Keys
<1>2. \A i \in 1..n : /\ place(i) \in Nat /\ at <= place(i)
                      /\ place(i) + width <= at + n * width
  OBVIOUS
<1>3. \A i, j \in 1..n : i < j => place(i) + width <= place(j)
  OBVIOUS
<1>4. n \in 1..n /\ place(n) + width = at + n * width /\ at + n * width \in Nat
  OBVIOUS
<1>5. Array("values", at, n, width) =
        {[key |-> <<"values", i>>, at |-> place(i), width |-> width] : i \in 1..n}
  BY DEF Array, Field
<1> HIDE DEF place
<1>6. ASSUME NEW f \in Array("values", at, n, width)
      PROVE  \E i \in 1..n : f = [key |-> <<"values", i>>, at |-> place(i), width |-> width]
  BY <1>5
<1>7. ASSUME NEW f \in Array("values", at, n, width)
      PROVE  /\ f.at \in Nat /\ f.width \in Widths
             /\ at <= f.at /\ f.at + f.width <= at + n * width
             /\ f.key \in Keys /\ f.key[1] \in {"values"}
  BY <1>1, <1>2, <1>6 DEF Widths
<1>8. ASSUME NEW f \in Array("values", at, n, width), NEW g \in Array("values", at, n, width),
             f # g
      PROVE  f.key # g.key /\ (f.at + f.width <= g.at \/ g.at + g.width <= f.at)
  <2>1. PICK i \in 1..n : f = [key |-> <<"values", i>>, at |-> place(i), width |-> width]
    BY <1>6
  <2>2. PICK j \in 1..n : g = [key |-> <<"values", j>>, at |-> place(j), width |-> width]
    BY <1>6
  <2>3. i # j
    BY <1>8, <2>1, <2>2
  <2>4. i < j \/ j < i
    BY <2>3
  <2> QED
    BY <1>3, <2>1, <2>2, <2>3, <2>4
<1>9. \E f \in Array("values", at, n, width) : f.at + f.width = at + n * width
  <2>1. [key |-> <<"values", n>>, at |-> place(n), width |-> width]
          \in Array("values", at, n, width)
    BY <1>4, <1>5
  <2> QED
    BY <1>4, <2>1
<1> QED
  BY <1>4, <1>7, <1>8, <1>9 DEF Within

\* The generated types.
ValuesNames == {"union_tag", "values_len", "values"}

LEMMA ValuesWithin ==
  ASSUME NEW at \in Nat
  PROVE  /\ Within(Values(0, at), ValuesNames, at, at + 39)
         /\ Within(Values(1, at), ValuesNames, at, at + 35)
         /\ \A tag : tag \notin {0, 1} => Values(tag, at) = Scalar("union_tag", at, 1)
<1>1. Within(Scalar("union_tag", at, 1), {"union_tag"}, at, at + 1)
  BY ScalarWithin DEF ScalarNames, Widths
<1>2. Within(DigitalValues(at + 1), {"values_len"} \cup {"values"}, at + 1, at + 39)
  <2>1. Within(Scalar("values_len", at + 1, 6), {"values_len"}, at + 1, at + 7)
    BY ScalarWithin DEF ScalarNames, Widths
  <2>2. Within(Array("values", at + 7, 32, 1), {"values"}, at + 7, at + 39)
    BY ArrayWithin
  <2>3. DigitalValues(at + 1) = Scalar("values_len", at + 1, 6) \cup Array("values", at + 7, 32, 1)
    BY DEF DigitalValues
  <2> QED
    BY <2>1, <2>2, <2>3, Joined
<1>3. Within(AnalogValues(at + 1), {"values_len"} \cup {"values"}, at + 1, at + 35)
  <2>1. Within(Scalar("values_len", at + 1, 2), {"values_len"}, at + 1, at + 3)
    BY ScalarWithin DEF ScalarNames, Widths
  <2>2. Within(Array("values", at + 3, 2, 16), {"values"}, at + 3, at + 35)
    BY ArrayWithin
  <2>3. AnalogValues(at + 1) = Scalar("values_len", at + 1, 2) \cup Array("values", at + 3, 2, 16)
    BY DEF AnalogValues
  <2> QED
    BY <2>1, <2>2, <2>3, Joined
<1>4. {"union_tag"} \cap ({"values_len"} \cup {"values"}) = {}
  OBVIOUS
<1>5. ValuesNames = {"union_tag"} \cup ({"values_len"} \cup {"values"})
  BY DEF ValuesNames
<1>6. Within(Values(0, at), ValuesNames, at, at + 39)
  BY <1>1, <1>2, <1>4, <1>5, Joined DEF Values
<1>7. Within(Values(1, at), ValuesNames, at, at + 35)
  BY <1>1, <1>3, <1>4, <1>5, Joined DEF Values
<1>8. \A tag : tag \notin {0, 1} => Values(tag, at) = Scalar("union_tag", at, 1)
  BY DEF Values
<1> QED
  BY <1>6, <1>7, <1>8

\* The messages, from their first bit to their last.
Neat(layout, size) == \E names : Within(layout, names, 0, size)

LEMMA UnionNeat ==
  ASSUME NEW header, NEW names, NEW at \in Nat, Within(header, names, 0, at),
         names \cap ValuesNames = {}, NEW tag
  PROVE  Neat(header \cup Values(tag, at),
              IF tag = 0 THEN at + 39 ELSE IF tag = 1 THEN at + 35 ELSE at + 1)
<1>1. CASE tag = 0
  BY <1>1, ValuesWithin, Joined DEF Neat
<1>2. CASE tag = 1
  BY <1>2, ValuesWithin, Joined DEF Neat
<1>3. CASE tag \notin {0, 1}
  <2>1. Within(Values(tag, at), {"union_tag"}, at, at + 1)
    BY <1>3, ValuesWithin, ScalarWithin DEF ScalarNames, Widths
  <2>2. names \cap {"union_tag"} = {}
    BY DEF ValuesNames
  <2> QED
    BY <1>3, <2>1, <2>2, Joined DEF Neat
<1> QED
  BY <1>1, <1>2, <1>3

LEMMA SetNeat ==
  ASSUME NEW tag
  PROVE  Neat(SetValues(tag), IF tag = 0 THEN 55 ELSE IF tag = 1 THEN 51 ELSE 17)
<1>1. Within(Scalar("node_id", 0, 8), {"node_id"}, 0, 8)
  BY ScalarWithin DEF ScalarNames, Widths
<1>2. Within(Scalar("index", 8, 8), {"index"}, 8, 16)
  BY ScalarWithin DEF ScalarNames, Widths
<1>3. Within(Scalar("node_id", 0, 8) \cup Scalar("index", 8, 8), {"node_id"} \cup {"index"}, 0, 16)
  BY <1>1, <1>2, Joined
<1>4. ({"node_id"} \cup {"index"}) \cap ValuesNames = {}
  BY DEF ValuesNames
<1> QED
  BY <1>3, <1>4, UnionNeat DEF SetValues

LEMMA TellNeat ==
  ASSUME NEW tag
  PROVE  Neat(TellValues(tag), IF tag = 0 THEN 48 ELSE IF tag = 1 THEN 44 ELSE 10)
<1>1. Within(PortType(0), {"port_type"}, 0, 1)
  BY ScalarWithin DEF ScalarNames, Widths, PortType
<1>2. Within(Scalar("index", 1, 8), {"index"}, 1, 9)
  BY ScalarWithin DEF ScalarNames, Widths
<1>3. Within(PortType(0) \cup Scalar("index", 1, 8), {"port_type"} \cup {"index"}, 0, 9)
  BY <1>1, <1>2, Joined
<1>4. ({"port_type"} \cup {"index"}) \cap ValuesNames = {}
  BY DEF ValuesNames
<1> QED
  BY <1>3, <1>4, UnionNeat DEF TellValues

LEMMA RequestNeat == Neat(GetValuesRequest, 17)
<1>1. Within(PortType(0), {"port_type"}, 0, 1)
  BY ScalarWithin DEF ScalarNames, Widths, PortType
<1>2. Within(Scalar("index", 1, 8), {"index"}, 1, 9)
  BY ScalarWithin DEF ScalarNames, Widths
<1>3. Within(ValueType(9), {"value_type"}, 9, 11)
  BY ScalarWithin DEF ScalarNames, Widths, ValueType
<1>4. Within(Scalar("length", 11, 6), {"length"}, 11, 17)
  BY ScalarWithin DEF ScalarNames, Widths
<1>5. Within(PortType(0) \cup Scalar("index", 1, 8), {"port_type"} \cup {"index"}, 0, 9)
  BY <1>1, <1>2, Joined
<1>6. Within(PortType(0) \cup Scalar("index", 1, 8) \cup ValueType(9),
             {"port_type"} \cup {"index"} \cup {"value_type"}, 0, 11)
  BY <1>3, <1>5, Joined
<1>7. Within(GetValuesRequest, {"port_type"} \cup {"index"} \cup {"value_type"} \cup {"length"}, 0, 17)
  BY <1>4, <1>6, Joined DEF GetValuesRequest
<1> QED
  BY <1>7 DEF Neat

LEMMA ResponseNeat ==
  ASSUME NEW tag
  PROVE  Neat(GetValuesResponse(tag), IF tag = 0 THEN 50 ELSE IF tag = 1 THEN 46 ELSE 12)
<1>1. Within(Scalar("result", 0, 2), {"result"}, 0, 2)
  BY ScalarWithin DEF ScalarNames, Widths
<1>2. Within(PortType(2), {"port_type"}, 2, 3)
  BY ScalarWithin DEF ScalarNames, Widths, PortType
<1>3. Within(Scalar("index", 3, 8), {"index"}, 3, 11)
  BY ScalarWithin DEF ScalarNames, Widths
<1>4. Within(Scalar("result", 0, 2) \cup PortType(2), {"result"} \cup {"port_type"}, 0, 3)
  BY <1>1, <1>2, Joined
<1>5. Within(Scalar("result", 0, 2) \cup PortType(2) \cup Scalar("index", 3, 8),
             {"result"} \cup {"port_type"} \cup {"index"}, 0, 11)
  BY <1>3, <1>4, Joined
<1>6. ({"result"} \cup {"port_type"} \cup {"index"}) \cap ValuesNames = {}
  BY DEF ValuesNames
<1> DEFINE before == Scalar("result", 0, 2) \cup PortType(2) \cup Scalar("index", 3, 8)
           names  == {"result"} \cup {"port_type"} \cup {"index"}
<1>7. GetValuesResponse(tag) = before \cup Values(tag, 11)
  BY DEF GetValuesResponse
<1>8. Within(before, names, 0, 11) /\ names \cap ValuesNames = {}
  BY <1>5, <1>6
<1> HIDE DEF before, names
<1> QED
  BY <1>7, <1>8, UnionNeat

\* The bits of a message of each kind.
Kinds == {"SetValues", "TellValues", "Request", "Response"}

BitCount(kind, tag) ==
  CASE kind = "SetValues"  -> IF tag = 0 THEN 55 ELSE IF tag = 1 THEN 51 ELSE 17
    [] kind = "TellValues" -> IF tag = 0 THEN 48 ELSE IF tag = 1 THEN 44 ELSE 10
    [] kind = "Request"    -> 17
    [] kind = "Response"   -> IF tag = 0 THEN 50 ELSE IF tag = 1 THEN 46 ELSE 12

LEMMA LayoutNeat ==
  ASSUME NEW kind \in Kinds, NEW tag
  PROVE  /\ Neat(Layout(kind, tag), BitCount(kind, tag))
         /\ Size(Layout(kind, tag)) = BitCount(kind, tag)
         /\ BitCount(kind, tag) \in 1..55
<1>1. Neat(Layout(kind, tag), BitCount(kind, tag))
  <2>1. CASE kind = "SetValues"
    BY <2>1, SetNeat DEF Layout, BitCount
  <2>2. CASE kind = "TellValues"
    BY <2>2, TellNeat DEF Layout, BitCount
  <2>3. CASE kind = "Request"
    BY <2>3, RequestNeat DEF Layout, BitCount
  <2>4. CASE kind = "Response"
    BY <2>4, ResponseNeat DEF Layout, BitCount
  <2> QED
    BY <2>1, <2>2, <2>3, <2>4 DEF Kinds
<1>2. Size(Layout(kind, tag)) = BitCount(kind, tag)
  BY <1>1, SizeOfLayout DEF Neat
<1>3. BitCount(kind, tag) \in 1..55
  BY DEF BitCount, Kinds
<1> QED
  BY <1>1, <1>2, <1>3

-----------------------------------------------------------------------------
(* Codecs *)

TagOf(struct) == struct[<<"union_tag", 0>>]

\* Every field is where its layout says, and there is nothing but whole bytes.
LEMMA PayloadBits ==
  ASSUME NEW kind \in Kinds, NEW struct \in [Keys -> Nat], NEW pad
  PROVE  LET layout  == Layout(kind, TagOf(struct))
             payload == Encode(kind, struct, pad)
         IN  /\ Len(payload) = 8 * Bytes(BitCount(kind, TagOf(struct)))
             /\ \A f \in layout : \A b \in 1..f.width :
                  payload[f.at + b] = ToBit(Cut(struct[f.key], f.width), b)
<1> DEFINE layout  == Layout(kind, TagOf(struct))
           payload == Encode(kind, struct, pad)
           n       == BitCount(kind, TagOf(struct))
           owner(b) == CHOOSE f \in layout : b \in Bits(f)
<1>1. Neat(layout, n) /\ Size(layout) = n /\ n \in 1..55
  BY LayoutNeat
<1>2. PICK names : Within(layout, names, 0, n)
  BY <1>1 DEF Neat
<1>3. payload = [b \in 1..(8 * Bytes(n)) |->
                   IF b > n THEN pad
                   ELSE ToBit(Cut(struct[owner(b).key], owner(b).width), b - owner(b).at)]
  BY <1>1 DEF Encode, TagOf
<1>4. 8 * Bytes(n) \in Nat /\ n <= 8 * Bytes(n)
  BY <1>1 DEF Bytes
<1> HIDE DEF layout, payload, n
<1>5. Len(payload) = 8 * Bytes(n)
  BY <1>3, <1>4
<1>6. ASSUME NEW f \in layout, NEW b \in 1..f.width
      PROVE  payload[f.at + b] = ToBit(Cut(struct[f.key], f.width), b)
  <2>1. /\ f.at \in Nat /\ f.width \in 1..16 /\ f.at + f.width <= n
        /\ n \in Nat
    BY <1>2 DEF Within, Widths
  <2>2. f.at + b \in Bits(f) /\ f.at + b \in 1..(8 * Bytes(n)) /\ ~(f.at + b > n)
    BY <1>4, <2>1 DEF Bits
  <2>3. ASSUME NEW g \in layout, f.at + b \in Bits(g)
        PROVE  g = f
    <3>1. g.at \in Nat /\ g.width \in 1..16
      BY <1>2 DEF Within, Widths
    <3>2. ~(f.at + f.width <= g.at) /\ ~(g.at + g.width <= f.at)
      BY <2>1, <2>3, <3>1 DEF Bits
    <3> QED
      BY <1>2, <3>2 DEF Within
  <2>4. owner(f.at + b) = f
    BY <2>2, <2>3
  <2>5. (f.at + b) - f.at = b
    BY <2>1
  <2> HIDE DEF owner
  <2> QED
    BY <1>3, <2>2, <2>4, <2>5
<1> QED
  BY <1>5, <1>6 DEF layout, payload, n

\* A field is decoded to what was encoded, cut to its bits, by whoever has it in a
\* layout that agrees with the sender's on its fields.
LEMMA FieldArrives ==
  ASSUME NEW kind \in Kinds, NEW struct \in [Keys -> Nat], NEW pad,
         NEW known \in SUBSET Layout(kind, TagOf(struct)), NEW f \in known
  PROVE  Decoded(known, Encode(kind, struct, pad))[f.key] = Cut(struct[f.key], f.width)
<1> DEFINE layout  == Layout(kind, TagOf(struct))
           payload == Encode(kind, struct, pad)
           field(k) == CHOOSE g \in known : g.key = k
           keys     == {g.key : g \in known}
<1>1. PICK names : Within(layout, names, 0, BitCount(kind, TagOf(struct)))
  BY LayoutNeat DEF Neat
<1>2. f \in layout /\ known \subseteq layout
  OBVIOUS
<1>3. \A b \in 1..f.width : payload[f.at + b] = ToBit(Cut(struct[f.key], f.width), b)
  BY <1>2, PayloadBits
<1>4. Decoded(known, payload) =
        [k \in keys |-> FromBits([b \in 1..field(k).width |-> payload[field(k).at + b]])]
  BY DEF Decoded
<1> HIDE DEF layout, payload
<1>5. f.width \in Widths /\ f.width \in 1..16 /\ struct[f.key] \in Nat
  BY <1>1, <1>2 DEF Within, Widths
<1>6. \A g \in known : g.key = f.key => g = f
  BY <1>1, <1>2 DEF Within
<1>7. field(f.key) = f
  BY <1>6
<1>8. f.key \in keys
  OBVIOUS
<1> HIDE DEF field, keys
<1>9. Decoded(known, payload)[f.key] = FromBits([b \in 1..f.width |-> payload[f.at + b]])
  BY <1>4, <1>7, <1>8
<1>10. PICK v \in Word : v = Cut(struct[f.key], f.width) /\ v < 2^(f.width)
  BY <1>5, CutFits DEF Widths
<1>11. [b \in 1..f.width |-> payload[f.at + b]] = [b \in 1..f.width |-> WordBit(v, b)]
  <2>1. \A b \in 1..f.width : ToBit(v, b) = WordBit(v, b)
    BY <1>5 DEF WordBit, WordBits
  <2> QED
    BY <1>3, <1>10, <2>1
<1>12. v \in Number
  BY DEF Word, WordBits, Number
<1>13. FromBits([b \in 1..f.width |-> WordBit(v, b)]) = v
  <2> HIDE DEF layout, payload, field, keys
  <2>1. PICK w \in 1..64 : w = f.width
    BY <1>5
  <2>2. v < 2^w
    BY <1>10, <2>1
  <2>3. FromBits([b \in 1..w |-> WordBit(v, b)]) = v
    BY <1>12, <2>2, BitsMakeNumber
  <2> QED
    BY <2>1, <2>3
<1> QED
  BY <1>9, <1>10, <1>11, <1>13 DEF payload

\* The receiver reads the union tag before it knows what follows it.
LEMMA TagArrives ==
  ASSUME NEW kind \in Kinds \ {"Request"}, NEW struct \in [Keys -> Nat], NEW pad
  PROVE  Decoded(Layout(kind, 2), Encode(kind, struct, pad))[<<"union_tag", 0>>]
           = IF TagOf(struct) = 0 THEN 0 ELSE 1
<1> DEFINE known == Layout(kind, 2)
           place == IF kind = "SetValues" THEN 16 ELSE IF kind = "TellValues" THEN 9 ELSE 11
           f     == Field("union_tag", 0, place, 1)
<1>1. kind \in {"SetValues", "TellValues", "Response"}
  BY DEF Kinds
<1>2. f \in known
  BY <1>1 DEF Layout, SetValues, TellValues, GetValuesResponse, Values, Scalar
<1>3. known \in SUBSET Layout(kind, TagOf(struct))
  <2>1. Values(2, place) \subseteq Values(TagOf(struct), place)
    BY DEF Values
  <2> QED
    BY <1>1, <2>1 DEF Layout, SetValues, TellValues, GetValuesResponse
<1>4. f.key = <<"union_tag", 0>> /\ f.width = 1
  BY DEF Field
<1>5. TagOf(struct) \in Nat
  BY DEF TagOf, Keys, ScalarNames
<1>6. Cut(TagOf(struct), 1) = IF TagOf(struct) = 0 THEN 0 ELSE 1
  BY <1>5 DEF Cut
<1>7. struct[f.key] = TagOf(struct)
  BY <1>4 DEF TagOf
<1> HIDE DEF f, known
<1>8. Decoded(known, Encode(kind, struct, pad))[f.key] = Cut(struct[f.key], f.width)
  BY <1>2, <1>3, FieldArrives
<1> QED
  BY <1>4, <1>6, <1>7, <1>8 DEF known

\* What a payload is decoded to.  Of a union whose tag was never assigned only the
\* tag is on the bus, and its receiver misses the rest of the values.
LEMMA Decodes ==
  ASSUME NEW kind \in Kinds, NEW struct \in [Keys -> Nat], NEW pad
  PROVE  LET payload == Encode(kind, struct, pad)
         IN  Decode(kind, payload) =
               IF kind # "Request" /\ TagOf(struct) \notin {0, 1} THEN {}
               ELSE {Decoded(Layout(kind, TagOf(struct)), payload)}
<1> DEFINE payload == Encode(kind, struct, pad)
           tag     == Decoded(Layout(kind, 2), payload)[<<"union_tag", 0>>]
           chosen  == IF kind = "Request" THEN Layout(kind, 2) ELSE Layout(kind, tag)
<1>1. Decode(kind, payload) =
        IF Size(Layout(kind, 2)) > Len(payload) \/ Size(chosen) > Len(payload) THEN {}
        ELSE {Decoded(chosen, payload)}
  BY DEF Decode
<1>2. Len(payload) = 8 * Bytes(BitCount(kind, TagOf(struct)))
  BY PayloadBits
<1>3. Size(Layout(kind, 2)) = BitCount(kind, 2)
  BY LayoutNeat
<1>4. CASE kind = "Request"
  <2>1. BitCount(kind, 2) = 17 /\ Len(payload) = 24
    BY <1>2, <1>4 DEF BitCount, Bytes
  <2>2. Layout(kind, TagOf(struct)) = Layout(kind, 2) /\ chosen = Layout(kind, 2)
    BY <1>4 DEF Layout
  <2> HIDE DEF payload, chosen
  <2>3. ~(Size(Layout(kind, 2)) > Len(payload)) /\ ~(Size(chosen) > Len(payload))
    BY <1>3, <2>1, <2>2
  <2>4. Decode(kind, payload) = {Decoded(Layout(kind, TagOf(struct)), payload)}
    BY <1>1, <2>2, <2>3
  <2> QED
    BY <1>4, <2>4 DEF payload
<1>5. CASE kind # "Request"
  <2>1. tag = IF TagOf(struct) = 0 THEN 0 ELSE 1
    BY <1>5, TagArrives
  <2>2. chosen = Layout(kind, tag) /\ Size(Layout(kind, tag)) = BitCount(kind, tag)
    BY <1>5, LayoutNeat
  <2>3. kind \in {"SetValues", "TellValues", "Response"}
    BY <1>5 DEF Kinds
  <2> HIDE DEF payload, tag, chosen
  <2>4. CASE TagOf(struct) \in {0, 1}
    <3>1. tag = TagOf(struct)
      BY <2>1, <2>4
    <3>2. BitCount(kind, 2) <= Len(payload) /\ BitCount(kind, tag) <= Len(payload)
      BY <1>2, <2>3, <2>4, <3>1 DEF BitCount, Bytes
    <3>3. /\ BitCount(kind, 2) \in Int /\ BitCount(kind, tag) \in Int /\ Len(payload) \in Int
      BY <1>2, <2>3 DEF BitCount, Bytes
    <3>4. ~(Size(Layout(kind, 2)) > Len(payload)) /\ ~(Size(chosen) > Len(payload))
      BY <1>3, <2>2, <3>2, <3>3
    <3>5. Decode(kind, payload) = {Decoded(Layout(kind, TagOf(struct)), payload)}
      BY <1>1, <2>2, <3>1, <3>4
    <3> QED
      BY <2>4, <3>5 DEF payload
  <2>5. CASE TagOf(struct) \notin {0, 1}
    <3>1. tag = 1
      BY <2>1, <2>5
    <3>2. BitCount(kind, tag) > Len(payload)
      BY <1>2, <2>3, <2>5, <3>1 DEF BitCount, Bytes
    <3>3. Size(chosen) > Len(payload)
      BY <2>2, <3>2
    <3> QED
      BY <1>1, <1>5, <2>5, <3>3 DEF payload
  <2> QED
    BY <2>4, <2>5
<1> QED
  BY <1>4, <1>5

\* Whatever a struct holds, in the fields of its message or beside them, and
\* whatever the spare bits hold: a receiver decodes every field to what the sender
\* encoded, cut to its bits, or refuses the message, if its union has no such
\* member (the codecs of lib/uavcan_automation).
THEOREM CodecsAgree ==
  ASSUME NEW kind \in Kinds, NEW struct \in [Keys -> Nat], NEW pad
  PROVE  /\ Decode(kind, Encode(kind, struct, pad)) = {}
              <=> kind # "Request" /\ TagOf(struct) \notin {0, 1}
         /\ \A s \in Decode(kind, Encode(kind, struct, pad)) :
              \A f \in Layout(kind, TagOf(struct)) : s[f.key] = Cut(struct[f.key], f.width)
<1> DEFINE layout  == Layout(kind, TagOf(struct))
           payload == Encode(kind, struct, pad)
<1>1. Decode(kind, payload) = IF kind # "Request" /\ TagOf(struct) \notin {0, 1} THEN {}
                              ELSE {Decoded(layout, payload)}
  BY Decodes
<1>2. layout \in SUBSET layout
  OBVIOUS
<1>3. \A f \in layout : Decoded(layout, payload)[f.key] = Cut(struct[f.key], f.width)
  BY <1>2, FieldArrives
<1> QED
  BY <1>1, <1>3

-----------------------------------------------------------------------------
(* Blocks of values *)

\* The values a message has room for.
Carried(g) == IF g \in {"DI", "DO"} THEN {v \in Seq({0, 1}) : Len(v) <= 32}
              ELSE {v \in Seq(Word) : Len(v) <= 2}

Groups == {"DI", "DO", "AI", "AO"}

LEMMA ValuesAreCarried ==
  ASSUME NEW g \in Groups
  PROVE  ValuesOf(g) \subseteq Carried(g)
<1>1. CASE g \in {"DI", "DO"}
  <2>1. ValuesOf(g) = DigValues /\ Carried(g) = {v \in Seq({0, 1}) : Len(v) <= 32}
    BY <1>1 DEF ValuesOf, Carried
  <2> QED
    BY <2>1, InputsAssumption
<1>2. CASE g \notin {"DI", "DO"}
  <2>1. ValuesOf(g) = AnValues /\ Carried(g) = {v \in Seq(Word) : Len(v) <= 2}
    BY <1>2 DEF ValuesOf, Carried
  <2> QED
    BY <2>1, InputsAssumption
<1> QED
  BY <1>1, <1>2

LEMMA SeqFacts ==
  ASSUME NEW S, NEW v \in Seq(S)
  PROVE  /\ DOMAIN v = 1..Len(v) /\ Len(v) \in Nat
         /\ v = [i \in 1..Len(v) |-> v[i]] /\ \A i \in 1..Len(v) : v[i] \in S
OBVIOUS

LEMMA CarriedFacts ==
  ASSUME NEW g, NEW vals \in Carried(g)
  PROVE  /\ DOMAIN vals = 1..Len(vals) /\ Len(vals) \in Nat
         /\ vals = [i \in 1..Len(vals) |-> vals[i]]
         /\ g \in {"DI", "DO"} => /\ Len(vals) <= 32
                                  /\ \A i \in 1..Len(vals) : vals[i] \in {0, 1}
         /\ g \notin {"DI", "DO"} => /\ Len(vals) <= 2
                                     /\ \A i \in 1..Len(vals) : vals[i] \in Word
<1>1. CASE g \in {"DI", "DO"}
  <2>1. vals \in Seq({0, 1}) /\ Len(vals) <= 32
    BY <1>1 DEF Carried
  <2> QED
    BY <1>1, <2>1, SeqFacts
<1>2. CASE g \notin {"DI", "DO"}
  <2>1. vals \in Seq(Word) /\ Len(vals) <= 2
    BY <1>2 DEF Carried
  <2> QED
    BY <1>2, <2>1, SeqFacts
<1> QED
  BY <1>1, <1>2

\* A struct holds a block.
Holds(struct, g, index, vals) ==
  /\ struct[<<"index", 0>>] = index /\ TagOf(struct) = Tag(g)
  /\ struct[<<"values_len", 0>>] = Len(vals)
  /\ \A i \in DOMAIN vals : struct[<<"values", i>>] = vals[i]

LEMMA CallOfBlock ==
  ASSUME NEW op, NEW node, NEW g \in Groups, NEW index, NEW vals \in Carried(g), NEW s,
         Holds(s, g, index, vals)
  PROVE  Call(op, g, node, s)
           = [op |-> op, grp |-> g, node |-> node, index |-> index, vals |-> vals]
<1>2. vals = [i \in 1..Len(vals) |-> vals[i]] /\ DOMAIN vals = 1..Len(vals)
  BY CarriedFacts
<1>3. [i \in 1..s[<<"values_len", 0>>] |-> s[<<"values", i>>]] = vals
  BY <1>2 DEF Holds
<1> QED
  BY <1>3 DEF Call, Holds

\* A block in a message arrives as it was sent.
LEMMA BlockArrives ==
  ASSUME NEW kind \in {"SetValues", "TellValues", "Response"}, NEW struct \in [Keys -> Nat],
         NEW pad, NEW g \in Groups, NEW index \in Byte, NEW vals \in Carried(g),
         Holds(struct, g, index, vals)
  PROVE  /\ Decode(kind, Encode(kind, struct, pad)) # {}
         /\ \A s \in Decode(kind, Encode(kind, struct, pad)) : Holds(s, g, index, vals)
<1> DEFINE layout  == Layout(kind, TagOf(struct))
           payload == Encode(kind, struct, pad)
           at      == IF kind = "SetValues" THEN 16 ELSE IF kind = "TellValues" THEN 9 ELSE 11
<1>1. kind \in Kinds /\ kind # "Request"
  BY DEF Kinds
<1>2. TagOf(struct) = Tag(g) /\ Tag(g) \in {0, 1}
  BY DEF Holds, Tag
<1>3. /\ Decode(kind, payload) # {}
      /\ \A s \in Decode(kind, payload) : \A f \in layout : s[f.key] = Cut(struct[f.key], f.width)
  BY <1>1, <1>2, CodecsAgree
<1>4. Field("index", 0, at - 8, 8) \in layout /\ Values(Tag(g), at) \subseteq layout
  BY <1>2 DEF Layout, SetValues, TellValues, GetValuesResponse, Scalar
<1> HIDE DEF layout, payload
<1>5. PICK n \in Nat : n = Len(vals)
  BY CarriedFacts
<1>6. /\ DOMAIN vals = 1..n
      /\ g \in {"DI", "DO"} => n <= 32 /\ \A i \in 1..n : vals[i] \in {0, 1}
      /\ g \notin {"DI", "DO"} => n <= 2 /\ \A i \in 1..n : vals[i] \in Word
  BY <1>5, CarriedFacts
<1>7. SUFFICES ASSUME NEW s \in Decode(kind, payload)
               PROVE  Holds(s, g, index, vals)
  BY <1>3 DEF payload
<1>8. ASSUME NEW name, NEW i, NEW p, NEW w \in {1, 2, 6, 8, 16}, Field(name, i, p, w) \in layout,
             struct[<<name, i>>] \in Nat, struct[<<name, i>>] < 2^w
      PROVE  s[<<name, i>>] = struct[<<name, i>>]
  <2>1. s[<<name, i>>] = Cut(struct[<<name, i>>], w)
    <3> DEFINE f == Field(name, i, p, w)
    <3>1. f.key = <<name, i>> /\ f.width = w /\ f \in layout
      BY <1>8 DEF Field
    <3> HIDE DEF f
    <3> QED
      BY <1>3, <3>1
  <2> QED
    BY <1>8, <2>1, CutFits
<1>9. s[<<"index", 0>>] = index
  <2>1. struct[<<"index", 0>>] = index /\ index \in Nat /\ index < 2^8
    BY DEF Holds, Byte
  <2> QED
    BY <1>4, <1>8, <2>1
<1>10. TagOf(s) = Tag(g)
  <2>1. Field("union_tag", 0, at, 1) \in layout
    BY <1>4 DEF Values, Scalar
  <2>2. struct[<<"union_tag", 0>>] = Tag(g) /\ Tag(g) \in Nat /\ Tag(g) < 2^1
    BY <1>2 DEF TagOf
  <2>3. s[<<"union_tag", 0>>] = struct[<<"union_tag", 0>>]
    BY <1>8, <2>1, <2>2
  <2> QED
    BY <2>2, <2>3 DEF TagOf
<1>11. CASE g \in {"DI", "DO"}
  <2>1. DigitalValues(at + 1) \subseteq layout
    BY <1>4, <1>11 DEF Values, Tag
  <2>2. s[<<"values_len", 0>>] = Len(vals)
    <3>1. Field("values_len", 0, at + 1, 6) \in layout
      BY <2>1 DEF DigitalValues, Scalar
    <3>2. struct[<<"values_len", 0>>] = n /\ n \in Nat /\ n < 2^6
      BY <1>5, <1>6, <1>11 DEF Holds
    <3> QED
      BY <1>5, <1>8, <3>1, <3>2
  <2>3. ASSUME NEW i \in DOMAIN vals
        PROVE  s[<<"values", i>>] = vals[i]
    <3>1. i \in 1..32 /\ vals[i] \in {0, 1}
      <4>1. i \in 1..n /\ n <= 32 /\ \A j \in 1..n : vals[j] \in {0, 1}
        BY <1>6, <1>11
      <4> QED
        BY <4>1
    <3>2. Field("values", i, at + 1 + 6 + (i - 1) * 1, 1) \in layout
      BY <2>1, <3>1 DEF DigitalValues, Array
    <3>3. struct[<<"values", i>>] = vals[i] /\ vals[i] \in Nat /\ vals[i] < 2^1
      BY <3>1 DEF Holds
    <3> QED
      BY <1>8, <3>2, <3>3
  <2> QED
    BY <1>9, <1>10, <2>2, <2>3 DEF Holds
<1>12. CASE g \notin {"DI", "DO"}
  <2>1. AnalogValues(at + 1) \subseteq layout
    BY <1>4, <1>12 DEF Values, Tag
  <2>2. s[<<"values_len", 0>>] = Len(vals)
    <3>1. Field("values_len", 0, at + 1, 2) \in layout
      BY <2>1 DEF AnalogValues, Scalar
    <3>2. struct[<<"values_len", 0>>] = n /\ n \in Nat /\ n < 2^2
      BY <1>5, <1>6, <1>12 DEF Holds
    <3> QED
      BY <1>5, <1>8, <3>1, <3>2
  <2>3. ASSUME NEW i \in DOMAIN vals
        PROVE  s[<<"values", i>>] = vals[i]
    <3>1. i \in 1..2 /\ vals[i] \in Word
      <4>1. i \in 1..n /\ n <= 2 /\ \A j \in 1..n : vals[j] \in Word
        BY <1>6, <1>12
      <4> QED
        BY <4>1
    <3>2. Field("values", i, at + 1 + 2 + (i - 1) * 16, 16) \in layout
      BY <2>1, <3>1 DEF AnalogValues, Array
    <3>3. struct[<<"values", i>>] = vals[i] /\ vals[i] \in Nat /\ vals[i] < 2^16
      <4>1. \A x \in Word : x \in Nat /\ x < 2^16
        BY DEF Word
      <4> QED
        BY <3>1, <4>1 DEF Holds
    <3> QED
      BY <1>8, <3>2, <3>3
  <2> QED
    BY <1>9, <1>10, <2>2, <2>3 DEF Holds
<1> QED
  BY <1>11, <1>12

-----------------------------------------------------------------------------
(* What the senders assign *)

Assigns(f, k, v) == k \in DOMAIN f /\ f[k] = v
Numbers(f)       == \A k \in DOMAIN f : f[k] \in Nat

\* The first assignment of a field counts.
LEMMA OverFacts ==
  ASSUME NEW f, NEW h
  PROVE  /\ DOMAIN (f ++ h) = DOMAIN f \cup DOMAIN h
         /\ \A k, v : Assigns(f, k, v) => Assigns(f ++ h, k, v)
         /\ \A k, v : Assigns(h, k, v) /\ k \notin DOMAIN f => Assigns(f ++ h, k, v)
         /\ Numbers(f) /\ Numbers(h) => Numbers(f ++ h)
BY DEF ++, Assigns, Numbers

LEMMA AssignFacts ==
  ASSUME NEW name, NEW v
  PROVE  /\ DOMAIN Assign(name, v) = {<<name, 0>>} /\ Assigns(Assign(name, v), <<name, 0>>, v)
         /\ v \in Nat => Numbers(Assign(name, v))
BY DEF Assign, Assigns, Numbers

LEMMA StructFacts ==
  ASSUME NEW f, Numbers(f), NEW garbage \in Garbage
  PROVE  /\ Struct(f, garbage) \in [Keys -> Nat]
         /\ \A k \in Keys : \A v : Assigns(f, k, v) => Struct(f, garbage)[k] = v
BY InputsAssumption DEF Struct, Assigns, Numbers

LEMMA BlockFacts ==
  ASSUME NEW g \in Groups, NEW index \in Byte, NEW vals \in Carried(g)
  PROVE  LET block == Block(g, index, vals)
         IN  /\ Numbers(block)
             /\ \A k \in DOMAIN block : k[1] \in {"index", "union_tag", "values_len", "values"}
             /\ Assigns(block, <<"index", 0>>, index)
             /\ Assigns(block, <<"union_tag", 0>>, Tag(g))
             /\ Assigns(block, <<"values_len", 0>>, Len(vals))
             /\ \A i \in DOMAIN vals : Assigns(block, <<"values", i>>, vals[i])
<1> DEFINE A == Assign("index", index)
           B == Assign("union_tag", Tag(g))
           C == Assign("values_len", Len(vals))
           V == AssignValues(vals)
<1>1. Block(g, index, vals) = A ++ B ++ C ++ V
  BY DEF Block
<1>2. index \in Nat /\ Tag(g) \in Nat /\ Len(vals) \in Nat
  <2>1. index \in Nat
    BY DEF Byte
  <2>2. Tag(g) \in Nat
    BY DEF Tag
  <2> QED
    BY <2>1, <2>2, CarriedFacts
<1>3. /\ DOMAIN V = {<<"values", i>> : i \in DOMAIN vals}
      /\ \A i \in DOMAIN vals : Assigns(V, <<"values", i>>, vals[i])
  BY DEF AssignValues, Assigns
<1>4. Numbers(V)
  <2>1. \A i \in DOMAIN vals : vals[i] \in Nat
    <3>1. PICK n \in Nat : n = Len(vals)
      BY CarriedFacts
    <3>2. DOMAIN vals = 1..n /\ \A i \in 1..n : vals[i] \in {0, 1} \/ vals[i] \in Word
      BY <3>1, CarriedFacts
    <3>3. {0, 1} \subseteq Nat /\ Word \subseteq Nat
      BY DEF Word
    <3> QED
      BY <3>2, <3>3
  <2> QED
    BY <1>3, <2>1 DEF Assigns, Numbers
<1>5. DOMAIN A = {<<"index", 0>>} /\ Assigns(A, <<"index", 0>>, index) /\ Numbers(A)
  BY <1>2, AssignFacts
<1>6. DOMAIN B = {<<"union_tag", 0>>} /\ Assigns(B, <<"union_tag", 0>>, Tag(g)) /\ Numbers(B)
  BY <1>2, AssignFacts
<1>7. DOMAIN C = {<<"values_len", 0>>} /\ Assigns(C, <<"values_len", 0>>, Len(vals)) /\ Numbers(C)
  BY <1>2, AssignFacts
<1> HIDE DEF A, B, C, V
<1>8. /\ DOMAIN (A ++ B) = {<<"index", 0>>, <<"union_tag", 0>>} /\ Numbers(A ++ B)
      /\ Assigns(A ++ B, <<"index", 0>>, index)
      /\ Assigns(A ++ B, <<"union_tag", 0>>, Tag(g))
  <2>1. <<"union_tag", 0>> \notin DOMAIN A
    BY <1>5
  <2>2. DOMAIN (A ++ B) = {<<"index", 0>>} \cup {<<"union_tag", 0>>}
    BY <1>5, <1>6, OverFacts
  <2> QED
    BY <1>5, <1>6, <2>1, <2>2, OverFacts
<1>9. /\ DOMAIN (A ++ B ++ C) = {<<"index", 0>>, <<"union_tag", 0>>, <<"values_len", 0>>}
      /\ Numbers(A ++ B ++ C)
      /\ Assigns(A ++ B ++ C, <<"index", 0>>, index)
      /\ Assigns(A ++ B ++ C, <<"union_tag", 0>>, Tag(g))
      /\ Assigns(A ++ B ++ C, <<"values_len", 0>>, Len(vals))
  <2>1. <<"values_len", 0>> \notin DOMAIN (A ++ B)
    BY <1>8
  <2>2. DOMAIN (A ++ B ++ C)
          = {<<"index", 0>>, <<"union_tag", 0>>} \cup {<<"values_len", 0>>}
    <3>1. DOMAIN (A ++ B ++ C) = DOMAIN (A ++ B) \cup DOMAIN C
      BY OverFacts
    <3> QED
      BY <1>7, <1>8, <3>1
  <2> QED
    BY <1>7, <1>8, <2>1, <2>2, OverFacts
<1>10. /\ DOMAIN (A ++ B ++ C ++ V)
            = {<<"index", 0>>, <<"union_tag", 0>>, <<"values_len", 0>>}
                \cup {<<"values", i>> : i \in DOMAIN vals}
       /\ Numbers(A ++ B ++ C ++ V)
       /\ Assigns(A ++ B ++ C ++ V, <<"index", 0>>, index)
       /\ Assigns(A ++ B ++ C ++ V, <<"union_tag", 0>>, Tag(g))
       /\ Assigns(A ++ B ++ C ++ V, <<"values_len", 0>>, Len(vals))
  <2>1. DOMAIN (A ++ B ++ C ++ V) = DOMAIN (A ++ B ++ C) \cup DOMAIN V
    BY OverFacts
  <2>2. Numbers(A ++ B ++ C ++ V)
    BY <1>4, <1>9, OverFacts
  <2>3. \A k, v : Assigns(A ++ B ++ C, k, v) => Assigns(A ++ B ++ C ++ V, k, v)
    BY OverFacts
  <2> QED
    BY <1>3, <1>9, <2>1, <2>2, <2>3
<1>11. ASSUME NEW i \in DOMAIN vals
       PROVE  Assigns(A ++ B ++ C ++ V, <<"values", i>>, vals[i])
  <2>1. <<"values", i>> \notin DOMAIN (A ++ B ++ C)
    BY <1>9
  <2> QED
    BY <1>3, <2>1, OverFacts
<1>12. \A k \in DOMAIN (A ++ B ++ C ++ V) :
         k[1] \in {"index", "union_tag", "values_len", "values"}
  BY <1>10
<1> QED
  BY <1>1, <1>10, <1>11, <1>12

\* A message with one block: the block and what is assigned before it.
LEMMA BlockStruct ==
  ASSUME NEW name \in {"node_id", "port_type"}, NEW v \in Nat, NEW garbage \in Garbage,
         NEW g \in Groups, NEW index \in Byte, NEW vals \in Carried(g)
  PROVE  LET struct == Struct(Assign(name, v) ++ Block(g, index, vals), garbage)
         IN  struct \in [Keys -> Nat] /\ struct[<<name, 0>>] = v /\ Holds(struct, g, index, vals)
<1> DEFINE A == Assign(name, v)
           B == Block(g, index, vals)
<1>1. /\ Numbers(B)
      /\ \A k \in DOMAIN B : k[1] \in {"index", "union_tag", "values_len", "values"}
      /\ Assigns(B, <<"index", 0>>, index)
      /\ Assigns(B, <<"union_tag", 0>>, Tag(g))
      /\ Assigns(B, <<"values_len", 0>>, Len(vals))
      /\ \A i \in DOMAIN vals : Assigns(B, <<"values", i>>, vals[i])
  BY BlockFacts
<1>2. DOMAIN A = {<<name, 0>>} /\ Assigns(A, <<name, 0>>, v) /\ Numbers(A)
  BY AssignFacts
<1> HIDE DEF A, B
<1>3. /\ Numbers(A ++ B) /\ Assigns(A ++ B, <<name, 0>>, v)
      /\ Assigns(A ++ B, <<"index", 0>>, index)
      /\ Assigns(A ++ B, <<"union_tag", 0>>, Tag(g))
      /\ Assigns(A ++ B, <<"values_len", 0>>, Len(vals))
      /\ \A i \in DOMAIN vals : Assigns(A ++ B, <<"values", i>>, vals[i])
  <2>1. \A n, i : n \notin {"node_id", "port_type"} => <<n, i>> \notin DOMAIN A
    BY <1>2
  <2> QED
    BY <1>1, <1>2, <2>1, OverFacts
<1>4. /\ <<name, 0>> \in Keys /\ <<"index", 0>> \in Keys /\ <<"union_tag", 0>> \in Keys
      /\ <<"values_len", 0>> \in Keys
      /\ \A i \in DOMAIN vals : <<"values", i>> \in Keys
  <2>1. ASSUME NEW i \in DOMAIN vals
        PROVE  i \in 1..32
    <3>1. PICK n \in Nat : n = Len(vals)
      BY CarriedFacts
    <3>2. i \in 1..n /\ n <= 32
      <4>1. g \in {"DI", "DO"} \/ g \notin {"DI", "DO"}
        OBVIOUS
      <4> QED
        BY <3>1, <4>1, CarriedFacts
    <3> QED
      BY <3>2
  <2> QED
    BY <2>1 DEF Keys, ScalarNames
<1> QED
  BY <1>3, <1>4, StructFacts DEF A, B, Holds, TagOf

-----------------------------------------------------------------------------
(* What the receivers make of a message *)

\* A field beside the block.
LEMMA FieldDecoded ==
  ASSUME NEW kind \in Kinds, NEW struct \in [Keys -> Nat], NEW pad, NEW name, NEW at, NEW width,
         Field(name, 0, at, width) \in Layout(kind, TagOf(struct)),
         NEW s \in Decode(kind, Encode(kind, struct, pad))
  PROVE  s[<<name, 0>>] = Cut(struct[<<name, 0>>], width)
<1> DEFINE f == Field(name, 0, at, width)
<1>1. f.key = <<name, 0>> /\ f.width = width /\ f \in Layout(kind, TagOf(struct))
  BY DEF Field
<1> HIDE DEF f
<1>2. s[f.key] = Cut(struct[f.key], f.width)
  BY <1>1, CodecsAgree
<1> QED
  BY <1>1, <1>2

Asked(op, g, node, index, vals) ==
  [op |-> op, grp |-> g, node |-> node, index |-> index, vals |-> vals]
AskedToGet(g, node, index, len) ==
  [op |-> "get", grp |-> g, node |-> node, index |-> index, len |-> len]

\* Exactly the slave that is named does what was asked for.
LEMMA SetIsDone ==
  ASSUME NEW to \in Byte, NEW index \in Byte, NEW g \in {"DO", "AO"}, NEW vals \in Carried(g),
         NEW garbage \in Garbage, NEW pad
  PROVE  LET struct == Struct(Assign("node_id", to) ++ Block(g, index, vals), garbage)
         IN  UNION {SetCalls(s) : s \in Decode("SetValues", Encode("SetValues", struct, pad))}
               = IF to \in Slaves THEN {Asked("set", g, to, index, vals)} ELSE {}
<1> DEFINE struct  == Struct(Assign("node_id", to) ++ Block(g, index, vals), garbage)
           payload == Encode("SetValues", struct, pad)
<1>1. g \in Groups /\ to \in Nat
  BY DEF Groups, Byte
<1>2. struct \in [Keys -> Nat] /\ struct[<<"node_id", 0>>] = to /\ Holds(struct, g, index, vals)
  BY <1>1, BlockStruct
<1> HIDE DEF struct
<1>3. /\ Decode("SetValues", payload) # {}
      /\ \A s \in Decode("SetValues", payload) : Holds(s, g, index, vals)
  BY <1>1, <1>2, BlockArrives
<1>4. ASSUME NEW s \in Decode("SetValues", payload)
      PROVE  SetCalls(s) = IF to \in Slaves THEN {Asked("set", g, to, index, vals)} ELSE {}
  <2>1. s[<<"node_id", 0>>] = to
    <3>1. Field("node_id", 0, 0, 8) \in Layout("SetValues", TagOf(struct))
      BY DEF Layout, SetValues, Scalar
    <3>2. "SetValues" \in Kinds
      BY DEF Kinds
    <3>3. s[<<"node_id", 0>>] = Cut(struct[<<"node_id", 0>>], 8)
      BY <1>2, <3>1, <3>2, FieldDecoded
    <3>4. to \in Nat /\ to < 2^8
      BY DEF Byte
    <3> QED
      BY <1>2, <3>3, <3>4, CutFits
  <2>2. GroupOf(s, "DO", "AO") = g
    BY <1>3 DEF Holds, TagOf, Tag, GroupOf
  <2>3. Call("set", g, to, s) = Asked("set", g, to, index, vals)
    BY <1>1, <1>3, CallOfBlock DEF Asked
  <2>4. SetCalls(s) = {Call("set", g, n, s) : n \in Slaves \cap {to}}
    BY <2>1, <2>2 DEF SetCalls
  <2> QED
    BY <2>3, <2>4
<1> QED
  BY <1>3, <1>4 DEF struct

\* The PLC is told what was sent.
HeardFrom(from, payload) ==
  {Call("tell", GroupOf(s, "DI", "AI"), from, s) :
     s \in {s \in Decode("TellValues", payload) : s[<<"port_type", 0>>] = 0}}

LEMMA TellIsHeard ==
  ASSUME NEW from, NEW index \in Byte, NEW g \in {"DI", "AI"}, NEW vals \in Carried(g),
         NEW garbage \in Garbage, NEW pad
  PROVE  LET struct == Struct(Assign("port_type", 0) ++ Block(g, index, vals), garbage)
         IN  HeardFrom(from, Encode("TellValues", struct, pad))
               = {Asked("tell", g, from, index, vals)}
<1> DEFINE struct  == Struct(Assign("port_type", 0) ++ Block(g, index, vals), garbage)
           payload == Encode("TellValues", struct, pad)
<1>1. g \in Groups
  BY DEF Groups
<1>2. struct \in [Keys -> Nat] /\ struct[<<"port_type", 0>>] = 0 /\ Holds(struct, g, index, vals)
  BY <1>1, BlockStruct
<1> HIDE DEF struct
<1>3. /\ Decode("TellValues", payload) # {}
      /\ \A s \in Decode("TellValues", payload) : Holds(s, g, index, vals)
  BY <1>1, <1>2, BlockArrives
<1>4. ASSUME NEW s \in Decode("TellValues", payload)
      PROVE  /\ s[<<"port_type", 0>>] = 0
             /\ Call("tell", GroupOf(s, "DI", "AI"), from, s)
                  = Asked("tell", g, from, index, vals)
  <2>1. s[<<"port_type", 0>>] = 0
    <3>1. Field("port_type", 0, 0, 1) \in Layout("TellValues", TagOf(struct))
      BY DEF Layout, TellValues, PortType, Scalar
    <3>2. "TellValues" \in Kinds
      BY DEF Kinds
    <3>3. s[<<"port_type", 0>>] = Cut(struct[<<"port_type", 0>>], 1)
      BY <1>2, <3>1, <3>2, FieldDecoded
    <3>4. Cut(0, 1) = 0
      BY DEF Cut
    <3> QED
      BY <1>2, <3>3, <3>4
  <2>2. GroupOf(s, "DI", "AI") = g
    BY <1>3 DEF Holds, TagOf, Tag, GroupOf
  <2>3. Call("tell", g, from, s) = Asked("tell", g, from, index, vals)
    BY <1>1, <1>3, CallOfBlock DEF Asked
  <2> QED
    BY <2>1, <2>2, <2>3
<1> QED
  BY <1>3, <1>4 DEF struct, HeardFrom

Request(g, index, len) ==
  Assign("index", index) ++ Assign("length", len)
    ++ Assign("value_type", IF g = "DI" THEN 1 ELSE 2)

LEMMA RequestStruct ==
  ASSUME NEW g, NEW index \in Byte, NEW len \in Byte, NEW garbage \in Garbage
  PROVE  LET struct == Struct(Request(g, index, len), garbage)
         IN  /\ struct \in [Keys -> Nat]
             /\ struct[<<"index", 0>>] = index /\ struct[<<"length", 0>>] = len
             /\ struct[<<"value_type", 0>>] = IF g = "DI" THEN 1 ELSE 2
<1> DEFINE A == Assign("index", index)
           B == Assign("length", len)
           t == IF g = "DI" THEN 1 ELSE 2
           C == Assign("value_type", t)
<1>1. index \in Nat /\ len \in Nat /\ t \in Nat
  BY DEF Byte
<1>2. DOMAIN A = {<<"index", 0>>} /\ Assigns(A, <<"index", 0>>, index) /\ Numbers(A)
  BY <1>1, AssignFacts
<1>3. DOMAIN B = {<<"length", 0>>} /\ Assigns(B, <<"length", 0>>, len) /\ Numbers(B)
  BY <1>1, AssignFacts
<1>4. Assigns(C, <<"value_type", 0>>, t) /\ Numbers(C)
  BY <1>1, AssignFacts
<1> HIDE DEF A, B, C, t
<1>5. /\ DOMAIN (A ++ B) = {<<"index", 0>>} \cup {<<"length", 0>>} /\ Numbers(A ++ B)
      /\ Assigns(A ++ B, <<"index", 0>>, index) /\ Assigns(A ++ B, <<"length", 0>>, len)
  <2>1. <<"length", 0>> \notin DOMAIN A
    BY <1>2
  <2>2. DOMAIN (A ++ B) = {<<"index", 0>>} \cup {<<"length", 0>>}
    BY <1>2, <1>3, OverFacts
  <2> QED
    BY <1>2, <1>3, <2>1, <2>2, OverFacts
<1>6. /\ Numbers(A ++ B ++ C) /\ Assigns(A ++ B ++ C, <<"index", 0>>, index)
      /\ Assigns(A ++ B ++ C, <<"length", 0>>, len)
      /\ Assigns(A ++ B ++ C, <<"value_type", 0>>, t)
  <2>1. <<"value_type", 0>> \notin DOMAIN (A ++ B)
    BY <1>5
  <2>2. Numbers(A ++ B ++ C)
    BY <1>4, <1>5, OverFacts
  <2>3. \A k, v : Assigns(A ++ B, k, v) => Assigns(A ++ B ++ C, k, v)
    BY OverFacts
  <2>4. Assigns(A ++ B ++ C, <<"value_type", 0>>, t)
    BY <1>4, <2>1, OverFacts
  <2> QED
    BY <1>5, <2>2, <2>3, <2>4
<1>7. <<"index", 0>> \in Keys /\ <<"length", 0>> \in Keys /\ <<"value_type", 0>> \in Keys
  BY DEF Keys, ScalarNames
<1>8. Request(g, index, len) = A ++ B ++ C
  BY DEF Request, A, B, C, t
<1> QED
  BY <1>6, <1>7, <1>8, StructFacts DEF t

\* A slave reads the request as it was meant, but for a length that is cut.
LEMMA RequestArrives ==
  ASSUME NEW g \in {"DI", "AI"}, NEW index \in Byte, NEW len \in Byte, NEW garbage \in Garbage,
         NEW pad, NEW q,
         q \in Decode("Request", Encode("Request", Struct(Request(g, index, len), garbage), pad))
  PROVE  /\ q[<<"index", 0>>] = index /\ q[<<"length", 0>>] = Cut(len, 6)
         /\ q[<<"value_type", 0>>] = IF g = "DI" THEN 1 ELSE 2
<1> DEFINE struct == Struct(Request(g, index, len), garbage)
           t      == IF g = "DI" THEN 1 ELSE 2
<1>1. /\ struct \in [Keys -> Nat]
      /\ struct[<<"index", 0>>] = index /\ struct[<<"length", 0>>] = len
      /\ struct[<<"value_type", 0>>] = t
  BY RequestStruct
<1> HIDE DEF struct
<1>2. /\ Field("index", 0, 1, 8) \in Layout("Request", TagOf(struct))
      /\ Field("length", 0, 11, 6) \in Layout("Request", TagOf(struct))
      /\ Field("value_type", 0, 9, 2) \in Layout("Request", TagOf(struct))
  BY DEF Layout, GetValuesRequest, ValueType, Scalar
<1>3. "Request" \in Kinds /\ q \in Decode("Request", Encode("Request", struct, pad))
  BY DEF Kinds, struct
<1>4. q[<<"index", 0>>] = Cut(index, 8)
  BY <1>1, <1>2, <1>3, FieldDecoded
<1>5. q[<<"length", 0>>] = Cut(len, 6)
  BY <1>1, <1>2, <1>3, FieldDecoded
<1>6. q[<<"value_type", 0>>] = Cut(t, 2)
  BY <1>1, <1>2, <1>3, FieldDecoded
<1>7. Cut(index, 8) = index
  BY DEF Cut, Byte
<1>8. Cut(t, 2) = t
  BY DEF Cut
<1> QED
  BY <1>4, <1>5, <1>6, <1>7, <1>8

\* What a slave answers to a request: a refusal, or what it read.
Refusal(index) == Assign("result", 1) ++ Assign("index", index)
Readings(g, index, len, r) ==
  Assign("result", r.result) ++ Assign("port_type", 0) ++ Assign("values_len", len)
    ++ Block(g, index, r.vals)

LEMMA RefusalStruct ==
  ASSUME NEW index \in Byte, NEW garbage \in Garbage
  PROVE  LET struct == Struct(Refusal(index), garbage)
         IN  struct \in [Keys -> Nat] /\ struct[<<"result", 0>>] = 1
<1> DEFINE A == Assign("result", 1)
           B == Assign("index", index)
<1>1. index \in Nat
  BY DEF Byte
<1>2. Assigns(A, <<"result", 0>>, 1) /\ Numbers(A) /\ Numbers(B)
  BY <1>1, AssignFacts
<1> HIDE DEF A, B
<1>3. Assigns(A ++ B, <<"result", 0>>, 1) /\ Numbers(A ++ B)
  BY <1>2, OverFacts
<1>4. <<"result", 0>> \in Keys
  BY DEF Keys, ScalarNames
<1> QED
  BY <1>3, <1>4, StructFacts DEF Refusal, A, B

\* What a slave reads fits a message, and is what its channels read.
LEMMA ReadsFit ==
  ASSUME NEW g \in {"DI", "AI"}, NEW index \in Byte, NEW len \in Byte, len <= MaxLen(g),
         NEW r \in Reads(g, index, len)
  PROVE  /\ r.vals \in Carried(g) /\ r.result \in {0, 1, 2}
         /\ r.result = 0 =>
              /\ Len(r.vals) = len
              /\ \A i \in 1..len : /\ Exists(g, Channel(index, i))
                                   /\ r.vals[i] = Reading[g][Channel(index, i)]
<1>1. PICK p \in [n : 0..len, result : {0, 1, 2}] :
        /\ r = [vals |-> ReadTo(g, index, p.n), result |-> p.result]
        /\ \A i \in 1..p.n : Exists(g, Channel(index, i))
        /\ p.result = 0 <=> p.n = len
  BY DEF Reads
<1>2. PICK n \in Nat : n = p.n /\ n <= len
  <2>1. p.n \in 0..len /\ len \in Nat
    BY DEF Byte
  <2> QED
    BY <2>1
<1>3. /\ r.vals = [i \in 1..n |-> Reading[g][Channel(index, i)]] /\ r.result = p.result
      /\ p.result \in {0, 1, 2}
  BY <1>1, <1>2 DEF ReadTo
<1>4. \A i \in 1..n : Exists(g, Channel(index, i))
  BY <1>1, <1>2
<1>5. r.vals \in Carried(g)
  <2>1. CASE g = "DI"
    <3>1. \A i \in 1..n : Reading[g][Channel(index, i)] \in {0, 1}
      BY <1>4, <2>1, InputsAssumption DEF Exists
    <3>2. r.vals \in Seq({0, 1}) /\ Len(r.vals) = n
      BY <1>3, <3>1
    <3>3. n <= 32
      BY <1>2, <2>1 DEF MaxLen, Byte
    <3> QED
      BY <2>1, <3>2, <3>3 DEF Carried
  <2>2. CASE g = "AI"
    <3>1. \A i \in 1..n : Reading[g][Channel(index, i)] \in Word
      BY <1>4, <2>2, InputsAssumption DEF Exists
    <3>2. r.vals \in Seq(Word) /\ Len(r.vals) = n
      BY <1>3, <3>1
    <3>3. n <= 2
      BY <1>2, <2>2 DEF MaxLen, Byte
    <3> QED
      BY <2>2, <3>2, <3>3 DEF Carried
  <2> QED
    BY <2>1, <2>2
<1>6. ASSUME r.result = 0
      PROVE  /\ Len(r.vals) = len
             /\ \A i \in 1..len : /\ Exists(g, Channel(index, i))
                                  /\ r.vals[i] = Reading[g][Channel(index, i)]
  <2>1. n = len
    BY <1>1, <1>2, <1>3, <1>6
  <2>2. Len(r.vals) = n
    BY <1>3
  <2> QED
    BY <1>3, <1>4, <2>1, <2>2
<1> QED
  BY <1>3, <1>5, <1>6

LEMMA ReadingsStruct ==
  ASSUME NEW g \in {"DI", "AI"}, NEW index \in Byte, NEW len \in Byte, len <= MaxLen(g),
         NEW r \in Reads(g, index, len), NEW garbage \in Garbage
  PROVE  LET struct == Struct(Readings(g, index, len, r), garbage)
         IN  /\ struct \in [Keys -> Nat] /\ struct[<<"result", 0>>] = r.result
             /\ struct[<<"port_type", 0>>] = 0
             /\ r.result = 0 => Holds(struct, g, index, r.vals)
<1> DEFINE A == Assign("result", r.result)
           B == Assign("port_type", 0)
           C == Assign("values_len", len)
           D == Block(g, index, r.vals)
<1>1. r.vals \in Carried(g) /\ r.result \in Nat
  BY ReadsFit
<1>2. g \in Groups /\ len \in Nat
  BY DEF Groups, Byte
<1>3. DOMAIN A = {<<"result", 0>>} /\ Assigns(A, <<"result", 0>>, r.result) /\ Numbers(A)
  BY <1>1, AssignFacts
<1>4. DOMAIN B = {<<"port_type", 0>>} /\ Assigns(B, <<"port_type", 0>>, 0) /\ Numbers(B)
  BY AssignFacts
<1>5. DOMAIN C = {<<"values_len", 0>>} /\ Assigns(C, <<"values_len", 0>>, len) /\ Numbers(C)
  BY <1>2, AssignFacts
<1>6. /\ Numbers(D)
      /\ Assigns(D, <<"index", 0>>, index)
      /\ Assigns(D, <<"union_tag", 0>>, Tag(g))
      /\ \A i \in DOMAIN r.vals : Assigns(D, <<"values", i>>, r.vals[i])
  BY <1>2, ReadsFit, BlockFacts
<1> HIDE DEF A, B, C, D
<1>7. /\ DOMAIN (A ++ B) = {<<"result", 0>>, <<"port_type", 0>>} /\ Numbers(A ++ B)
      /\ Assigns(A ++ B, <<"result", 0>>, r.result) /\ Assigns(A ++ B, <<"port_type", 0>>, 0)
  <2>1. <<"port_type", 0>> \notin DOMAIN A
    BY <1>3
  <2>2. DOMAIN (A ++ B) = {<<"result", 0>>} \cup {<<"port_type", 0>>}
    BY <1>3, <1>4, OverFacts
  <2> QED
    BY <1>3, <1>4, <2>1, <2>2, OverFacts
<1>8. /\ DOMAIN (A ++ B ++ C) = {<<"result", 0>>, <<"port_type", 0>>, <<"values_len", 0>>}
      /\ Numbers(A ++ B ++ C)
      /\ Assigns(A ++ B ++ C, <<"result", 0>>, r.result)
      /\ Assigns(A ++ B ++ C, <<"port_type", 0>>, 0)
      /\ Assigns(A ++ B ++ C, <<"values_len", 0>>, len)
  <2>1. <<"values_len", 0>> \notin DOMAIN (A ++ B)
    BY <1>7
  <2>2. DOMAIN (A ++ B ++ C) = {<<"result", 0>>, <<"port_type", 0>>} \cup {<<"values_len", 0>>}
    <3>1. DOMAIN (A ++ B ++ C) = DOMAIN (A ++ B) \cup DOMAIN C
      BY OverFacts
    <3> QED
      BY <1>5, <1>7, <3>1
  <2> QED
    BY <1>5, <1>7, <2>1, <2>2, OverFacts
<1>9. Numbers(A ++ B ++ C ++ D)
  BY <1>6, <1>8, OverFacts
<1>10. /\ Assigns(A ++ B ++ C ++ D, <<"result", 0>>, r.result)
       /\ Assigns(A ++ B ++ C ++ D, <<"port_type", 0>>, 0)
       /\ Assigns(A ++ B ++ C ++ D, <<"values_len", 0>>, len)
  BY <1>8, OverFacts
<1>11. \A n, i : n \notin {"result", "port_type", "values_len"}
                   => <<n, i>> \notin DOMAIN (A ++ B ++ C)
  BY <1>8
<1>12. /\ Assigns(A ++ B ++ C ++ D, <<"index", 0>>, index)
       /\ Assigns(A ++ B ++ C ++ D, <<"union_tag", 0>>, Tag(g))
       /\ \A i \in DOMAIN r.vals : Assigns(A ++ B ++ C ++ D, <<"values", i>>, r.vals[i])
  BY <1>6, <1>11, OverFacts
<1>13. /\ <<"result", 0>> \in Keys /\ <<"port_type", 0>> \in Keys /\ <<"index", 0>> \in Keys
       /\ <<"union_tag", 0>> \in Keys /\ <<"values_len", 0>> \in Keys
       /\ \A i \in DOMAIN r.vals : <<"values", i>> \in Keys
  <2>1. ASSUME NEW i \in DOMAIN r.vals
        PROVE  i \in 1..32
    <3>1. r.vals \in Carried(g)
      BY ReadsFit
    <3>2. PICK n \in Nat : n = Len(r.vals)
      BY <3>1, CarriedFacts
    <3>3. i \in 1..n /\ n <= 32
      <4>1. g \in {"DI", "DO"} \/ g \notin {"DI", "DO"}
        OBVIOUS
      <4> QED
        BY <3>1, <3>2, <4>1, CarriedFacts
    <3> QED
      BY <3>3
  <2> QED
    BY <2>1 DEF Keys, ScalarNames
<1>14. Readings(g, index, len, r) = A ++ B ++ C ++ D
  BY DEF Readings, A, B, C, D
<1>15. r.result = 0 => Len(r.vals) = len
  BY ReadsFit
<1> DEFINE struct == Struct(A ++ B ++ C ++ D, garbage)
<1>16. /\ struct \in [Keys -> Nat]
       /\ \A k \in Keys : \A v : Assigns(A ++ B ++ C ++ D, k, v) => struct[k] = v
  BY <1>9, StructFacts
<1> HIDE DEF struct
<1>17. /\ struct[<<"result", 0>>] = r.result /\ struct[<<"port_type", 0>>] = 0
       /\ struct[<<"values_len", 0>>] = len /\ struct[<<"index", 0>>] = index
       /\ struct[<<"union_tag", 0>>] = Tag(g)
       /\ \A i \in DOMAIN r.vals : struct[<<"values", i>>] = r.vals[i]
  BY <1>10, <1>12, <1>13, <1>16
<1>18. r.result = 0 => Holds(struct, g, index, r.vals)
  BY <1>15, <1>17 DEF Holds, TagOf
<1> QED
  BY <1>14, <1>16, <1>17, <1>18 DEF struct

\* A request is refused or answered with readings of no more channels than a
\* message carries: a length that was cut is one that is refused.
LEMMA AnswersOfRequest ==
  ASSUME NEW g \in {"DI", "AI"}, NEW index \in Byte, NEW len \in Byte, NEW q,
         q[<<"index", 0>>] = index, q[<<"length", 0>>] = Cut(len, 6),
         q[<<"value_type", 0>>] = IF g = "DI" THEN 1 ELSE 2,
         NEW a \in Answers(q)
  PROVE  \/ a = Refusal(index)
         \/ /\ len <= MaxLen(g)
            /\ \E r \in Reads(g, index, len) : a = Readings(g, index, len, r)
<1>1. (IF q[<<"value_type", 0>>] = 1 THEN "DI" ELSE "AI") = g
  OBVIOUS
<1>2. len \in Nat /\ Cut(len, 6) \in Nat /\ (len < 64 => Cut(len, 6) = len)
        /\ (len >= 64 => Cut(len, 6) = 63)
  BY DEF Cut, Byte
<1>3. MaxLen(g) \in {2, 32}
  BY DEF MaxLen
<1>4. CASE Cut(len, 6) > MaxLen(g)
  BY <1>1, <1>4 DEF Answers, Refusal
<1>5. CASE ~(Cut(len, 6) > MaxLen(g))
  <2>1. Cut(len, 6) = len /\ len <= MaxLen(g)
    BY <1>2, <1>3, <1>5
  <2> QED
    BY <1>1, <1>5, <2>1 DEF Answers, Readings
<1> QED
  BY <1>4, <1>5

\* What the PLC makes of an answer: nothing, unless every channel was read.
LEMMA RefusalIsDropped ==
  ASSUME NEW index \in Byte, NEW garbage \in Garbage, NEW pad,
         NEW s \in Decode("Response", Encode("Response", Struct(Refusal(index), garbage), pad))
  PROVE  ResponseCalls(s) = {}
<1> DEFINE struct == Struct(Refusal(index), garbage)
<1>1. struct \in [Keys -> Nat] /\ struct[<<"result", 0>>] = 1
  BY RefusalStruct
<1>2. Field("result", 0, 0, 2) \in Layout("Response", TagOf(struct))
  BY DEF Layout, GetValuesResponse, Scalar
<1>3. s \in Decode("Response", Encode("Response", struct, pad))
  OBVIOUS
<1>4. "Response" \in Kinds
  BY DEF Kinds
<1> HIDE DEF struct
<1>5. s[<<"result", 0>>] = Cut(1, 2)
  BY <1>1, <1>2, <1>3, <1>4, FieldDecoded
<1> QED
  BY <1>5 DEF Cut, ResponseCalls

LEMMA ReadingsAreTaken ==
  ASSUME NEW g \in {"DI", "AI"}, NEW index \in Byte, NEW len \in Byte, len <= MaxLen(g),
         NEW r \in Reads(g, index, len), NEW garbage \in Garbage, NEW pad,
         NEW s \in Decode("Response",
                     Encode("Response", Struct(Readings(g, index, len, r), garbage), pad))
  PROVE  \/ ResponseCalls(s) = {}
         \/ /\ r.result = 0
            /\ ResponseCalls(s) = {Asked("got", g, wire.from, index, r.vals)}
<1> DEFINE struct  == Struct(Readings(g, index, len, r), garbage)
           payload == Encode("Response", struct, pad)
<1>1. /\ struct \in [Keys -> Nat] /\ struct[<<"result", 0>>] = r.result
      /\ r.result = 0 => Holds(struct, g, index, r.vals)
  BY ReadingsStruct
<1>2. Field("result", 0, 0, 2) \in Layout("Response", TagOf(struct))
  BY DEF Layout, GetValuesResponse, Scalar
<1>3. s \in Decode("Response", payload)
  OBVIOUS
<1>4. "Response" \in Kinds
  BY DEF Kinds
<1> HIDE DEF struct
<1>5. s[<<"result", 0>>] = Cut(r.result, 2)
  BY <1>1, <1>2, <1>3, <1>4, FieldDecoded
<1>6. Cut(r.result, 2) = r.result
  <2>1. r.result \in {0, 1, 2}
    BY ReadsFit
  <2> QED
    BY <2>1 DEF Cut
<1>7. CASE r.result # 0
  BY <1>5, <1>6, <1>7 DEF ResponseCalls
<1>8. CASE r.result = 0
  <2>1. g \in Groups /\ r.vals \in Carried(g)
    BY ReadsFit DEF Groups
  <2>2. Holds(struct, g, index, r.vals)
    BY <1>1, <1>8
  <2>3. Holds(s, g, index, r.vals)
    BY <1>1, <1>3, <2>1, <2>2, BlockArrives
  <2>4. GroupOf(s, "DI", "AI") = g
    BY <2>3 DEF Holds, TagOf, Tag, GroupOf
  <2>5. Call("got", g, wire.from, s) = Asked("got", g, wire.from, index, r.vals)
    BY <2>1, <2>3, CallOfBlock DEF Asked
  <2> QED
    BY <1>8, <2>4, <2>5 DEF ResponseCalls
<1> QED
  BY <1>7, <1>8

\* Every message fits the buffer it is encoded into, and seven bytes.
LEMMA PayloadFits ==
  ASSUME NEW kind \in Kinds, NEW struct \in [Keys -> Nat], NEW pad
  PROVE  LET bytes == Len(Encode(kind, struct, pad)) \div 8
         IN  bytes <= BufferSize(kind) /\ bytes <= 7
<1> DEFINE tag == TagOf(struct)
<1>1. Len(Encode(kind, struct, pad)) = 8 * Bytes(BitCount(kind, tag))
  BY PayloadBits
<1> HIDE DEF tag
<1>2. PICK n \in 1..55 : n = BitCount(kind, tag)
  BY LayoutNeat
<1>3. Len(Encode(kind, struct, pad)) \div 8 = Bytes(n)
  <2>1. PICK m \in Nat : m = Bytes(n)
    BY DEF Bytes
  <2>2. (8 * m) \div 8 = m
    OBVIOUS
  <2> QED
    BY <1>1, <1>2, <2>1, <2>2
<1>4. /\ kind = "SetValues"  => n <= 55 /\ BufferSize(kind) = Bytes(55)
      /\ kind = "TellValues" => n <= 48 /\ BufferSize(kind) = Bytes(48)
      /\ kind = "Request"    => n <= 17 /\ BufferSize(kind) = Bytes(17)
      /\ kind = "Response"   => n <= 50 /\ BufferSize(kind) = Bytes(55)
  BY <1>2 DEF BitCount, BufferSize
<1>5. kind = "SetValues" \/ kind = "TellValues" \/ kind = "Request" \/ kind = "Response"
  BY DEF Kinds
<1>6. Bytes(n) <= BufferSize(kind) /\ Bytes(n) <= 7
  BY <1>2, <1>4, <1>5 DEF Bytes
<1> QED
  BY <1>3, <1>6

-----------------------------------------------------------------------------
(* The inductive invariant: the message on the bus is one that whoever was asked *)
(* may have sent, whatever was in the fields and bits nobody assigned, or a slave *)
(* may have answered; and once it is gone, the calls are right.                   *)

SetOnWire ==
  \E to \in Targets, index \in Indexes, g \in {"DO", "AO"}, garbage \in Garbage, pad \in {0, 1} :
    \E vals \in ValuesOf(g) :
      /\ asked = Asked("set", g, to, index, vals)
      /\ wire = Message("SetValues", "plc", "all",
                  Struct(Assign("node_id", to) ++ Block(g, index, vals), garbage), pad)

TellOnWire ==
  \E from \in Slaves, index \in Indexes, g \in {"DI", "AI"}, garbage \in Garbage, pad \in {0, 1} :
    \E vals \in ValuesOf(g) :
      /\ asked = Asked("tell", g, from, index, vals)
      /\ wire = Message("TellValues", from, "all",
                  Struct(Assign("port_type", 0) ++ Block(g, index, vals), garbage), pad)

RequestOnWire ==
  /\ wire.op = "Request"
  /\ \E to \in Targets, index \in Indexes, g \in {"DI", "AI"}, garbage \in Garbage, pad \in {0, 1} :
       \E len \in Lengths :
         /\ asked = AskedToGet(g, to, index, len)
         /\ wire = Message("Request", "plc", to, Struct(Request(g, index, len), garbage), pad)

AnswerOnWire ==
  /\ wire.op = "Response"
  /\ \E node \in Slaves, index \in Indexes, g \in {"DI", "AI"}, garbage \in Garbage, pad \in {0, 1} :
       \E len \in Lengths :
         /\ asked = AskedToGet(g, node, index, len)
         /\ \/ wire = Message("Response", node, "plc", Struct(Refusal(index), garbage), pad)
            \/ /\ len <= MaxLen(g)
               /\ \E r \in Reads(g, index, len) :
                    wire = Message("Response", node, "plc",
                             Struct(Readings(g, index, len, r), garbage), pad)

RightAnswer(c) ==
  /\ c.op = "got" /\ c.grp = asked.grp /\ c.node = asked.node /\ c.index = asked.index
  /\ Len(c.vals) = asked.len
  /\ \A i \in DOMAIN c.vals : /\ Exists(c.grp, Channel(c.index, i))
                              /\ c.vals[i] = Reading[c.grp][Channel(c.index, i)]

Ended ==
  /\ wire = None
  /\ asked.op \in {"set", "tell", "get"}
  /\ asked.op = "set"  => calls = IF asked.node \in Slaves THEN {asked} ELSE {}
  /\ asked.op = "tell" => calls = {asked}
  /\ asked.op = "get"  => \A c \in calls : RightAnswer(c)

ExchangeInv ==
  \/ asked = None /\ wire = None /\ calls = {}
  \/ calls = {} /\ (SetOnWire \/ TellOnWire \/ RequestOnWire \/ AnswerOnWire)
  \/ Ended

-----------------------------------------------------------------------------
(* Its steps *)

LEMMA MessageFields ==
  ASSUME NEW kind, NEW from, NEW to, NEW struct, NEW pad
  PROVE  LET message == Message(kind, from, to, struct, pad)
         IN  /\ message.op = kind /\ message.from = from /\ message.to = to
             /\ message.payload = Encode(kind, struct, pad)
BY DEF Message

\* Who was asked for what, and what is on the bus, go together.
LEMMA WhatIsOnWire ==
  /\ SetOnWire     => wire.op = "SetValues"  /\ asked.op = "set"
  /\ TellOnWire    => wire.op = "TellValues" /\ asked.op = "tell"
  /\ RequestOnWire => wire.op = "Request"    /\ asked.op = "get"
  /\ AnswerOnWire  => wire.op = "Response"   /\ asked.op = "get"
<1>1. SetOnWire => wire.op = "SetValues" /\ asked.op = "set"
  BY MessageFields DEF SetOnWire, Asked
<1>2. TellOnWire => wire.op = "TellValues" /\ asked.op = "tell"
  BY MessageFields DEF TellOnWire, Asked
<1>3. RequestOnWire => wire.op = "Request" /\ asked.op = "get"
  BY DEF RequestOnWire, AskedToGet
<1>4. AnswerOnWire => wire.op = "Response" /\ asked.op = "get"
  BY DEF AnswerOnWire, AskedToGet
<1> QED
  BY <1>1, <1>2, <1>3, <1>4

LEMMA NobodyAsked ==
  ASSUME ExchangeInv, asked = None
  PROVE  calls = {}
<1>1. asked.op = "none"
  BY DEF None
<1>2. ~SetOnWire /\ ~TellOnWire /\ ~RequestOnWire /\ ~AnswerOnWire
  BY <1>1, WhatIsOnWire
<1>3. ~Ended
  BY <1>1 DEF Ended
<1> QED
  BY <1>2, <1>3 DEF ExchangeInv

\* A message on the bus is one that was sent, and none of it is done yet.
LEMMA OnTheBus ==
  ASSUME ExchangeInv
  PROVE  /\ wire.op = "SetValues"  => calls = {} /\ SetOnWire
         /\ wire.op = "TellValues" => calls = {} /\ TellOnWire
         /\ wire.op = "Request"    => calls = {} /\ RequestOnWire
         /\ wire.op = "Response"   => calls = {} /\ AnswerOnWire
<1>1. wire = None => wire.op = "none"
  BY DEF None
<1>2. (asked = None /\ wire = None /\ calls = {}) \/ Ended => wire.op = "none"
  BY <1>1 DEF Ended
<1> QED
  BY <1>2, WhatIsOnWire DEF ExchangeInv

LEMMA SendKeeps ==
  ASSUME ExchangeInv, Send
  PROVE  ExchangeInv'
<1>1. calls = {} /\ calls' = {}
  BY NobodyAsked DEF Send
<1>2. CASE SendSet
  <2>1. SetOnWire'
    BY <1>2 DEF SendSet, SetOnWire, Asked
  <2> QED
    BY <1>1, <2>1 DEF ExchangeInv
<1>3. CASE SendTell
  <2>1. TellOnWire'
    BY <1>3 DEF SendTell, TellOnWire, Asked
  <2> QED
    BY <1>1, <2>1 DEF ExchangeInv
<1>4. CASE SendGet
  <2>1. PICK to \in Targets, index \in Indexes, g \in {"DI", "AI"}, garbage \in Garbage :
          \E len \in Lengths, pad \in {0, 1} :
            /\ asked' = AskedToGet(g, to, index, len)
            /\ wire' = Message("Request", "plc", to, Struct(Request(g, index, len), garbage), pad)
    BY <1>4 DEF SendGet, AskedToGet, Request
  <2>2. PICK len \in Lengths, pad \in {0, 1} :
          /\ asked' = AskedToGet(g, to, index, len)
          /\ wire' = Message("Request", "plc", to, Struct(Request(g, index, len), garbage), pad)
    BY <2>1
  <2>3. wire'.op = "Request"
    BY <2>2, MessageFields
  <2>4. RequestOnWire'
    BY <2>2, <2>3 DEF RequestOnWire
  <2> QED
    BY <1>1, <2>4 DEF ExchangeInv
<1> QED
  BY <1>2, <1>3, <1>4 DEF Send

LEMMA HandleSetKeeps ==
  ASSUME ExchangeInv, HandleSet, UNCHANGED asked
  PROVE  ExchangeInv'
<1>1. SetOnWire
  BY OnTheBus DEF HandleSet
<1>2. PICK to \in Targets, index \in Indexes, g \in {"DO", "AO"}, garbage \in Garbage,
           pad \in {0, 1} :
        \E vals \in ValuesOf(g) :
          /\ asked = Asked("set", g, to, index, vals)
          /\ wire = Message("SetValues", "plc", "all",
                      Struct(Assign("node_id", to) ++ Block(g, index, vals), garbage), pad)
  BY <1>1 DEF SetOnWire
<1>3. PICK vals \in ValuesOf(g) :
        /\ asked = Asked("set", g, to, index, vals)
        /\ wire = Message("SetValues", "plc", "all",
                    Struct(Assign("node_id", to) ++ Block(g, index, vals), garbage), pad)
  BY <1>2
<1>4. to \in Byte /\ index \in Byte /\ vals \in Carried(g)
  <2>1. g \in Groups
    BY DEF Groups
  <2> QED
    BY <2>1, ValuesAreCarried, InputsAssumption
<1>5. wire.payload = Encode("SetValues",
                       Struct(Assign("node_id", to) ++ Block(g, index, vals), garbage), pad)
  BY <1>3, MessageFields
<1>6. calls' = IF to \in Slaves THEN {Asked("set", g, to, index, vals)} ELSE {}
  BY <1>4, <1>5, SetIsDone DEF HandleSet
<1>7. asked.op = "set" /\ asked.node = to
  BY <1>3 DEF Asked
<1>8. wire' = None /\ asked' = asked
  BY DEF HandleSet
<1>9. Ended'
  BY <1>3, <1>6, <1>7, <1>8 DEF Ended
<1> QED
  BY <1>9 DEF ExchangeInv

LEMMA HandleTellKeeps ==
  ASSUME ExchangeInv, HandleTell, UNCHANGED asked
  PROVE  ExchangeInv'
<1>1. TellOnWire
  BY OnTheBus DEF HandleTell
<1>2. PICK from \in Slaves, index \in Indexes, g \in {"DI", "AI"}, garbage \in Garbage,
           pad \in {0, 1} :
        \E vals \in ValuesOf(g) :
          /\ asked = Asked("tell", g, from, index, vals)
          /\ wire = Message("TellValues", from, "all",
                      Struct(Assign("port_type", 0) ++ Block(g, index, vals), garbage), pad)
  BY <1>1 DEF TellOnWire
<1>3. PICK vals \in ValuesOf(g) :
        /\ asked = Asked("tell", g, from, index, vals)
        /\ wire = Message("TellValues", from, "all",
                    Struct(Assign("port_type", 0) ++ Block(g, index, vals), garbage), pad)
  BY <1>2
<1>4. index \in Byte /\ vals \in Carried(g)
  <2>1. g \in Groups
    BY DEF Groups
  <2> QED
    BY <2>1, ValuesAreCarried, InputsAssumption
<1>5. wire.from = from
      /\ wire.payload = Encode("TellValues",
           Struct(Assign("port_type", 0) ++ Block(g, index, vals), garbage), pad)
  BY <1>3, MessageFields
<1>6. calls' = {Asked("tell", g, from, index, vals)}
  <2>1. calls' = HeardFrom(wire.from, wire.payload)
    BY DEF HandleTell, HeardFrom
  <2> QED
    BY <1>4, <1>5, <2>1, TellIsHeard
<1>7. asked.op = "tell"
  BY <1>3 DEF Asked
<1>8. wire' = None /\ asked' = asked
  BY DEF HandleTell
<1>9. Ended'
  BY <1>3, <1>6, <1>7, <1>8 DEF Ended
<1> QED
  BY <1>9 DEF ExchangeInv

LEMMA HandleRequestKeeps ==
  ASSUME ExchangeInv, HandleRequest, UNCHANGED asked
  PROVE  ExchangeInv'
<1>1. RequestOnWire /\ calls = {} /\ calls' = {} /\ asked' = asked
  BY OnTheBus DEF HandleRequest
<1>2. PICK to \in Targets, index \in Indexes, g \in {"DI", "AI"}, garbage \in Garbage,
           pad \in {0, 1} :
        \E len \in Lengths :
          /\ asked = AskedToGet(g, to, index, len)
          /\ wire = Message("Request", "plc", to, Struct(Request(g, index, len), garbage), pad)
  BY <1>1 DEF RequestOnWire
<1>3. PICK len \in Lengths :
        /\ asked = AskedToGet(g, to, index, len)
        /\ wire = Message("Request", "plc", to, Struct(Request(g, index, len), garbage), pad)
  BY <1>2
<1>4. index \in Byte /\ len \in Byte
  BY InputsAssumption
<1>5. /\ wire.from = "plc" /\ wire.to = to
      /\ wire.payload = Encode("Request", Struct(Request(g, index, len), garbage), pad)
  BY <1>3, MessageFields
<1>6. asked.op = "get"
  BY <1>3 DEF AskedToGet
<1>7. CASE wire' = None
  <2>1. Ended'
    BY <1>1, <1>6, <1>7 DEF Ended
  <2> QED
    BY <2>1 DEF ExchangeInv
<1>8. CASE wire' # None
  <2>1. to \in Slaves
    BY <1>5, <1>8 DEF HandleRequest
  <2>2. PICK q \in Decode("Request", wire.payload) :
          \E a \in Answers(q), rest \in Garbage, last \in {0, 1} :
            wire' = Message("Response", to, "plc", Struct(a, rest), last)
    BY <1>5, <1>8, <2>1 DEF HandleRequest
  <2>3. PICK a \in Answers(q), rest \in Garbage, last \in {0, 1} :
          wire' = Message("Response", to, "plc", Struct(a, rest), last)
    BY <2>2
  <2>4. /\ q[<<"index", 0>>] = index /\ q[<<"length", 0>>] = Cut(len, 6)
        /\ q[<<"value_type", 0>>] = IF g = "DI" THEN 1 ELSE 2
    BY <1>4, <1>5, RequestArrives
  <2>5. \/ a = Refusal(index)
        \/ len <= MaxLen(g) /\ \E r \in Reads(g, index, len) : a = Readings(g, index, len, r)
    BY <1>4, <2>4, AnswersOfRequest
  <2>6. wire'.op = "Response"
    BY <2>3, MessageFields
  <2>7. asked' = AskedToGet(g, to, index, len)
    BY <1>1, <1>3
  <2>8. AnswerOnWire'
    BY <2>1, <2>3, <2>5, <2>6, <2>7 DEF AnswerOnWire
  <2> QED
    BY <1>1, <2>8 DEF ExchangeInv
<1> QED
  BY <1>7, <1>8

LEMMA HandleResponseKeeps ==
  ASSUME ExchangeInv, HandleResponse, UNCHANGED asked
  PROVE  ExchangeInv'
<1>1. AnswerOnWire /\ asked' = asked /\ wire' = None
  BY OnTheBus DEF HandleResponse
<1>2. PICK node \in Slaves, index \in Indexes, g \in {"DI", "AI"}, garbage \in Garbage,
           pad \in {0, 1} :
        \E len \in Lengths :
          /\ asked = AskedToGet(g, node, index, len)
          /\ \/ wire = Message("Response", node, "plc", Struct(Refusal(index), garbage), pad)
             \/ /\ len <= MaxLen(g)
                /\ \E r \in Reads(g, index, len) :
                     wire = Message("Response", node, "plc",
                              Struct(Readings(g, index, len, r), garbage), pad)
  BY <1>1 DEF AnswerOnWire
<1>3. PICK len \in Lengths :
        /\ asked = AskedToGet(g, node, index, len)
        /\ \/ wire = Message("Response", node, "plc", Struct(Refusal(index), garbage), pad)
           \/ /\ len <= MaxLen(g)
              /\ \E r \in Reads(g, index, len) :
                   wire = Message("Response", node, "plc",
                            Struct(Readings(g, index, len, r), garbage), pad)
  BY <1>2
<1>4. index \in Byte /\ len \in Byte
  BY InputsAssumption
<1>5. /\ asked.op = "get" /\ asked.grp = g /\ asked.node = node /\ asked.index = index
      /\ asked.len = len
  BY <1>3 DEF AskedToGet
<1>6. SUFFICES ASSUME NEW c \in calls'
               PROVE  RightAnswer(c)'
  <2>1. \A c \in calls' : RightAnswer(c)'
    BY <1>6
  <2>2. Ended'
    BY <1>1, <1>5, <2>1 DEF Ended
  <2> QED
    BY <2>2 DEF ExchangeInv
<1>7. PICK s \in Decode("Response", wire.payload) : c \in ResponseCalls(s)
  BY DEF HandleResponse
<1>8. CASE wire = Message("Response", node, "plc", Struct(Refusal(index), garbage), pad)
  <2>1. wire.payload = Encode("Response", Struct(Refusal(index), garbage), pad)
    BY <1>8, MessageFields
  <2> QED
    BY <1>4, <1>7, <2>1, RefusalIsDropped
<1>9. CASE /\ len <= MaxLen(g)
           /\ \E r \in Reads(g, index, len) :
                wire = Message("Response", node, "plc",
                         Struct(Readings(g, index, len, r), garbage), pad)
  <2>1. PICK r \in Reads(g, index, len) :
          wire = Message("Response", node, "plc",
                   Struct(Readings(g, index, len, r), garbage), pad)
    BY <1>9
  <2>2. /\ wire.from = node
        /\ wire.payload = Encode("Response", Struct(Readings(g, index, len, r), garbage), pad)
    BY <2>1, MessageFields
  <2>3. r.result = 0 /\ c = Asked("got", g, node, index, r.vals)
    BY <1>4, <1>7, <1>9, <2>2, ReadingsAreTaken
  <2>4. /\ r.vals \in Carried(g) /\ Len(r.vals) = len
        /\ \A i \in 1..len : /\ Exists(g, Channel(index, i))
                             /\ r.vals[i] = Reading[g][Channel(index, i)]
    BY <1>4, <1>9, <2>3, ReadsFit
  <2>5. DOMAIN r.vals = 1..len
    BY <2>4, CarriedFacts
  <2>6. /\ c.op = "got" /\ c.grp = g /\ c.node = node /\ c.index = index /\ c.vals = r.vals
    BY <2>3 DEF Asked
  <2> QED
    BY <1>1, <1>5, <2>4, <2>5, <2>6 DEF RightAnswer
<1> QED
  BY <1>3, <1>8, <1>9

-----------------------------------------------------------------------------
(* Theorems *)

\* Whatever is sent, over the bits and fields of messages nobody assigned: what is
\* on the bus comes from what was asked for, and what it makes of itself is right.
THEOREM ExchangeInvariant == Spec => []ExchangeInv
<1>1. Init => ExchangeInv
  BY DEF Init, ExchangeInv
<1>2. ExchangeInv /\ [Next]_vars => ExchangeInv'
  <2> SUFFICES ASSUME ExchangeInv, [Next]_vars
               PROVE  ExchangeInv'
    OBVIOUS
  <2>1. CASE Send
    BY <2>1, SendKeeps
  <2>2. CASE Handle
    BY <2>2, HandleSetKeeps, HandleTellKeeps, HandleRequestKeeps, HandleResponseKeeps DEF Handle
  <2>3. CASE UNCHANGED vars
    BY <2>3 DEF vars, ExchangeInv, SetOnWire, TellOnWire, RequestOnWire, AnswerOnWire, Ended,
                RightAnswer
  <2> QED
    BY <2>1, <2>2, <2>3 DEF Next
<1> QED
  BY <1>1, <1>2, PTL DEF Spec

\* No message of lib/uavcan_automation needs more than the buffer its sender has
\* for it, or more than one CAN frame (DigitalValues.h, ..._MAX_SIZE).
THEOREM EveryMessageFits == Spec => []FitsOneFrame
<1>1. ASSUME ExchangeInv
      PROVE  FitsOneFrame
  <2> SUFFICES ASSUME wire # None
               PROVE  LET bytes == Len(wire.payload) \div 8
                      IN  bytes <= BufferSize(wire.op) /\ bytes <= 7
    BY DEF FitsOneFrame
  <2>1. SetOnWire \/ TellOnWire \/ RequestOnWire \/ AnswerOnWire
    BY <1>1 DEF ExchangeInv, Ended
  <2>2. SUFFICES \E kind \in Kinds, struct \in [Keys -> Nat] :
                   \E from, to, pad : wire = Message(kind, from, to, struct, pad)
    <3>1. ASSUME NEW kind \in Kinds, NEW struct \in [Keys -> Nat], NEW from, NEW to, NEW pad,
                 wire = Message(kind, from, to, struct, pad)
          PROVE  LET bytes == Len(wire.payload) \div 8
                 IN  bytes <= BufferSize(wire.op) /\ bytes <= 7
      <4>1. wire.op = kind /\ wire.payload = Encode(kind, struct, pad)
        BY <3>1, MessageFields
      <4>2. LET bytes == Len(Encode(kind, struct, pad)) \div 8
            IN  bytes <= BufferSize(kind) /\ bytes <= 7
        BY PayloadFits
      <4> QED
        BY <4>1, <4>2
    <3> QED
      BY <3>1
  <2>3. "SetValues" \in Kinds /\ "TellValues" \in Kinds /\ "Request" \in Kinds
          /\ "Response" \in Kinds
    BY DEF Kinds
  <2>4. \A g \in {"DI", "DO", "AI", "AO"} : \A vals \in ValuesOf(g) : vals \in Carried(g)
    BY ValuesAreCarried DEF Groups
  <2>5. Targets \subseteq Byte /\ Indexes \subseteq Byte /\ Lengths \subseteq Byte
    BY InputsAssumption
  <2>6. Targets \subseteq Nat
    BY <2>5 DEF Byte
  <2>7. CASE SetOnWire
    <3>1. PICK to \in Targets, index \in Indexes, g \in {"DO", "AO"}, garbage \in Garbage,
               pad \in {0, 1} :
            \E vals \in ValuesOf(g) :
              wire = Message("SetValues", "plc", "all",
                       Struct(Assign("node_id", to) ++ Block(g, index, vals), garbage), pad)
      BY <2>7 DEF SetOnWire
    <3>2. PICK vals \in ValuesOf(g) :
            wire = Message("SetValues", "plc", "all",
                     Struct(Assign("node_id", to) ++ Block(g, index, vals), garbage), pad)
      BY <3>1
    <3>3. Struct(Assign("node_id", to) ++ Block(g, index, vals), garbage) \in [Keys -> Nat]
      BY <2>4, <2>5, <2>6, BlockStruct DEF Groups
    <3> QED
      BY <2>3, <3>2, <3>3
  <2>8. CASE TellOnWire
    <3>1. PICK from \in Slaves, index \in Indexes, g \in {"DI", "AI"}, garbage \in Garbage,
               pad \in {0, 1} :
            \E vals \in ValuesOf(g) :
              wire = Message("TellValues", from, "all",
                       Struct(Assign("port_type", 0) ++ Block(g, index, vals), garbage), pad)
      BY <2>8 DEF TellOnWire
    <3>2. PICK vals \in ValuesOf(g) :
            wire = Message("TellValues", from, "all",
                     Struct(Assign("port_type", 0) ++ Block(g, index, vals), garbage), pad)
      BY <3>1
    <3>3. Struct(Assign("port_type", 0) ++ Block(g, index, vals), garbage) \in [Keys -> Nat]
      BY <2>4, <2>5, BlockStruct DEF Groups
    <3> QED
      BY <2>3, <3>2, <3>3
  <2>9. CASE RequestOnWire
    <3>1. PICK to \in Targets, index \in Indexes, g \in {"DI", "AI"}, garbage \in Garbage,
               pad \in {0, 1} :
            \E len \in Lengths :
              wire = Message("Request", "plc", to, Struct(Request(g, index, len), garbage), pad)
      BY <2>9 DEF RequestOnWire
    <3>2. PICK len \in Lengths :
            wire = Message("Request", "plc", to, Struct(Request(g, index, len), garbage), pad)
      BY <3>1
    <3>3. Struct(Request(g, index, len), garbage) \in [Keys -> Nat]
      BY <2>5, RequestStruct
    <3> QED
      BY <2>3, <3>2, <3>3
  <2>10. CASE AnswerOnWire
    <3>1. PICK node \in Slaves, index \in Indexes, g \in {"DI", "AI"}, garbage \in Garbage,
               pad \in {0, 1} :
            \E len \in Lengths :
              \/ wire = Message("Response", node, "plc", Struct(Refusal(index), garbage), pad)
              \/ /\ len <= MaxLen(g)
                 /\ \E r \in Reads(g, index, len) :
                      wire = Message("Response", node, "plc",
                               Struct(Readings(g, index, len, r), garbage), pad)
      BY <2>10 DEF AnswerOnWire
    <3>2. Struct(Refusal(index), garbage) \in [Keys -> Nat]
      BY <2>5, RefusalStruct
    <3>3. \A len \in Lengths : \A r \in Reads(g, index, len) :
            len <= MaxLen(g) => Struct(Readings(g, index, len, r), garbage) \in [Keys -> Nat]
      BY <2>5, ReadingsStruct
    <3> QED
      BY <2>3, <3>1, <3>2, <3>3
  <2> QED
    BY <2>1, <2>7, <2>8, <2>9, <2>10
<1> QED
  BY <1>1, ExchangeInvariant, PTL

\* A SetValues or TellValues message makes exactly the call its sender meant, at
\* the node it names or at the PLC (handle_SetValues, handle_TellValues).
THEOREM SetsAndTellsAlwaysArrive == Spec => []SetsAndTellsArrive
<1>1. ExchangeInv => SetsAndTellsArrive
  <2> SUFFICES ASSUME ExchangeInv, asked # None, wire = None, asked.op \in {"set", "tell"}
               PROVE  calls = IF asked.op = "tell" \/ asked.node \in Slaves THEN {asked} ELSE {}
    BY DEF SetsAndTellsArrive, Done
  <2>1. wire.op = "none"
    BY DEF None
  <2>2. Ended
    BY <2>1, WhatIsOnWire DEF ExchangeInv
  <2> QED
    BY <2>2 DEF Ended
<1> QED
  BY <1>1, ExchangeInvariant, PTL

\* The values the application is given for a GetValues request are what the
\* channels it asked for read, all of them: neither a length that is cut to its
\* bits or too big, nor a channel that is not there, nor a port type that was
\* never assigned yields others (handle_GetValues_req, handle_GetValues_resp).
THEOREM AnswersAreAlwaysRight == Spec => []AnswersAreRight
<1>1. ExchangeInv => AnswersAreRight
  <2> SUFFICES ASSUME ExchangeInv, NEW c \in calls, c.op = "got"
               PROVE  RightAnswer(c)
    BY DEF AnswersAreRight, RightAnswer
  <2>1. Ended
    BY DEF ExchangeInv
  <2>2. asked.op = "get"
    BY <2>1 DEF Ended
  <2> QED
    BY <2>1, <2>2 DEF Ended
<1> QED
  BY <1>1, ExchangeInvariant, PTL

-----------------------------------------------------------------------------
(* Fields of the standard messages *)

\* An array in the message itself that takes what is left of it.
AtRoot(f) == f.t = "tail" /\ f.part = ""

Shaped(f) ==
  /\ f.t = "uint" => f.width \in {1, 2, 3, 8, 13, 16, 32, 40, 64}
  /\ f.t \in {"bytes", "tail"} => f.width \in {5, 7, 8} /\ f.n < 2^f.width
  /\ AtRoot(f) => f.member = 0
  /\ f.name = "tag" => f.t = "uint" /\ f.width \in {2, 3} /\ f.member = 0

Parts == {"", "status", "software_version", "hardware_version", "level", "value",
          "default_value", "max_value", "min_value"}
Names == {"uptime_sec", "health", "mode", "sub_mode", "vendor_specific_status_code", "major", "minor",
          "optional_field_flags", "vcs_commit", "image_crc", "unique_id",
          "certificate_of_authenticity", "name", "magic_number", "ok", "value", "source", "text",
          "tag", "integer_value", "real_value", "boolean_value", "string_value", "index"}

NodeFields ==
  {f \in [t : {"uint", "items", "bytes", "tail"}, part : Parts, name : Names, width : 0..64,
          n : 0..255, skip : 0..6, member : 0..4] : Shaped(f)}

\* What a field is decoded to, and its bits.
AsHeard(f, s) == IF f.t = "uint" THEN Saturate(s[Key(f)], f.width) ELSE s[Key(f)]

LengthSize(f) == IF f.t = "tail" /\ f.part = "" THEN 0 ELSE f.width
FieldSize(f, s) ==
  IF ~Present(f, s) THEN 0
  ELSE f.skip + CASE f.t = "uint"  -> f.width
                  [] f.t = "items" -> 8 * f.n
                  [] OTHER         -> LengthSize(f) + 8 * Len(s[Key(f)])

LEMMA BitIsBit ==
  ASSUME NEW v \in Number, NEW b \in 1..64
  PROVE  WordBit(v, b) \in {0, 1}
<1>1. b - 1 \in 0..63 /\ (b - 1) + 1 = b
  OBVIOUS
<1> QED
  BY <1>1, BitMore

\* Bytes and lengths are scalars.
LEMMA Small == ASSUME NEW n \in 0..1000 PROVE n \in Number
BY DEF WordBits, Number

LEMMA ScalarBitsFacts ==
  ASSUME NEW v \in Number, NEW w \in 0..64
  PROVE  /\ ScalarBits(v, w) \in Seq({0, 1}) /\ Len(ScalarBits(v, w)) = w
         /\ \A b \in 1..w : ScalarBits(v, w)[b] = WordBit(v, b)
<1>1. ScalarBits(v, w) = [b \in 1..w |-> WordBit(v, b)]
  BY DEF ScalarBits, WordBit
<1>2. \A b \in 1..w : WordBit(v, b) \in {0, 1}
  <2>1. \A b \in 1..w : b \in 1..64
    OBVIOUS
  <2> QED
    BY <2>1, BitIsBit
<1> QED
  BY <1>1, <1>2

LEMMA ByteFacts ==
  ASSUME NEW s \in Seq(Byte), NEW i \in 1..Len(s)
  PROVE  /\ s[i] \in Number /\ s[i] < 2^8
         /\ \A b \in 1..8 : ToBit(s[i], b) = WordBit(s[i], b) /\ WordBit(s[i], b) \in {0, 1}
<1>1. PICK v \in Byte : v = s[i]
  OBVIOUS
<1>2. \A x \in Byte : x \in 0..1000 /\ x < 256
  BY DEF Byte
<1>3. v \in Number /\ v < 256
  <2>1. v \in 0..1000 /\ v < 256
    BY <1>2
  <2> QED
    BY <2>1, Small
<1>4. \A b \in 1..8 : ToBit(v, b) = WordBit(v, b)
  BY DEF WordBit, WordBits
<1>5. \A b \in 1..8 : WordBit(v, b) \in {0, 1}
  BY <1>3, BitIsBit
<1>6. 2^8 = 256
  OBVIOUS
<1> QED
  BY <1>1, <1>3, <1>4, <1>5, <1>6

LEMMA ByteBitsFacts ==
  ASSUME NEW s \in Seq(Byte)
  PROVE  /\ ByteBits(s) \in Seq({0, 1}) /\ Len(ByteBits(s)) = 8 * Len(s)
         /\ \A i \in 1..Len(s), b \in 1..8 : ByteBits(s)[8 * (i - 1) + b] = WordBit(s[i], b)
<1> DEFINE N == 8 * Len(s)
           bit(b) == ToBit(s[(b + 7) \div 8], 1 + ((b - 1) % 8))
<1>1. Len(s) \in Nat /\ N \in Nat /\ \A i \in 1..Len(s) : s[i] \in Byte
  OBVIOUS
<1>2. ByteBits(s) = [b \in 1..N |-> bit(b)]
  BY DEF ByteBits
<1>3. \A b \in 1..N : (b + 7) \div 8 \in 1..Len(s) /\ 1 + ((b - 1) % 8) \in 1..8
  BY <1>1
<1>4. \A i \in 1..Len(s), b \in 1..8 : ToBit(s[i], b) = WordBit(s[i], b) /\ ToBit(s[i], b) \in {0, 1}
  BY ByteFacts
<1>5. ASSUME NEW i \in 1..Len(s), NEW b \in 1..8
      PROVE  8 * (i - 1) + b \in 1..N /\ bit(8 * (i - 1) + b) = WordBit(s[i], b)
  <2>1. /\ 8 * (i - 1) + b \in 1..N /\ ((8 * (i - 1) + b) + 7) \div 8 = i
        /\ 1 + (((8 * (i - 1) + b) - 1) % 8) = b
    BY <1>1
  <2> QED
    BY <1>4, <2>1
<1>6. \A b \in 1..N : bit(b) \in {0, 1}
  BY <1>3, <1>4
<1> HIDE DEF bit, N
<1>8. ByteBits(s) \in Seq({0, 1}) /\ Len(ByteBits(s)) = N
  BY <1>1, <1>2, <1>6
<1>7. \A i \in 1..Len(s), b \in 1..8 : ByteBits(s)[8 * (i - 1) + b] = WordBit(s[i], b)
  BY <1>2, <1>5
<1> QED
  BY <1>7, <1>8 DEF N

\* What is read where a scalar, or some bytes, were written.
LEMMA ScalarRead ==
  ASSUME NEW p \in Seq({0, 1}), NEW at \in Nat, NEW w \in 1..64,
         NEW v \in Number, w < WordBits => v < 2^w,
         \A b \in 1..w : at + b <= Len(p) => p[at + b] = WordBit(v, b)
  PROVE  Read(p, at, w) = IF at + w <= Len(p) THEN Good(at + w, v) ELSE Bad
<1>1. Len(p) \in Nat
  OBVIOUS
<1>2. CASE ~(at + w <= Len(p))
  <2>1. at + w > Len(p)
    BY <1>1, <1>2
  <2> QED
    BY <1>2, <2>1 DEF Read
<1>3. CASE at + w <= Len(p)
  <2>1. \A b \in 1..w : p[at + b] = WordBit(v, b)
    BY <1>1, <1>3
  <2>2. [b \in 1..w |-> p[at + b]] = [b \in 1..w |-> WordBit(v, b)]
    BY <2>1
  <2>3. FromBits([b \in 1..w |-> WordBit(v, b)]) = v
    BY BitsMakeNumber
  <2>4. ~(at + w > Len(p))
    BY <1>1, <1>3
  <2> QED
    BY <1>3, <2>2, <2>3, <2>4 DEF Read
<1> QED
  BY <1>2, <1>3

LEMMA BytesRead ==
  ASSUME NEW p \in Seq({0, 1}), NEW at \in Nat, NEW s \in Seq(Byte), NEW k \in 0..Len(s),
         \A b \in 1..(8 * k) : at + b <= Len(p) => p[at + b] = ByteBits(s)[b]
  PROVE  ReadBytes(p, at, k) = IF at + 8 * k <= Len(p) THEN Good(at + 8 * k, [i \in 1..k |-> s[i]])
                               ELSE Bad
<1>1. Len(p) \in Nat /\ Len(s) \in Nat /\ \A i \in 1..Len(s) : s[i] \in Byte
  OBVIOUS
<1>2. CASE ~(at + 8 * k <= Len(p))
  <2>1. at + 8 * k > Len(p)
    BY <1>1, <1>2
  <2> QED
    BY <1>2, <2>1 DEF ReadBytes
<1>3. CASE at + 8 * k <= Len(p)
  <2>1. ASSUME NEW i \in 1..k
        PROVE  Read(p, at + 8 * (i - 1), 8).val = s[i]
    <3>1. i \in 1..Len(s) /\ at + 8 * (i - 1) \in Nat /\ (at + 8 * (i - 1)) + 8 <= Len(p)
      BY <1>1, <1>3
    <3>2. PICK v \in Number : v = s[i] /\ v < 2^8
      BY <3>1, ByteFacts
    <3>3. PICK from \in Nat : from = at + 8 * (i - 1)
      BY <3>1
    <3>4. ASSUME NEW b \in 1..8
          PROVE  p[from + b] = WordBit(v, b)
      <4>1. 8 * (i - 1) + b \in 1..(8 * k) /\ at + (8 * (i - 1) + b) <= Len(p)
              /\ from + b = at + (8 * (i - 1) + b)
        BY <1>1, <1>3, <3>3
      <4>2. p[at + (8 * (i - 1) + b)] = ByteBits(s)[8 * (i - 1) + b]
        BY <4>1
      <4> QED
        BY <3>1, <3>2, <4>1, <4>2, ByteBitsFacts
    <3>5. PICK w \in 1..64 : w = 8
      OBVIOUS
    <3>6. v < 2^w /\ from + w <= Len(p) /\ \A b \in 1..w : p[from + b] = WordBit(v, b)
      BY <3>1, <3>2, <3>3, <3>4, <3>5
    <3>7. Read(p, from, w) = Good(from + w, v)
      BY <3>6, ScalarRead
    <3> QED
      BY <3>2, <3>3, <3>5, <3>7 DEF Good
  <2>2. [i \in 1..k |-> Read(p, at + 8 * (i - 1), 8).val] = [i \in 1..k |-> s[i]]
    BY <2>1
  <2>3. ~(at + 8 * k > Len(p))
    BY <1>1, <1>3
  <2> QED
    BY <1>3, <2>2, <2>3 DEF ReadBytes
<1> QED
  BY <1>2, <1>3

LEMMA SaturateInRange ==
  ASSUME NEW w \in {1, 2, 3, 8, 13, 16, 32, 40, 64}, NEW v \in Number
  PROVE  Saturate(v, w) \in Number
<1>1. CASE w \in {32, 40, 64}
  BY <1>1 DEF Saturate, WordBits, Number
<1>2. CASE w = 1
  BY <1>2 DEF Saturate, WordBits, Number
<1>3. CASE w = 2
  BY <1>3 DEF Saturate, WordBits, Number
<1>4. CASE w = 3
  BY <1>4 DEF Saturate, WordBits, Number
<1>5. CASE w = 8
  BY <1>5 DEF Saturate, WordBits, Number
<1>6. CASE w = 13
  BY <1>6 DEF Saturate, WordBits, Number
<1>7. CASE w = 16
  BY <1>7 DEF Saturate, WordBits, Number
<1> QED
  BY <1>1, <1>2, <1>3, <1>4, <1>5, <1>6, <1>7

LEMMA SaturateFits ==
  ASSUME NEW w \in {1, 2, 3, 8, 13, 16, 32, 40, 64}, NEW v \in Number
  PROVE  /\ w < WordBits => Saturate(v, w) < 2^w
         /\ w < WordBits /\ v < 2^w => Saturate(v, w) = v
<1>1. CASE w \in {32, 40, 64}
  BY <1>1 DEF Saturate, WordBits, Number
<1>2. CASE w = 1
  BY <1>2 DEF Saturate, WordBits, Number
<1>3. CASE w = 2
  BY <1>3 DEF Saturate, WordBits, Number
<1>4. CASE w = 3
  BY <1>4 DEF Saturate, WordBits, Number
<1>5. CASE w = 8
  BY <1>5 DEF Saturate, WordBits, Number
<1>6. CASE w = 13
  BY <1>6 DEF Saturate, WordBits, Number
<1>7. CASE w = 16
  BY <1>7 DEF Saturate, WordBits, Number
<1> QED
  BY <1>1, <1>2, <1>3, <1>4, <1>5, <1>6, <1>7

LEMMA SaturateCases ==
  ASSUME NEW w \in {1, 2, 3, 8, 13, 16, 32, 40, 64}, NEW v \in Number
  PROVE  Saturate(v, w) = v \/ (v > Saturate(v, w) /\ Saturate(v, w) = 2^w - 1)
<1>1. CASE w \in {32, 40, 64}
  BY <1>1 DEF Saturate, WordBits, Number
<1>2. CASE w = 1
  BY <1>2 DEF Saturate, WordBits, Number
<1>3. CASE w = 2
  BY <1>3 DEF Saturate, WordBits, Number
<1>4. CASE w = 3
  BY <1>4 DEF Saturate, WordBits, Number
<1>5. CASE w = 8
  BY <1>5 DEF Saturate, WordBits, Number
<1>6. CASE w = 13
  BY <1>6 DEF Saturate, WordBits, Number
<1>7. CASE w = 16
  BY <1>7 DEF Saturate, WordBits, Number
<1> QED
  BY <1>1, <1>2, <1>3, <1>4, <1>5, <1>6, <1>7

LEMMA Widths3 ==
  ASSUME NEW w \in {5, 7, 8}, NEW n \in 0..255, n < 2^w
  PROVE  w \in 1..64 /\ w < WordBits /\ \A k \in 0..n : k < 2^w /\ k \in Number
<1>1. w \in 1..64 /\ w < WordBits
  BY DEF WordBits
<1>2. \A k \in 0..n : k \in 0..1000
  OBVIOUS
<1>3. \A k \in 0..n : k \in Number
  BY <1>2, Small
<1>4. 2^w \in Nat
  OBVIOUS
<1>5. \A k \in 0..n : k < 2^w
  BY <1>4
<1> QED
  BY <1>1, <1>3, <1>5

LEMMA FieldShape ==
  ASSUME NEW f \in NodeFields
  PROVE  /\ f.t \in {"uint", "items", "bytes", "tail"}
         /\ f.skip \in Nat /\ f.n \in Nat /\ f.width \in Nat /\ f.member \in Nat
         /\ f.t = "tail" /\ f.part = "" => f.member = 0
<1>1. f.skip \in 0..6 /\ f.n \in 0..255 /\ f.width \in 0..64 /\ f.member \in 0..4
  BY DEF NodeFields, Shaped
<1>2. f.skip \in Nat /\ f.n \in Nat /\ f.width \in Nat /\ f.member \in Nat
  BY <1>1
<1>3. f.t \in {"uint", "items", "bytes", "tail"}
  BY DEF NodeFields, Shaped
<1>4. f.t = "tail" /\ f.part = "" => f.member = 0
  <2>1. AtRoot(f) => f.member = 0
    BY DEF NodeFields, Shaped
  <2> QED
    BY <2>1 DEF AtRoot
<1> QED
  BY <1>2, <1>3, <1>4

LEMMA UintShape ==
  ASSUME NEW f \in NodeFields
  PROVE  /\ f.t = "uint" => /\ f.width \in {1, 2, 3, 8, 13, 16, 32, 40, 64}
                            /\ f.width \in 1..64 /\ f.width \in 0..64
         /\ f.name = "tag" => f.t = "uint" /\ f.width < WordBits /\ f.member = 0
<1>1. f.t = "uint" => f.width \in {1, 2, 3, 8, 13, 16, 32, 40, 64}
  BY DEF NodeFields, Shaped
<1>2. \A w \in {1, 2, 3, 8, 13, 16, 32, 40, 64} : w \in 1..64 /\ w \in 0..64
  OBVIOUS
<1>3. f.name = "tag" => f.t = "uint" /\ f.width \in {2, 3} /\ f.member = 0
  BY DEF NodeFields, Shaped
<1>4. \A w \in {2, 3} : w < WordBits
  BY DEF WordBits
<1> QED
  BY <1>1, <1>2, <1>3, <1>4

LEMMA ArrayShape ==
  ASSUME NEW f \in NodeFields, f.t \in {"bytes", "tail"}
  PROVE  /\ f.n \in 0..255 /\ f.width \in 1..64 /\ f.width \in 0..64 /\ f.width < WordBits
         /\ \A k \in 0..f.n : k < 2^f.width /\ k \in Number
<1>1. f.width \in {5, 7, 8} /\ f.n \in 0..255 /\ f.n < 2^f.width
  BY DEF NodeFields, Shaped
<1>2. PICK w \in {5, 7, 8}, n \in 0..255 : w = f.width /\ n = f.n /\ n < 2^w
  BY <1>1
<1>3. w \in 1..64 /\ w \in 0..64
  OBVIOUS
<1>4. w < WordBits /\ \A k \in 0..n : k < 2^w /\ k \in Number
  BY <1>2, Widths3
<1> QED
  BY <1>2, <1>3, <1>4

\* The values of a field in a struct of its type.
LEMMA TypedFacts ==
  ASSUME NEW f \in NodeFields, NEW s, TypedField(f, s), Present(f, s)
  PROVE  /\ f.t = "uint" => /\ AsHeard(f, s) \in Number
                            /\ f.width < WordBits => AsHeard(f, s) < 2^f.width
                            /\ f.name = "tag" => AsHeard(f, s) = s[Key(f)]
         /\ f.t = "items" => s[Key(f)] \in Seq(Byte) /\ Len(s[Key(f)]) = f.n
         /\ f.t \in {"bytes", "tail"} => s[Key(f)] \in Seq(Byte) /\ Len(s[Key(f)]) \in 0..f.n
<1>1. ASSUME f.t = "uint"
      PROVE  /\ AsHeard(f, s) \in Number
             /\ f.width < WordBits => AsHeard(f, s) < 2^f.width
             /\ f.name = "tag" => AsHeard(f, s) = s[Key(f)]
  <2>1. PICK v \in Number : v = s[Key(f)] /\ (f.name = "tag" => v < 2^f.width)
    BY <1>1 DEF TypedField
  <2>2. PICK w \in {1, 2, 3, 8, 13, 16, 32, 40, 64} : w = f.width
    BY <1>1, UintShape
  <2>3. AsHeard(f, s) = Saturate(v, w)
    BY <1>1, <2>1, <2>2 DEF AsHeard
  <2>4. f.name = "tag" => w < WordBits /\ v < 2^w
    BY <2>1, <2>2, UintShape
  <2>5. Saturate(v, w) \in Number
    BY SaturateInRange
  <2>9. w < WordBits => Saturate(v, w) < 2^w
    BY SaturateFits
  <2>6. f.name = "tag" => Saturate(v, w) = v
    BY <2>4, SaturateFits
  <2>7. /\ AsHeard(f, s) \in Number
        /\ f.width < WordBits => AsHeard(f, s) < 2^f.width
    BY <2>2, <2>3, <2>5, <2>9
  <2>8. f.name = "tag" => AsHeard(f, s) = s[Key(f)]
    BY <2>1, <2>3, <2>6
  <2> QED
    BY <2>7, <2>8
<1>2. f.t = "items" => s[Key(f)] \in Seq(Byte) /\ Len(s[Key(f)]) = f.n
  BY DEF TypedField
<1>3. ASSUME f.t \in {"bytes", "tail"}
      PROVE  s[Key(f)] \in Seq(Byte) /\ Len(s[Key(f)]) \in 0..f.n
  <2>1. s[Key(f)] \in Seq(Byte) /\ Len(s[Key(f)]) <= f.n /\ f.n \in Nat
    BY <1>3, FieldShape DEF TypedField
  <2> HIDE DEF TypedField
  <2>2. Len(s[Key(f)]) \in Nat
    BY <2>1
  <2> QED
    BY <2>1, <2>2
<1> QED
  BY <1>1, <1>2, <1>3

LEMMA Concat ==
  ASSUME NEW S, NEW u \in Seq(S), NEW v \in Seq(S)
  PROVE  /\ u \o v \in Seq(S) /\ Len(u \o v) = Len(u) + Len(v)
         /\ \A i \in 1..Len(u) : (u \o v)[i] = u[i]
         /\ \A i \in 1..Len(v) : (u \o v)[Len(u) + i] = v[i]
OBVIOUS

\* The bits of a length, if it has any.
LEMMA LengthBitsFacts ==
  ASSUME NEW f \in NodeFields, f.t \in {"bytes", "tail"}, NEW v, Len(v) \in 0..f.n
  PROVE  LengthBits(f, v) \in Seq({0, 1}) /\ Len(LengthBits(f, v)) = LengthSize(f)
<1>1. f.width \in 0..64
  BY ArrayShape
<1>2. Len(v) \in Number
  BY ArrayShape
<1>3. ScalarBits(Len(v), f.width) \in Seq({0, 1}) /\ Len(ScalarBits(Len(v), f.width)) = f.width
  BY <1>1, <1>2, ScalarBitsFacts
<1>5. CASE f.t = "tail" /\ f.part = ""
  <2>1. LengthBits(f, v) = <<>> /\ LengthSize(f) = 0
    BY <1>5 DEF LengthBits, LengthSize
  <2> QED
    BY <2>1
<1>6. CASE ~(f.t = "tail" /\ f.part = "")
  BY <1>3, <1>6 DEF LengthBits, LengthSize
<1> QED
  BY <1>5, <1>6

\* What is written of a field behind the bits that are skipped.
Written(f, s) == CASE f.t = "uint"  -> ScalarBits(AsHeard(f, s), f.width)
                   [] f.t = "items" -> ByteBits(s[Key(f)])
                   [] OTHER         -> LengthBits(f, s[Key(f)]) \o ByteBits(s[Key(f)])

LEMMA WrittenFacts ==
  ASSUME NEW f \in NodeFields, NEW s, TypedField(f, s), Present(f, s)
  PROVE  /\ Written(f, s) \in Seq({0, 1})
         /\ FieldSize(f, s) = f.skip + Len(Written(f, s)) /\ FieldSize(f, s) \in Nat
<1>1. f.skip \in Nat
  BY FieldShape
<1>2. CASE f.t = "uint"
  <2>1. AsHeard(f, s) \in Number /\ f.width \in 0..64
    BY <1>2, TypedFacts, UintShape
  <2>2. Written(f, s) = ScalarBits(AsHeard(f, s), f.width)
    BY <1>2 DEF Written
  <2>3. FieldSize(f, s) = f.skip + f.width
    BY <1>2 DEF FieldSize
  <2>4. PICK v \in Number, w \in 0..64 : v = AsHeard(f, s) /\ w = f.width
    BY <2>1
  <2>5. ScalarBits(v, w) \in Seq({0, 1}) /\ Len(ScalarBits(v, w)) = w
    BY ScalarBitsFacts
  <2> QED
    BY <1>1, <2>2, <2>3, <2>4, <2>5
<1>3. CASE f.t = "items"
  <2>1. s[Key(f)] \in Seq(Byte) /\ Len(s[Key(f)]) = f.n /\ f.n \in Nat
    BY <1>3, TypedFacts, FieldShape
  <2>2. Written(f, s) = ByteBits(s[Key(f)])
    BY <1>3 DEF Written
  <2>3. FieldSize(f, s) = f.skip + 8 * f.n
    BY <1>3 DEF FieldSize
  <2>4. ByteBits(s[Key(f)]) \in Seq({0, 1}) /\ Len(ByteBits(s[Key(f)])) = 8 * f.n
    BY <2>1, ByteBitsFacts
  <2> QED
    BY <1>1, <2>1, <2>2, <2>3, <2>4
<1>4. CASE f.t \in {"bytes", "tail"}
  <2>1. s[Key(f)] \in Seq(Byte) /\ Len(s[Key(f)]) \in 0..f.n /\ f.n \in Nat
    BY <1>4, TypedFacts, FieldShape
  <2>2. Written(f, s) = LengthBits(f, s[Key(f)]) \o ByteBits(s[Key(f)])
    BY <1>4 DEF Written
  <2>3. FieldSize(f, s) = f.skip + (LengthSize(f) + 8 * Len(s[Key(f)]))
    BY <1>4 DEF FieldSize
  <2>4. LengthBits(f, s[Key(f)]) \in Seq({0, 1}) /\ Len(LengthBits(f, s[Key(f)])) = LengthSize(f)
    BY <1>4, <2>1, LengthBitsFacts
  <2>5. ByteBits(s[Key(f)]) \in Seq({0, 1}) /\ Len(ByteBits(s[Key(f)])) = 8 * Len(s[Key(f)])
    BY <2>1, ByteBitsFacts
  <2>6. LengthSize(f) \in Nat
    BY FieldShape DEF LengthSize
  <2> DEFINE front == LengthBits(f, s[Key(f)])
             rest  == ByteBits(s[Key(f)])
  <2>7. front \in Seq({0, 1}) /\ rest \in Seq({0, 1})
          /\ Len(front) = LengthSize(f) /\ Len(rest) = 8 * Len(s[Key(f)])
    BY <2>4, <2>5
  <2>8. Written(f, s) = front \o rest
    BY <2>2
  <2> HIDE DEF front, rest
  <2>9. Written(f, s) \in Seq({0, 1}) /\ Len(Written(f, s)) = Len(front) + Len(rest)
    BY <2>7, <2>8, Concat
  <2>10. Len(s[Key(f)]) \in Nat
    BY <2>1
  <2> QED
    BY <1>1, <2>3, <2>6, <2>7, <2>9, <2>10
<1> QED
  BY <1>2, <1>3, <1>4, FieldShape

\* What the bits that are skipped may be.
Filling == {0, 1}

LEMMA FieldBitsFacts ==
  ASSUME NEW f \in NodeFields, NEW s, TypedField(f, s), NEW pad \in Filling
  PROVE  /\ FieldBits(f, s, pad) \in Seq({0, 1}) /\ Len(FieldBits(f, s, pad)) = FieldSize(f, s)
         /\ Present(f, s) => \A b \in 1..Len(Written(f, s)) :
                               FieldBits(f, s, pad)[f.skip + b] = Written(f, s)[b]
<1>1. CASE ~Present(f, s)
  <2>1. FieldBits(f, s, pad) = <<>> /\ FieldSize(f, s) = 0
    BY <1>1 DEF FieldBits, FieldSize
  <2> QED
    BY <1>1, <2>1
<1>2. CASE Present(f, s)
  <2> DEFINE skipped == [b \in 1..f.skip |-> pad]
  <2>1. f.skip \in Nat
    BY FieldShape
  <2>2. FieldBits(f, s, pad) = skipped \o Written(f, s)
    BY <1>2 DEF FieldBits, Written, AsHeard
  <2>3. skipped \in Seq({0, 1}) /\ Len(skipped) = f.skip
    BY <2>1 DEF Filling
  <2> HIDE DEF skipped
  <2>4. Written(f, s) \in Seq({0, 1}) /\ FieldSize(f, s) = f.skip + Len(Written(f, s))
    BY <1>2, WrittenFacts
  <2>5. PICK u \in Seq({0, 1}), v \in Seq({0, 1}) : u = skipped /\ v = Written(f, s)
    BY <2>3, <2>4
  <2>6. /\ u \o v \in Seq({0, 1}) /\ Len(u \o v) = Len(u) + Len(v)
        /\ \A b \in 1..Len(v) : (u \o v)[Len(u) + b] = v[b]
    BY Concat
  <2> QED
    BY <2>2, <2>3, <2>4, <2>5, <2>6
<1> QED
  BY <1>1, <1>2

\* Bits are in a payload from a place on, as far as the payload goes.
Lies(bits, p, at) == \A b \in 1..Len(bits) : at + b <= Len(p) => p[at + b] = bits[b]

LEMMA LiesPart ==
  ASSUME NEW p \in Seq({0, 1}), NEW u \in Seq({0, 1}), NEW v \in Seq({0, 1}),
         NEW at \in Nat, Lies(u \o v, p, at)
  PROVE  /\ Lies(u, p, at) /\ Lies(v, p, at + Len(u)) /\ at + Len(u) \in Nat
         /\ at + Len(u \o v) = (at + Len(u)) + Len(v)
<1>1. /\ Len(u \o v) = Len(u) + Len(v)
      /\ \A i \in 1..Len(u) : (u \o v)[i] = u[i]
      /\ \A i \in 1..Len(v) : (u \o v)[Len(u) + i] = v[i]
  BY Concat
<1>2. PICK m \in Nat, n \in Nat : m = Len(u) /\ n = Len(v)
  OBVIOUS
<1>3. \A i \in 1..m : i \in 1..(m + n)
  BY <1>2
<1>4. \A i \in 1..n : m + i \in 1..(m + n) /\ (at + m) + i = at + (m + i)
  BY <1>2
<1>5. \A b \in 1..(m + n) : at + b <= Len(p) => p[at + b] = (u \o v)[b]
  BY <1>1, <1>2 DEF Lies
<1>6. Lies(u, p, at)
  BY <1>1, <1>2, <1>3, <1>5 DEF Lies
<1>7. \A i \in 1..n : (at + m) + i <= Len(p) => p[(at + m) + i] = v[i]
  <2> SUFFICES ASSUME NEW i \in 1..n, (at + m) + i <= Len(p)
               PROVE  p[(at + m) + i] = v[i]
    OBVIOUS
  <2>1. p[at + (m + i)] = (u \o v)[m + i]
    BY <1>4, <1>5
  <2> QED
    BY <1>1, <1>2, <1>4, <2>1
<1>8. Lies(v, p, at + Len(u))
  BY <1>2, <1>7 DEF Lies
<1>9. at + Len(u) \in Nat /\ at + Len(u \o v) = (at + Len(u)) + Len(v)
  BY <1>1, <1>2
<1> QED
  BY <1>6, <1>8, <1>9

LEMMA ScalarLies ==
  ASSUME NEW p \in Seq({0, 1}), NEW at \in Nat, NEW w \in 1..64,
         NEW v \in Number, w < WordBits => v < 2^w, Lies(ScalarBits(v, w), p, at)
  PROVE  Read(p, at, w) = IF at + w <= Len(p) THEN Good(at + w, v) ELSE Bad
<1>1. w \in 0..64
  OBVIOUS
<1>2. Len(ScalarBits(v, w)) = w /\ \A b \in 1..w : ScalarBits(v, w)[b] = WordBit(v, b)
  BY <1>1, ScalarBitsFacts
<1>3. \A b \in 1..w : at + b <= Len(p) => p[at + b] = WordBit(v, b)
  BY <1>2 DEF Lies
<1> QED
  BY <1>3, ScalarRead

LEMMA BytesLie ==
  ASSUME NEW p \in Seq({0, 1}), NEW at \in Nat, NEW s \in Seq(Byte), NEW k \in 0..Len(s),
         Lies(ByteBits(s), p, at)
  PROVE  ReadBytes(p, at, k) = IF at + 8 * k <= Len(p) THEN Good(at + 8 * k, [i \in 1..k |-> s[i]])
                               ELSE Bad
<1>1. Len(ByteBits(s)) = 8 * Len(s)
  BY ByteBitsFacts
<1>2. PICK n \in Nat : n = Len(s)
  OBVIOUS
<1>3. \A b \in 1..(8 * k) : b \in 1..(8 * n)
  BY <1>2
<1>4. \A b \in 1..(8 * k) : at + b <= Len(p) => p[at + b] = ByteBits(s)[b]
  BY <1>1, <1>2, <1>3 DEF Lies
<1> QED
  BY <1>4, BytesRead

LEMMA AllBytes == ASSUME NEW s \in Seq(Byte) PROVE [i \in 1..Len(s) |-> s[i]] = s
OBVIOUS

\* An array behind its length.
LEMMA ArrayLies ==
  ASSUME NEW p \in Seq({0, 1}), NEW at \in Nat, NEW w \in 1..64, NEW s \in Seq(Byte),
         Len(s) \in Number, Len(s) < 2^w,
         Lies(ScalarBits(Len(s), w) \o ByteBits(s), p, at)
  PROVE  LET n    == Read(p, at, w)
             size == Len(ScalarBits(Len(s), w) \o ByteBits(s))
         IN  (IF n.ok THEN ReadBytes(p, n.at, n.val) ELSE Bad) =
               IF at + size <= Len(p) THEN Good(at + size, s) ELSE Bad
<1> DEFINE front == ScalarBits(Len(s), w)
           rest  == ByteBits(s)
           n     == Read(p, at, w)
           size  == Len(front \o rest)
<1>1. PICK v \in Number : v = Len(s)
  OBVIOUS
<1>2. w \in 0..64
  OBVIOUS
<1>3. front \in Seq({0, 1}) /\ Len(front) = w
  BY <1>1, <1>2, ScalarBitsFacts
<1>4. rest \in Seq({0, 1}) /\ Len(rest) = 8 * Len(s)
  BY ByteBitsFacts
<1>5. Lies(front \o rest, p, at)
  OBVIOUS
<1>6. /\ Lies(front, p, at) /\ Lies(rest, p, at + w) /\ at + w \in Nat
      /\ at + size = (at + w) + 8 * Len(s)
  <2>1. PICK u \in Seq({0, 1}), y \in Seq({0, 1}) : u = front /\ y = rest
    BY <1>3, <1>4
  <2>2. Lies(u \o y, p, at)
    BY <1>5, <2>1
  <2>3. /\ Lies(u, p, at) /\ Lies(y, p, at + Len(u)) /\ at + Len(u) \in Nat
        /\ at + Len(u \o y) = (at + Len(u)) + Len(y)
    BY <2>2, LiesPart
  <2> HIDE DEF front, rest
  <2> QED
    BY <1>3, <1>4, <2>1, <2>3
<1>7. n = IF at + w <= Len(p) THEN Good(at + w, Len(s)) ELSE Bad
  BY <1>1, <1>6, ScalarLies
<1>8. Len(s) \in 0..Len(s)
  OBVIOUS
<1>9. ReadBytes(p, at + w, Len(s)) =
        IF (at + w) + 8 * Len(s) <= Len(p)
        THEN Good((at + w) + 8 * Len(s), [i \in 1..Len(s) |-> s[i]]) ELSE Bad
  BY <1>6, <1>8, BytesLie
<1>10. (at + w) + 8 * Len(s) <= Len(p) => at + w <= Len(p)
  <2>1. Len(p) \in Nat /\ Len(s) \in Nat
    OBVIOUS
  <2> HIDE DEF n, size, front, rest
  <2> QED
    BY <1>6, <2>1
<1> HIDE DEF n, size
<1>11. (IF n.ok THEN ReadBytes(p, n.at, n.val) ELSE Bad) =
          IF at + size <= Len(p) THEN Good(at + size, s) ELSE Bad
  <2>1. CASE ~(at + w <= Len(p))
    BY <1>6, <1>7, <1>10, <2>1 DEF Bad
  <2>2. CASE at + w <= Len(p)
    <3>1. n.ok /\ n.at = at + w /\ n.val = Len(s)
      BY <1>7, <2>2 DEF Good
    <3> QED
      BY <1>6, <1>9, <3>1, AllBytes
  <2> QED
    BY <2>1, <2>2
<1> QED
  BY <1>11 DEF n, size

LEMMA WrittenLies ==
  ASSUME NEW f \in NodeFields, NEW s, TypedField(f, s), Present(f, s), NEW pad \in Filling,
         NEW p \in Seq({0, 1}), NEW at \in Nat, Lies(FieldBits(f, s, pad), p, at)
  PROVE  /\ at + f.skip \in Nat /\ Lies(Written(f, s), p, at + f.skip)
         /\ at + FieldSize(f, s) = (at + f.skip) + Len(Written(f, s))
<1> DEFINE skipped == [b \in 1..f.skip |-> pad]
<1>1. f.skip \in Nat
  BY FieldShape
<1>2. FieldBits(f, s, pad) = skipped \o Written(f, s)
  BY DEF FieldBits, Written, AsHeard
<1>3. skipped \in Seq({0, 1}) /\ Len(skipped) = f.skip
  BY <1>1 DEF Filling
<1> HIDE DEF skipped
<1>4. Written(f, s) \in Seq({0, 1})
  BY WrittenFacts
<1>5. Len(FieldBits(f, s, pad)) = FieldSize(f, s)
  BY FieldBitsFacts
<1>6. skipped \o Written(f, s) = FieldBits(f, s, pad) /\ Lies(skipped \o Written(f, s), p, at)
  BY <1>2
<1>7. PICK u \in Seq({0, 1}), v \in Seq({0, 1}) : u = skipped /\ v = Written(f, s)
  BY <1>3, <1>4
<1>9. Lies(u \o v, p, at)
  BY <1>6, <1>7
<1>8. Lies(v, p, at + Len(u)) /\ at + Len(u) \in Nat /\ at + Len(u \o v) = (at + Len(u)) + Len(v)
  BY <1>9, LiesPart
<1> QED
  BY <1>3, <1>5, <1>6, <1>7, <1>8

\* A field is read as it was written, or the payload is too short for it.
LEMMA FieldRead ==
  ASSUME NEW f \in NodeFields, NEW s, TypedField(f, s), Present(f, s), NEW pad \in Filling,
         NEW p \in Seq({0, 1}), NEW at \in Nat, Lies(FieldBits(f, s, pad), p, at), f.t # "tail"
  PROVE  ReadField(f, p, at + f.skip) =
           IF at + FieldSize(f, s) <= Len(p) THEN Good(at + FieldSize(f, s), AsHeard(f, s)) ELSE Bad
<1>1. PICK from \in Nat : from = at + f.skip
  BY WrittenLies
<1>2. Lies(Written(f, s), p, from) /\ at + FieldSize(f, s) = from + Len(Written(f, s))
  BY <1>1, WrittenLies
<1>3. CASE f.t = "uint"
  <2>1. PICK v \in Number, w \in 1..64 :
          v = AsHeard(f, s) /\ w = f.width /\ (w < WordBits => v < 2^w)
    BY <1>3, TypedFacts, UintShape
  <2>2. Written(f, s) = ScalarBits(v, w)
    BY <1>3, <2>1 DEF Written
  <2>3. ReadField(f, p, from) = Read(p, from, w)
    BY <1>3, <2>1 DEF ReadField
  <2>4. w \in 0..64
    OBVIOUS
  <2>5. Len(ScalarBits(v, w)) = w
    BY <2>4, ScalarBitsFacts
  <2>6. Read(p, from, w) = IF from + w <= Len(p) THEN Good(from + w, v) ELSE Bad
    BY <1>2, <2>1, <2>2, ScalarLies
  <2> QED
    BY <1>1, <1>2, <2>1, <2>2, <2>3, <2>5, <2>6
<1>4. CASE f.t = "items"
  <2>1. PICK v \in Seq(Byte) : v = s[Key(f)] /\ Len(v) = f.n
    BY <1>4, TypedFacts
  <2>2. Written(f, s) = ByteBits(v) /\ AsHeard(f, s) = v
    BY <1>4, <2>1 DEF Written, AsHeard
  <2>3. ReadField(f, p, from) = ReadBytes(p, from, Len(v))
    BY <1>4, <2>1 DEF ReadField
  <2>4. Len(v) \in 0..Len(v)
    OBVIOUS
  <2>5. Len(ByteBits(v)) = 8 * Len(v)
    BY ByteBitsFacts
  <2>6. ReadBytes(p, from, Len(v)) =
          IF from + 8 * Len(v) <= Len(p)
          THEN Good(from + 8 * Len(v), [i \in 1..Len(v) |-> v[i]]) ELSE Bad
    BY <1>2, <2>2, <2>4, BytesLie
  <2> QED
    BY <1>1, <1>2, <2>2, <2>3, <2>5, <2>6, AllBytes
<1>5. CASE f.t = "bytes"
  <2>1. PICK v \in Seq(Byte) : v = s[Key(f)] /\ Len(v) \in 0..f.n
    BY <1>5, TypedFacts
  <2>2. PICK w \in 1..64 : w = f.width /\ Len(v) < 2^w /\ Len(v) \in Number
    BY <1>5, <2>1, ArrayShape
  <2>3. Written(f, s) = ScalarBits(Len(v), w) \o ByteBits(v) /\ AsHeard(f, s) = v
    BY <1>5, <2>1, <2>2 DEF Written, AsHeard, LengthBits
  <2>4. ReadField(f, p, from) =
          LET n == Read(p, from, w) IN IF n.ok THEN ReadBytes(p, n.at, n.val) ELSE Bad
    BY <1>5, <2>2 DEF ReadField, ReadLength
  <2>5. Lies(ScalarBits(Len(v), w) \o ByteBits(v), p, from)
    BY <1>2, <2>3
  <2>6. ReadField(f, p, from) = IF from + Len(Written(f, s)) <= Len(p)
                                THEN Good(from + Len(Written(f, s)), v) ELSE Bad
    BY <2>2, <2>3, <2>4, <2>5, ArrayLies
  <2> QED
    BY <1>1, <1>2, <2>3, <2>6
<1> QED
  BY <1>3, <1>4, <1>5, FieldShape

\* Behind a place there are k whole bytes, and less than one more.
Left(p, from, k) == \E spare \in 0..7 : Len(p) = from + 8 * k + spare

LEMMA TailLength ==
  ASSUME NEW p \in Seq({0, 1}), NEW from \in Nat, NEW k \in 0..255, Left(p, from, k)
  PROVE  Quotient(Len(p) - from, 8) % 256 = k /\ from + 8 * k <= Len(p)
<1> PICK len \in Nat : len = Len(p)
  OBVIOUS
<1> PICK spare \in 0..7 : len = from + 8 * k + spare
  BY DEF Left
<1>1. len - from = 8 * k + spare /\ 8 * k + spare >= 0
  OBVIOUS
<1>2. (8 * k + spare) \div 8 = k /\ k % 256 = k
  OBVIOUS
<1>3. from + 8 * k <= len
  OBVIOUS
<1> QED
  BY <1>1, <1>2, <1>3 DEF Quotient

LEMMA NothingBefore == ASSUME NEW S, NEW u \in Seq(S) PROVE <<>> \o u = u
OBVIOUS

LEMMA Below == ASSUME NEW m \in 0..255, NEW n \in 0..m, NEW k \in 0..n PROVE k \in 0..255
OBVIOUS

\* The array at the end of a message is in its place.
TailAt(f, s, p, from) ==
  /\ TypedField(f, s) /\ f.t = "tail" /\ f.part = ""
  /\ p \in Seq({0, 1}) /\ p # <<>> /\ Lies(Written(f, s), p, from)
First(v, k) == [i \in 1..k |-> v[i]]

\* It takes the bytes that are left.
LEMMA TailRead ==
  ASSUME NEW f \in NodeFields, NEW s, NEW p, NEW from \in Nat, TailAt(f, s, p, from),
         NEW k \in 0..Len(s[Key(f)]), Left(p, from, k)
  PROVE  ReadField(f, p, from) = Good(from + 8 * k, First(s[Key(f)], k))
<1>1. /\ TypedField(f, s) /\ f.t = "tail" /\ f.part = "" /\ f.t \in {"bytes", "tail"}
      /\ p \in Seq({0, 1}) /\ p # <<>> /\ Lies(Written(f, s), p, from)
  BY DEF TailAt
<1>2. Present(f, s)
  BY <1>1, FieldShape DEF Present
<1>3. PICK m \in 0..255 : m = f.n
  BY <1>1, ArrayShape
<1>4. PICK v \in Seq(Byte) : v = s[Key(f)] /\ Len(v) \in 0..m
  BY <1>1, <1>2, <1>3, TypedFacts
<1>5. Written(f, s) = ByteBits(v)
  <2>1. Written(f, s) = <<>> \o ByteBits(v)
    BY <1>1, <1>4 DEF Written, LengthBits
  <2>2. ByteBits(v) \in Seq({0, 1})
    BY ByteBitsFacts
  <2> QED
    BY <2>1, <2>2, NothingBefore
<1>6. ReadField(f, p, from) = ReadBytes(p, from, Quotient(Len(p) - from, 8) % 256)
  BY <1>1 DEF ReadField, ReadLength, Good
<1>7. PICK n \in 0..m : n = Len(v)
  BY <1>4
<1>8. PICK j \in 0..n : j = k
  BY <1>4, <1>7
<1>9. j \in 0..255
  BY Below
<1>10. PICK q \in Seq({0, 1}) : q = p
  BY <1>1
<1>11. Quotient(Len(q) - from, 8) % 256 = j /\ from + 8 * j <= Len(q)
  BY <1>8, <1>9, <1>10, TailLength
<1>12. Lies(ByteBits(v), q, from)
  BY <1>1, <1>5, <1>10
<1>13. ReadBytes(q, from, j) = Good(from + 8 * j, [i \in 1..j |-> v[i]])
  BY <1>7, <1>11, <1>12, BytesLie
<1> QED
  BY <1>4, <1>6, <1>8, <1>10, <1>11, <1>13 DEF First

\* The fields are written one after the other.
LEMMA BitsDefined ==
  ASSUME NEW F, Len(F) \in Nat, NEW s, NEW pad
  PROVE  /\ BitsUpTo(F, s, pad)[0] = <<>>
         /\ \A n \in 1..Len(F) :
              BitsUpTo(F, s, pad)[n] = BitsUpTo(F, s, pad)[n - 1] \o FieldBits(F[n], s, pad)
<1> DEFINE next(x, n) == x \o FieldBits(F[n], s, pad)
           Up(g, n) == g = [m \in 0..n |-> IF m = 0 THEN <<>> ELSE next(g[m - 1], m)]
           all      == CHOOSE g : Up(g, Len(F))
           Without  == {n \in 0..Len(F) : ~\E g : Up(g, n)}
<1>1. BitsUpTo(F, s, pad) = all
  BY DEF BitsUpTo
<1> HIDE DEF next
<1>2. Without = {}
  <2> SUFFICES ASSUME Without # {}
               PROVE  FALSE
    OBVIOUS
  <2>1. PICK n \in Without : \A m \in Without : ~(m < n)
    <3>1. Without \in SUBSET Nat
      OBVIOUS
    <3> HIDE DEF Without
    <3> QED
      BY <3>1, HasLeast
  <2>2. n \in 0..Len(F) /\ ~\E g : Up(g, n)
    OBVIOUS
  <2>3. n # 0
    <3> DEFINE g == [m \in 0..0 |-> <<>>]
    <3>1. g = [m \in 0..0 |-> IF m = 0 THEN <<>> ELSE next(g[m - 1], m)]
      OBVIOUS
    <3> HIDE DEF g
    <3>2. Up(g, 0)
      BY <3>1
    <3> QED
      BY <2>2, <3>2
  <2>4. n - 1 \in 0..Len(F) /\ n - 1 < n /\ n \in Nat /\ n - 1 \in Nat
    BY <2>2, <2>3
  <2>5. n - 1 \notin Without
    BY <2>1, <2>4
  <2>6. PICK h : Up(h, n - 1)
    BY <2>4, <2>5
  <2> DEFINE g == [m \in 0..n |-> IF m = n THEN next(h[n - 1], n) ELSE h[m]]
  <2>7. /\ \A m \in 0..(n - 1) : m \in 0..n /\ m # n
        /\ \A m \in 0..n : m # n => m \in 0..(n - 1)
        /\ \A m \in 0..n : m # 0 => m - 1 \in 0..(n - 1)
        /\ n \in 0..n
    BY <2>4
  <2>8. \A m \in 0..(n - 1) : h[m] = IF m = 0 THEN <<>> ELSE next(h[m - 1], m)
    <3> HIDE DEF Without
    <3> QED
      BY <2>6
  <2>9. \A m \in 0..(n - 1) : g[m] = h[m]
    BY <2>7
  <2>10. \A m \in 0..n : g[m] = IF m = 0 THEN <<>> ELSE next(g[m - 1], m)
    <3> SUFFICES ASSUME NEW m \in 0..n
                 PROVE  g[m] = IF m = 0 THEN <<>> ELSE next(g[m - 1], m)
      OBVIOUS
    <3>0. g[n] = next(h[n - 1], n)
      BY <2>7
    <3> HIDE DEF g, Without
    <3>1. CASE m = n
      <4>1. m - 1 \in 0..(n - 1)
        BY <2>3, <2>7, <3>1
      <4>2. g[m - 1] = h[n - 1]
        BY <2>9, <3>1, <4>1
      <4> QED
        BY <2>3, <3>0, <3>1, <4>2
    <3>2. CASE m # n
      <4>1. m \in 0..(n - 1)
        BY <2>7, <3>2
      <4>2. g[m] = h[m]
        BY <2>9, <4>1
      <4>3. m # 0 => g[m - 1] = h[m - 1]
        BY <2>7, <2>9
      <4> QED
        BY <2>8, <4>1, <4>2, <4>3
    <3> QED
      BY <3>1, <3>2
  <2>11. g = [m \in 0..n |-> g[m]]
    OBVIOUS
  <2> HIDE DEF g
  <2>12. Up(g, n)
    BY <2>10, <2>11
  <2> QED
    BY <2>2, <2>12
<1>3. Len(F) \in 0..Len(F)
  OBVIOUS
<1>4. \E g : Up(g, Len(F))
  BY <1>2, <1>3
<1>5. Up(all, Len(F))
  BY <1>4
<1> HIDE DEF all, Without
<1>6. all[0] = <<>>
  BY <1>5
<1>7. \A n \in 1..Len(F) : all[n] = next(all[n - 1], n)
  <2> SUFFICES ASSUME NEW n \in 1..Len(F)
               PROVE  all[n] = next(all[n - 1], n)
    OBVIOUS
  <2>1. n \in 0..Len(F) /\ n # 0
    OBVIOUS
  <2> QED
    BY <1>5, <2>1
<1> QED
  BY <1>1, <1>6, <1>7 DEF next

\* They are read one after the other.
LEMMA AfterDefined ==
  ASSUME NEW F, Len(F) \in Nat, NEW p
  PROVE  /\ After(F, p)[0] = Good(0, NoFields)
         /\ \A n \in 1..Len(F) : After(F, p)[n] = Then(After(F, p)[n - 1], F[n], p)
<1> DEFINE next(x, n) == Then(x, F[n], p)
           Up(g, n) == g = [m \in 0..n |-> IF m = 0 THEN Good(0, NoFields) ELSE next(g[m - 1], m)]
           all      == CHOOSE g : Up(g, Len(F))
           Without  == {n \in 0..Len(F) : ~\E g : Up(g, n)}
<1>1. After(F, p) = all
  BY DEF After
<1> HIDE DEF next
<1>2. Without = {}
  <2> SUFFICES ASSUME Without # {}
               PROVE  FALSE
    OBVIOUS
  <2>1. PICK n \in Without : \A m \in Without : ~(m < n)
    <3>1. Without \in SUBSET Nat
      OBVIOUS
    <3> HIDE DEF Without
    <3> QED
      BY <3>1, HasLeast
  <2>2. n \in 0..Len(F) /\ ~\E g : Up(g, n)
    OBVIOUS
  <2>3. n # 0
    <3> DEFINE g == [m \in 0..0 |-> Good(0, NoFields)]
    <3>1. g = [m \in 0..0 |-> IF m = 0 THEN Good(0, NoFields) ELSE next(g[m - 1], m)]
      OBVIOUS
    <3> HIDE DEF g
    <3>2. Up(g, 0)
      BY <3>1
    <3> QED
      BY <2>2, <3>2
  <2>4. n - 1 \in 0..Len(F) /\ n - 1 < n /\ n \in Nat /\ n - 1 \in Nat
    BY <2>2, <2>3
  <2>5. n - 1 \notin Without
    BY <2>1, <2>4
  <2>6. PICK h : Up(h, n - 1)
    BY <2>4, <2>5
  <2> DEFINE g == [m \in 0..n |-> IF m = n THEN next(h[n - 1], n) ELSE h[m]]
  <2>7. /\ \A m \in 0..(n - 1) : m \in 0..n /\ m # n
        /\ \A m \in 0..n : m # n => m \in 0..(n - 1)
        /\ \A m \in 0..n : m # 0 => m - 1 \in 0..(n - 1)
        /\ n \in 0..n
    BY <2>4
  <2>8. \A m \in 0..(n - 1) : h[m] = IF m = 0 THEN Good(0, NoFields) ELSE next(h[m - 1], m)
    <3> HIDE DEF Without
    <3> QED
      BY <2>6
  <2>9. \A m \in 0..(n - 1) : g[m] = h[m]
    BY <2>7
  <2>10. \A m \in 0..n : g[m] = IF m = 0 THEN Good(0, NoFields) ELSE next(g[m - 1], m)
    <3> SUFFICES ASSUME NEW m \in 0..n
                 PROVE  g[m] = IF m = 0 THEN Good(0, NoFields) ELSE next(g[m - 1], m)
      OBVIOUS
    <3>0. g[n] = next(h[n - 1], n)
      BY <2>7
    <3> HIDE DEF g, Without
    <3>1. CASE m = n
      <4>1. m - 1 \in 0..(n - 1)
        BY <2>3, <2>7, <3>1
      <4>2. g[m - 1] = h[n - 1]
        BY <2>9, <3>1, <4>1
      <4> QED
        BY <2>3, <3>0, <3>1, <4>2
    <3>2. CASE m # n
      <4>1. m \in 0..(n - 1)
        BY <2>7, <3>2
      <4>2. g[m] = h[m]
        BY <2>9, <4>1
      <4>3. m # 0 => g[m - 1] = h[m - 1]
        BY <2>7, <2>9
      <4> QED
        BY <2>8, <4>1, <4>2, <4>3
    <3> QED
      BY <3>1, <3>2
  <2>11. g = [m \in 0..n |-> g[m]]
    OBVIOUS
  <2> HIDE DEF g
  <2>12. Up(g, n)
    BY <2>10, <2>11
  <2> QED
    BY <2>2, <2>12
<1>3. Len(F) \in 0..Len(F)
  OBVIOUS
<1>4. \E g : Up(g, Len(F))
  BY <1>2, <1>3
<1>5. Up(all, Len(F))
  BY <1>4
<1> HIDE DEF all, Without
<1>6. all[0] = Good(0, NoFields)
  BY <1>5
<1>7. \A n \in 1..Len(F) : all[n] = next(all[n - 1], n)
  <2> SUFFICES ASSUME NEW n \in 1..Len(F)
               PROVE  all[n] = next(all[n - 1], n)
    OBVIOUS
  <2>1. n \in 0..Len(F) /\ n # 0
    OBVIOUS
  <2> QED
    BY <1>5, <2>1
<1> QED
  BY <1>1, <1>6, <1>7 DEF next

\* Where the fields up to one end.
End(F, s, n) == Len(BitsUpTo(F, s, 0)[n])

LEMMA ZeroFills == 0 \in Filling
BY DEF Filling

LEMMA FieldFacts ==
  ASSUME NEW F \in Seq(NodeFields), NEW s, HasType(F, s), NEW n \in 1..Len(F), NEW pad \in Filling
  PROVE  /\ F[n] \in NodeFields /\ TypedField(F[n], s)
         /\ FieldBits(F[n], s, pad) \in Seq({0, 1})
         /\ Len(FieldBits(F[n], s, pad)) = FieldSize(F[n], s) /\ FieldSize(F[n], s) \in Nat
<1>1. F[n] \in NodeFields /\ TypedField(F[n], s)
  BY DEF HasType
<1>2. PICK f \in NodeFields : f = F[n]
  BY <1>1
<1>3. FieldBits(f, s, pad) \in Seq({0, 1}) /\ Len(FieldBits(f, s, pad)) = FieldSize(f, s)
  BY <1>1, <1>2, FieldBitsFacts
<1>4. Len(FieldBits(f, s, pad)) \in Nat
  BY <1>3
<1> QED
  BY <1>1, <1>2, <1>3, <1>4

LEMMA BitsFacts ==
  ASSUME NEW F \in Seq(NodeFields), NEW s, HasType(F, s), NEW pad \in Filling
  PROVE  \A n \in 0..Len(F) :
           BitsUpTo(F, s, pad)[n] \in Seq({0, 1}) /\ Len(BitsUpTo(F, s, pad)[n]) = End(F, s, n)
<1> DEFINE B    == BitsUpTo(F, s, pad)
           Z    == BitsUpTo(F, s, 0)
           ok(n) == B[n] \in Seq({0, 1}) /\ Z[n] \in Seq({0, 1}) /\ Len(B[n]) = Len(Z[n])
           Wrong == {n \in 0..Len(F) : ~ok(n)}
<1>1. Len(F) \in Nat
  OBVIOUS
<1>2. B[0] = <<>> /\ \A n \in 1..Len(F) : B[n] = B[n - 1] \o FieldBits(F[n], s, pad)
  BY <1>1, BitsDefined
<1>3. Z[0] = <<>> /\ \A n \in 1..Len(F) : Z[n] = Z[n - 1] \o FieldBits(F[n], s, 0)
  BY <1>1, BitsDefined
<1> HIDE DEF B, Z
<1>4. \A n \in 1..Len(F) : ok(n - 1) => ok(n)
  <2> SUFFICES ASSUME NEW n \in 1..Len(F), ok(n - 1)
               PROVE  ok(n)
    OBVIOUS
  <2>1. PICK u \in Seq({0, 1}), v \in Seq({0, 1}) : u = B[n - 1] /\ v = FieldBits(F[n], s, pad)
    BY FieldFacts
  <2>2. PICK x \in Seq({0, 1}), y \in Seq({0, 1}) : x = Z[n - 1] /\ y = FieldBits(F[n], s, 0)
    BY ZeroFills, FieldFacts
  <2>3. Len(u) = Len(x) /\ Len(v) = Len(y)
    BY <2>1, <2>2, ZeroFills, FieldFacts
  <2>4. B[n] = u \o v /\ Z[n] = x \o y
    BY <1>2, <1>3, <2>1, <2>2
  <2>5. /\ u \o v \in Seq({0, 1}) /\ Len(u \o v) = Len(u) + Len(v)
        /\ x \o y \in Seq({0, 1}) /\ Len(x \o y) = Len(x) + Len(y)
    BY Concat
  <2> QED
    BY <2>3, <2>4, <2>5
<1>5. ok(0)
  BY <1>2, <1>3
<1> HIDE DEF ok
<1>6. Wrong = {}
  <2> SUFFICES ASSUME Wrong # {}
               PROVE  FALSE
    OBVIOUS
  <2>1. PICK n \in Wrong : \A m \in Wrong : ~(m < n)
    <3>1. Wrong \in SUBSET Nat
      BY <1>1
    <3> HIDE DEF Wrong
    <3> QED
      BY <3>1, HasLeast
  <2>2. n \in 0..Len(F) /\ ~ok(n) /\ n # 0
    BY <1>5
  <2>3. n \in 1..Len(F) /\ n - 1 \in 0..Len(F) /\ n - 1 < n
    BY <2>2
  <2>4. ok(n - 1)
    BY <2>1, <2>3
  <2> QED
    BY <1>4, <2>2, <2>3, <2>4
<1> QED
  BY <1>6 DEF ok, B, Z, End

LEMMA EndFacts ==
  ASSUME NEW F \in Seq(NodeFields), NEW s, HasType(F, s)
  PROVE  /\ End(F, s, 0) = 0
         /\ \A n \in 0..Len(F) : End(F, s, n) \in Nat
         /\ \A n \in 1..Len(F) : End(F, s, n) = End(F, s, n - 1) + FieldSize(F[n], s)
<1> DEFINE B == BitsUpTo(F, s, 0)
<1>1. Len(F) \in Nat
  OBVIOUS
<1>2. B[0] = <<>> /\ \A n \in 1..Len(F) : B[n] = B[n - 1] \o FieldBits(F[n], s, 0)
  BY <1>1, BitsDefined
<1>3. \A n \in 0..Len(F) : B[n] \in Seq({0, 1}) /\ End(F, s, n) = Len(B[n])
  BY ZeroFills, BitsFacts DEF End
<1> HIDE DEF B
<1>4. End(F, s, 0) = 0
  BY <1>1, <1>2, <1>3
<1>5. \A n \in 0..Len(F) : End(F, s, n) \in Nat
  BY <1>3
<1>6. \A n \in 1..Len(F) : End(F, s, n) = End(F, s, n - 1) + FieldSize(F[n], s)
  <2> SUFFICES ASSUME NEW n \in 1..Len(F)
               PROVE  End(F, s, n) = End(F, s, n - 1) + FieldSize(F[n], s)
    OBVIOUS
  <2>0. n \in 0..Len(F) /\ n - 1 \in 0..Len(F)
    OBVIOUS
  <2>1. PICK u \in Seq({0, 1}), v \in Seq({0, 1}) : u = B[n - 1] /\ v = FieldBits(F[n], s, 0)
    BY <1>3, <2>0, ZeroFills, FieldFacts
  <2>2. B[n] = u \o v /\ Len(v) = FieldSize(F[n], s) /\ Len(u) = End(F, s, n - 1)
          /\ End(F, s, n) = Len(B[n])
    BY <1>2, <1>3, <2>0, <2>1, ZeroFills, FieldFacts
  <2>3. Len(u \o v) = Len(u) + Len(v)
    BY Concat
  <2> QED
    BY <2>2, <2>3
<1> QED
  BY <1>4, <1>5, <1>6

\* What is written last is behind what is written before.
LEMMA AllLie ==
  ASSUME NEW F \in Seq(NodeFields), NEW s, HasType(F, s), NEW pad \in Filling, NEW p \in Seq({0, 1}),
         Lies(BitsUpTo(F, s, pad)[Len(F)], p, 0)
  PROVE  \A n \in 1..Len(F) : Lies(FieldBits(F[n], s, pad), p, End(F, s, n - 1))
<1> DEFINE B     == BitsUpTo(F, s, pad)
           N     == Len(F)
           Wrong == {m \in 0..N : ~Lies(B[N - m], p, 0)}
<1>1. N \in Nat
  OBVIOUS
<1>2. \A n \in 1..N : B[n] = B[n - 1] \o FieldBits(F[n], s, pad)
  BY <1>1, BitsDefined
<1>3. \A n \in 0..N : B[n] \in Seq({0, 1}) /\ End(F, s, n) = Len(B[n])
  BY BitsFacts
<1>4. Lies(B[N], p, 0)
  OBVIOUS
<1>5. \A n \in 1..N : FieldBits(F[n], s, pad) \in Seq({0, 1})
  BY FieldFacts
<1> HIDE DEF B, N
<1>6. ASSUME NEW n \in 1..N, Lies(B[n], p, 0)
      PROVE  Lies(B[n - 1], p, 0) /\ Lies(FieldBits(F[n], s, pad), p, End(F, s, n - 1))
  <2>1. n - 1 \in 0..N
    BY <1>1
  <2>2. PICK u \in Seq({0, 1}), v \in Seq({0, 1}) : u = B[n - 1] /\ v = FieldBits(F[n], s, pad)
    BY <1>3, <1>5, <2>1
  <2>3. PICK at \in Nat : at = 0
    OBVIOUS
  <2>4. Lies(u \o v, p, at) /\ Len(u) = End(F, s, n - 1)
    BY <1>2, <1>3, <1>6, <2>1, <2>2, <2>3
  <2>5. Lies(u, p, at) /\ Lies(v, p, at + Len(u))
    BY <2>4, LiesPart
  <2>6. at + Len(u) = Len(u)
    BY <2>3
  <2> QED
    BY <2>2, <2>3, <2>4, <2>5, <2>6
<1>7. Wrong = {}
  <2> SUFFICES ASSUME Wrong # {}
               PROVE  FALSE
    OBVIOUS
  <2>1. PICK m \in Wrong : \A i \in Wrong : ~(i < m)
    <3>1. Wrong \in SUBSET Nat
      BY <1>1
    <3> HIDE DEF Wrong
    <3> QED
      BY <3>1, HasLeast
  <2>2. m \in 0..N /\ ~Lies(B[N - m], p, 0)
    OBVIOUS
  <2>3. m # 0
    <3>1. N - 0 = N
      BY <1>1
    <3> QED
      BY <1>4, <2>2, <3>1
  <2>4. m - 1 \in 0..N /\ m - 1 < m /\ N - (m - 1) \in 1..N /\ (N - (m - 1)) - 1 = N - m
    BY <1>1, <2>2, <2>3
  <2>5. Lies(B[N - (m - 1)], p, 0)
    BY <2>1, <2>4
  <2> QED
    BY <1>6, <2>2, <2>4, <2>5
<1>8. \A n \in 1..N : Lies(B[n], p, 0)
  <2> SUFFICES ASSUME NEW n \in 1..N
               PROVE  Lies(B[n], p, 0)
    OBVIOUS
  <2>1. N - n \in 0..N /\ N - (N - n) = n
    BY <1>1
  <2>2. N - n \notin Wrong
    BY <1>7
  <2> HIDE DEF B
  <2> QED
    BY <2>1, <2>2
<1> QED
  BY <1>6, <1>8 DEF N

\* What the types of this bus have in common.
Unique(F) == \A i, j \in 1..Len(F) : Key(F[i]) = Key(F[j]) => i = j
Tagged(F) == \A i \in 1..Len(F) : F[i].member # 0 => \E j \in 1..(i - 1) : Key(F[j]) = TagKey(F[i])
TailLast(F) ==
  \A i \in 1..Len(F) : F[i].t = "tail" /\ F[i].part = "" =>
    i = Len(F) /\ i > 1 /\ F[i].skip = 0 /\ F[1].t = "uint" /\ F[1].member = 0
Sound(F) == F \in Seq(NodeFields) /\ Unique(F) /\ Tagged(F) /\ TailLast(F)

\* p is the beginning of an encoded struct s, or all of it.
Carries(p, F, s) ==
  /\ p \in Seq({0, 1}) /\ HasType(F, s)
  /\ \E pad \in Filling : Lies(BitsUpTo(F, s, pad)[Len(F)], p, 0)

\* The first n fields of s have been decoded.
DecodedUpTo(d, F, s, n) ==
  /\ d.ok /\ d.at = End(F, s, n)
  /\ DOMAIN d.val = {Key(F[i]) : i \in {j \in 1..n : Present(F[j], s)}}
  /\ \A i \in 1..n : Present(F[i], s) => d.val[Key(F[i])] = AsHeard(F[i], s)

LEMMA TagHeard ==
  ASSUME NEW F, Sound(F), NEW s, HasType(F, s), NEW n \in 1..Len(F), F[n].member # 0
  PROVE  \E j \in 1..(n - 1) : /\ Key(F[j]) = TagKey(F[n]) /\ Present(F[j], s)
                               /\ AsHeard(F[j], s) = s[TagKey(F[n])]
<1>1. PICK j \in 1..(n - 1) : Key(F[j]) = TagKey(F[n])
  BY DEF Sound, Tagged
<1>2. j \in 1..Len(F) /\ F \in Seq(NodeFields)
  BY DEF Sound
<1>3. PICK f \in NodeFields : f = F[j] /\ TypedField(f, s)
  BY <1>2 DEF HasType
<1>4. f.name = "tag"
  BY <1>1, <1>3 DEF Key, TagKey
<1>5. f.t = "uint" /\ f.member = 0
  BY <1>4, UintShape
<1>6. Present(f, s)
  BY <1>5 DEF Present
<1>7. AsHeard(f, s) = s[Key(f)]
  BY <1>3, <1>4, <1>5, <1>6, TypedFacts
<1> QED
  BY <1>1, <1>3, <1>6, <1>7

LEMMA PresentHeard ==
  ASSUME NEW F, Sound(F), NEW s, HasType(F, s), NEW n \in 1..Len(F),
         NEW d, DecodedUpTo(d, F, s, n - 1)
  PROVE  Present(F[n], d.val) <=> Present(F[n], s)
<1>1. CASE F[n].member = 0
  BY <1>1 DEF Present
<1>2. CASE F[n].member # 0
  <2>1. PICK j \in 1..(n - 1) : /\ Key(F[j]) = TagKey(F[n]) /\ Present(F[j], s)
                                /\ AsHeard(F[j], s) = s[TagKey(F[n])]
    BY <1>2, TagHeard
  <2>2. d.val[Key(F[j])] = AsHeard(F[j], s)
    BY <2>1 DEF DecodedUpTo
  <2> QED
    BY <1>2, <2>1, <2>2 DEF Present
<1> QED
  BY <1>1, <1>2

LEMMA NoMore ==
  ASSUME NEW F, Sound(F), NEW s, HasType(F, s), NEW n \in 1..Len(F), ~Present(F[n], s),
         NEW d, DecodedUpTo(d, F, s, n - 1)
  PROVE  DecodedUpTo(d, F, s, n)
<1>1. F \in Seq(NodeFields)
  BY DEF Sound
<1>2. FieldSize(F[n], s) = 0
  BY DEF FieldSize
<1>3. End(F, s, n) = End(F, s, n - 1)
  <2>1. End(F, s, n) = End(F, s, n - 1) + FieldSize(F[n], s)
    BY <1>1, EndFacts
  <2>2. n - 1 \in 0..Len(F)
    BY <1>1
  <2>3. End(F, s, n - 1) \in Nat
    BY <1>1, <2>2, EndFacts
  <2> QED
    BY <1>2, <2>1, <2>3
<1>4. /\ \A j \in 1..(n - 1) : j \in 1..n
      /\ \A j \in 1..n : j = n \/ j \in 1..(n - 1)
  BY <1>1
<1>5. {j \in 1..n : Present(F[j], s)} = {j \in 1..(n - 1) : Present(F[j], s)}
  BY <1>4
<1>6. \A i \in 1..n : Present(F[i], s) => i \in 1..(n - 1)
  BY <1>4
<1> QED
  BY <1>3, <1>5, <1>6 DEF DecodedUpTo

LEMMA OneMore ==
  ASSUME NEW F, Sound(F), NEW s, HasType(F, s), NEW n \in 1..Len(F), Present(F[n], s),
         NEW d, DecodedUpTo(d, F, s, n - 1), NEW v, v = AsHeard(F[n], s)
  PROVE  DecodedUpTo(Good(End(F, s, n), [k \in {Key(F[n])} |-> v] ++ d.val), F, s, n)
<1> DEFINE here == [k \in {Key(F[n])} |-> v]
           all  == here ++ d.val
<1>0. F \in Seq(NodeFields)
  BY DEF Sound
<1>1. /\ \A j \in 1..(n - 1) : j \in 1..n /\ j \in 1..Len(F) /\ j # n
      /\ \A j \in 1..n : j = n \/ j \in 1..(n - 1)
      /\ n \in 1..n
  BY <1>0
<1>2. DOMAIN all = {Key(F[n])} \cup DOMAIN d.val
  BY DEF ++
<1>3. \A k \in DOMAIN all : all[k] = IF k = Key(F[n]) THEN v ELSE d.val[k]
  BY DEF ++
<1> HIDE DEF here, all
<1>4. DOMAIN all = {Key(F[i]) : i \in {j \in 1..n : Present(F[j], s)}}
  <2>1. DOMAIN d.val = {Key(F[i]) : i \in {j \in 1..(n - 1) : Present(F[j], s)}}
    BY DEF DecodedUpTo
  <2> QED
    BY <1>1, <1>2, <2>1
<1>5. ASSUME NEW i \in 1..n, Present(F[i], s)
      PROVE  all[Key(F[i])] = AsHeard(F[i], s)
  <2>1. Key(F[i]) \in DOMAIN all
    BY <1>4, <1>5
  <2>2. CASE i = n
    BY <1>3, <2>1, <2>2
  <2>3. CASE i # n
    <3>1. i \in 1..(n - 1)
      BY <1>1, <2>3
    <3>2. Key(F[i]) # Key(F[n])
      BY <1>1, <3>1 DEF Sound, Unique
    <3>3. d.val[Key(F[i])] = AsHeard(F[i], s)
      BY <1>5, <3>1 DEF DecodedUpTo
    <3> QED
      BY <1>3, <2>1, <3>2, <3>3
  <2> QED
    BY <2>2, <2>3
<1> QED
  BY <1>4, <1>5 DEF DecodedUpTo, Good, all, here

LEMMA NotBad == ~Bad.ok
BY DEF Bad

LEMMA GoodFacts ==
  ASSUME NEW at, NEW v
  PROVE  Good(at, v).ok /\ Good(at, v).at = at /\ Good(at, v).val = v
BY DEF Good

\* One field more of a payload: it is decoded if it is all there.
LEMMA ReadOn ==
  ASSUME NEW F, Sound(F), NEW s, NEW p, Carries(p, F, s), NEW n \in 1..Len(F),
         ~(F[n].t = "tail" /\ Present(F[n], s)),
         NEW d, DecodedUpTo(d, F, s, n - 1), End(F, s, n - 1) <= Len(p)
  PROVE  IF End(F, s, n) <= Len(p) THEN DecodedUpTo(Then(d, F[n], p), F, s, n)
         ELSE Then(d, F[n], p) = Bad
<1>1. F \in Seq(NodeFields) /\ HasType(F, s) /\ p \in Seq({0, 1})
  BY DEF Sound, Carries
<1>2. PICK pad \in Filling : Lies(BitsUpTo(F, s, pad)[Len(F)], p, 0)
  BY DEF Carries
<1>3. PICK f \in NodeFields : f = F[n] /\ TypedField(f, s)
  BY <1>1, FieldFacts, ZeroFills
<1>4. Present(f, d.val) <=> Present(f, s)
  BY <1>1, <1>3, PresentHeard
<1>5. d.ok /\ d.at = End(F, s, n - 1)
  BY DEF DecodedUpTo
<1>6. CASE ~Present(f, s)
  <2>1. Then(d, F[n], p) = d
    BY <1>3, <1>4, <1>5, <1>6 DEF Then
  <2>2. DecodedUpTo(d, F, s, n)
    BY <1>1, <1>3, <1>6, NoMore
  <2>3. End(F, s, n) = End(F, s, n - 1)
    BY <1>5, <2>2 DEF DecodedUpTo
  <2> QED
    BY <2>1, <2>2, <2>3
<1>7. CASE Present(f, s)
  <2>1. n - 1 \in 0..Len(F)
    BY <1>1
  <2>2. PICK at \in Nat : at = End(F, s, n - 1)
    BY <1>1, <2>1, EndFacts
  <2>3. Lies(FieldBits(f, s, pad), p, at)
    BY <1>1, <1>2, <1>3, <2>2, AllLie
  <2>4. End(F, s, n) = at + FieldSize(f, s)
    BY <1>1, <1>3, <2>2, EndFacts
  <2>5. f.t # "tail"
    BY <1>3, <1>7
  <2>6. ReadField(f, p, at + f.skip) =
          IF at + FieldSize(f, s) <= Len(p) THEN Good(at + FieldSize(f, s), AsHeard(f, s)) ELSE Bad
    BY <1>1, <1>3, <1>7, <2>3, <2>5, FieldRead
  <2>7. Then(d, F[n], p) = LET v == ReadField(f, p, at + f.skip)
                           IN  IF v.ok THEN Good(v.at, [k \in {Key(f)} |-> v.val] ++ d.val) ELSE Bad
    BY <1>3, <1>4, <1>5, <1>7, <2>2 DEF Then
  <2>8. CASE End(F, s, n) <= Len(p)
    <3>1. ReadField(f, p, at + f.skip) = Good(End(F, s, n), AsHeard(f, s))
      BY <2>4, <2>6, <2>8
    <3>2. Then(d, F[n], p) = Good(End(F, s, n), [k \in {Key(f)} |-> AsHeard(f, s)] ++ d.val)
      BY <2>7, <3>1, GoodFacts
    <3>3. PICK v : v = AsHeard(f, s)
      OBVIOUS
    <3>4. DecodedUpTo(Good(End(F, s, n), [k \in {Key(F[n])} |-> v] ++ d.val), F, s, n)
      BY <1>1, <1>3, <1>7, <3>3, OneMore
    <3> QED
      BY <1>3, <2>8, <3>2, <3>3, <3>4
  <2>9. CASE ~(End(F, s, n) <= Len(p))
    <3>1. ReadField(f, p, at + f.skip) = Bad
      BY <2>4, <2>6, <2>9
    <3> QED
      BY <2>7, <2>9, <3>1, NotBad
  <2> QED
    BY <2>8, <2>9
<1> QED
  BY <1>6, <1>7

\* The fields before the first array that takes what is left.
NoTail(F, s, m) == \A i \in 1..m : ~(F[i].t = "tail" /\ Present(F[i], s))

LEMMA ReadInTurn ==
  ASSUME NEW F, Sound(F), NEW s, NEW p, Carries(p, F, s), NEW m \in 0..Len(F), NoTail(F, s, m)
  PROVE  \A n \in 0..m : IF End(F, s, n) <= Len(p) THEN DecodedUpTo(After(F, p)[n], F, s, n)
                         ELSE After(F, p)[n] = Bad
<1> DEFINE A     == After(F, p)
           ok(n) == IF End(F, s, n) <= Len(p) THEN DecodedUpTo(A[n], F, s, n) ELSE A[n] = Bad
           Wrong == {n \in 0..m : ~ok(n)}
<1>1. F \in Seq(NodeFields) /\ HasType(F, s) /\ p \in Seq({0, 1}) /\ Len(F) \in Nat
  BY DEF Sound, Carries
<1>2. A[0] = Good(0, NoFields) /\ \A n \in 1..Len(F) : A[n] = Then(A[n - 1], F[n], p)
  BY <1>1, AfterDefined
<1> HIDE DEF A
<1>3. ok(0)
  <2>1. End(F, s, 0) = 0
    BY <1>1, EndFacts
  <2>2. DecodedUpTo(A[0], F, s, 0)
    <3>1. A[0].ok /\ A[0].at = 0 /\ A[0].val = NoFields
      BY <1>2 DEF Good
    <3>2. DOMAIN NoFields = {}
      BY DEF NoFields
    <3>3. {Key(F[i]) : i \in {j \in 1..0 : Present(F[j], s)}} = {}
      OBVIOUS
    <3>4. \A i \in 1..0 : FALSE
      OBVIOUS
    <3> QED
      BY <2>1, <3>1, <3>2, <3>3, <3>4 DEF DecodedUpTo
  <2>3. Len(p) \in Nat
    BY <1>1
  <2> QED
    BY <2>1, <2>2, <2>3
<1>4. ASSUME NEW n \in 1..m, ok(n - 1)
      PROVE  ok(n)
  <2>1. n \in 1..Len(F) /\ n - 1 \in 0..Len(F) /\ n \in 0..Len(F)
    BY <1>1
  <2>2. ~(F[n].t = "tail" /\ Present(F[n], s))
    BY DEF NoTail
  <2>3. A[n] = Then(A[n - 1], F[n], p)
    BY <1>2, <2>1
  <2>4. CASE End(F, s, n - 1) <= Len(p)
    <3>1. DecodedUpTo(A[n - 1], F, s, n - 1)
      BY <1>4, <2>4
    <3>2. IF End(F, s, n) <= Len(p) THEN DecodedUpTo(Then(A[n - 1], F[n], p), F, s, n)
          ELSE Then(A[n - 1], F[n], p) = Bad
      BY <2>1, <2>2, <2>4, <3>1, ReadOn
    <3> QED
      BY <2>3, <3>2
  <2>5. CASE ~(End(F, s, n - 1) <= Len(p))
    <3>1. A[n - 1] = Bad
      BY <1>4, <2>5
    <3>2. A[n] = Bad
      BY <2>3, <3>1, NotBad DEF Then
    <3>3. ~(End(F, s, n) <= Len(p))
      <4>1. End(F, s, n) = End(F, s, n - 1) + FieldSize(F[n], s) /\ End(F, s, n - 1) \in Nat
        BY <1>1, <2>1, EndFacts
      <4>2. FieldSize(F[n], s) \in Nat
        BY <1>1, <2>1, FieldFacts, ZeroFills
      <4>3. Len(p) \in Nat
        BY <1>1
      <4> QED
        BY <2>5, <4>1, <4>2, <4>3
    <3> QED
      BY <3>2, <3>3
  <2> QED
    BY <2>4, <2>5
<1> HIDE DEF ok
<1>5. Wrong = {}
  <2> SUFFICES ASSUME Wrong # {}
               PROVE  FALSE
    OBVIOUS
  <2>1. PICK n \in Wrong : \A i \in Wrong : ~(i < n)
    <3>1. Wrong \in SUBSET Nat
      OBVIOUS
    <3> HIDE DEF Wrong
    <3> QED
      BY <3>1, HasLeast
  <2>2. n \in 0..m /\ ~ok(n) /\ n # 0
    BY <1>3
  <2>3. n \in 1..m /\ n - 1 \in 0..m /\ n - 1 < n
    BY <2>2
  <2>4. ok(n - 1)
    BY <2>1, <2>3
  <2> QED
    BY <1>4, <2>2, <2>3, <2>4
<1> QED
  BY <1>5 DEF ok, A

LEMMA EndGrows ==
  ASSUME NEW F \in Seq(NodeFields), NEW s, HasType(F, s), NEW m \in 0..Len(F)
  PROVE  \A n \in m..Len(F) : End(F, s, m) <= End(F, s, n)
<1> DEFINE Wrong == {n \in m..Len(F) : ~(End(F, s, m) <= End(F, s, n))}
<1>1. \A n \in 0..Len(F) : End(F, s, n) \in Nat
  BY EndFacts
<1>2. \A n \in 1..Len(F) : End(F, s, n - 1) <= End(F, s, n)
  <2> SUFFICES ASSUME NEW n \in 1..Len(F)
               PROVE  End(F, s, n - 1) <= End(F, s, n)
    OBVIOUS
  <2>1. End(F, s, n) = End(F, s, n - 1) + FieldSize(F[n], s)
    BY EndFacts
  <2>2. FieldSize(F[n], s) \in Nat
    BY FieldFacts, ZeroFills
  <2>3. n - 1 \in 0..Len(F)
    OBVIOUS
  <2> QED
    BY <1>1, <2>1, <2>2, <2>3
<1>3. Wrong = {}
  <2> SUFFICES ASSUME Wrong # {}
               PROVE  FALSE
    OBVIOUS
  <2>1. PICK n \in Wrong : \A i \in Wrong : ~(i < n)
    <3>1. Wrong \in SUBSET Nat
      OBVIOUS
    <3> HIDE DEF Wrong
    <3> QED
      BY <3>1, HasLeast
  <2>2. n \in m..Len(F) /\ ~(End(F, s, m) <= End(F, s, n))
    OBVIOUS
  <2>3. n # m
    BY <1>1, <2>2
  <2>4. n \in 1..Len(F) /\ n - 1 \in m..Len(F) /\ n - 1 < n /\ n \in 0..Len(F) /\ n - 1 \in 0..Len(F)
    BY <2>2, <2>3
  <2>5. End(F, s, m) <= End(F, s, n - 1)
    BY <2>1, <2>4
  <2>6. End(F, s, n - 1) <= End(F, s, n)
    BY <1>2, <2>4
  <2>7. End(F, s, m) \in Nat /\ End(F, s, n) \in Nat /\ End(F, s, n - 1) \in Nat
    BY <1>1, <2>4
  <2> QED
    BY <2>2, <2>5, <2>6, <2>7
<1> QED
  BY <1>3

\* The payload of a struct, its first k bytes, and what it takes.
All(F, s)   == End(F, s, Len(F))
Whole8(F, s) == Bytes(All(F, s))

LEMMA BytesFacts ==
  ASSUME NEW n \in Nat
  PROVE  Bytes(n) \in Nat /\ n <= 8 * Bytes(n) /\ 8 * Bytes(n) < n + 8
BY DEF Bytes

LEMMA PayloadFacts ==
  ASSUME NEW m, Type(m.kind) \in Seq(NodeFields), HasType(Type(m.kind), m.body), NEW pad \in Filling
  PROVE  /\ Payload(m, pad) \in Seq({0, 1})
         /\ Len(Payload(m, pad)) = 8 * Whole8(Type(m.kind), m.body)
         /\ Lies(BitsUpTo(Type(m.kind), m.body, pad)[Len(Type(m.kind))], Payload(m, pad), 0)
<1> DEFINE F == Type(m.kind)
           bits == BitsUpTo(F, m.body, pad)[Len(F)]
<1>1. Len(F) \in 0..Len(F)
  OBVIOUS
<1>2. bits \in Seq({0, 1}) /\ Len(bits) = All(F, m.body)
  BY <1>1, BitsFacts DEF All
<1>3. Payload(m, pad) = [b \in 1..(8 * Bytes(Len(bits))) |-> IF b > Len(bits) THEN pad ELSE bits[b]]
  BY DEF Payload
<1>4. pad \in {0, 1}
  BY DEF Filling
<1> HIDE DEF bits
<1>5. PICK x \in Seq({0, 1}) : x = bits
  BY <1>2
<1>6. PICK n \in Nat, t \in Nat : n = Len(x) /\ t = 8 * Bytes(n) /\ n <= t
  <2>1. PICK n \in Nat : n = Len(x)
    OBVIOUS
  <2> QED
    BY <2>1, BytesFacts
<1>7. Payload(m, pad) = [b \in 1..t |-> IF b > n THEN pad ELSE x[b]]
  BY <1>3, <1>5, <1>6
<1>8. \A b \in 1..t : (IF b > n THEN pad ELSE x[b]) \in {0, 1}
  <2> SUFFICES ASSUME NEW b \in 1..t, ~(b > n)
               PROVE  x[b] \in {0, 1}
    BY <1>4
  <2>1. b \in 1..n
    OBVIOUS
  <2> QED
    BY <1>6, <2>1
<1>9. Payload(m, pad) \in Seq({0, 1}) /\ Len(Payload(m, pad)) = t
  BY <1>7, <1>8
<1>10. \A b \in 1..n : 0 + b = b /\ b \in 1..t /\ ~(b > n)
  BY <1>6
<1>11. Lies(x, Payload(m, pad), 0)
  BY <1>6, <1>7, <1>10 DEF Lies
<1> QED
  BY <1>2, <1>5, <1>6, <1>9, <1>11 DEF bits, Whole8

\* The first k bytes of the payload of m.
Beginning(p, m, k) == \E pad \in Filling : p = [b \in 1..(8 * k) |-> Payload(m, pad)[b]]

LEMMA BeginningFacts ==
  ASSUME NEW m, Sound(Type(m.kind)), HasType(Type(m.kind), m.body),
         NEW k \in 0..Whole8(Type(m.kind), m.body), NEW p, Beginning(p, m, k)
  PROVE  Carries(p, Type(m.kind), m.body) /\ p \in Seq({0, 1}) /\ Len(p) = 8 * k
<1> DEFINE F == Type(m.kind)
<1>0. F \in Seq(NodeFields)
  BY DEF Sound
<1>1. PICK pad \in Filling : p = [b \in 1..(8 * k) |-> Payload(m, pad)[b]]
  BY DEF Beginning
<1>2. PICK x \in Seq({0, 1}) : x = Payload(m, pad)
  BY <1>0, PayloadFacts
<1>3. Len(x) = 8 * Whole8(F, m.body) /\ Lies(BitsUpTo(F, m.body, pad)[Len(F)], x, 0)
  BY <1>0, <1>2, PayloadFacts
<1>4. Whole8(F, m.body) \in Nat
  <2>1. Len(F) \in 0..Len(F)
    BY <1>0
  <2>2. All(F, m.body) \in Nat
    BY <1>0, <2>1, EndFacts DEF All
  <2> QED
    BY <2>2, BytesFacts DEF Whole8
<1>5. PICK w \in Nat : w = Whole8(F, m.body) /\ k \in 0..w /\ Len(x) = 8 * w
  BY <1>3, <1>4
<1>6. \A b \in 1..(8 * k) : b \in 1..(8 * w)
  BY <1>5
<1>7. p = [b \in 1..(8 * k) |-> x[b]]
  BY <1>1, <1>2
<1>8. \A b \in 1..(8 * k) : x[b] \in {0, 1}
  BY <1>5, <1>6
<1>9. p \in Seq({0, 1}) /\ Len(p) = 8 * k
  BY <1>7, <1>8
<1>11. BitsUpTo(F, m.body, pad)[Len(F)] \in Seq({0, 1})
  <2>1. Len(F) \in 0..Len(F)
    BY <1>0
  <2> QED
    BY <1>0, <2>1, BitsFacts
<1>12. PICK bits \in Seq({0, 1}) : bits = BitsUpTo(F, m.body, pad)[Len(F)]
  BY <1>11
<1>13. \A b \in 1..Len(bits) : 0 + b <= Len(p) => p[0 + b] = bits[b]
  <2> SUFFICES ASSUME NEW b \in 1..Len(bits), 0 + b <= Len(p)
               PROVE  p[0 + b] = bits[b]
    OBVIOUS
  <2>1. 0 + b = b /\ b \in 1..(8 * k)
    BY <1>9
  <2>2. b <= Len(x)
    BY <1>5, <1>6, <2>1
  <2>3. x[0 + b] = bits[b]
    BY <1>3, <1>12, <2>1, <2>2 DEF Lies
  <2> QED
    BY <1>7, <2>1, <2>3
<1>14. Lies(bits, p, 0)
  BY <1>13 DEF Lies
<1> QED
  BY <1>9, <1>12, <1>14 DEF Carries

LEMMA DecodedField ==
  ASSUME NEW f \in NodeFields, NEW s, TypedField(f, s), NEW b,
         Present(f, s) => Key(f) \in DOMAIN b /\ b[Key(f)] = AsHeard(f, s)
  PROVE  SameField(f, s, b)
<1> SUFFICES ASSUME Present(f, s)
             PROVE  SameField(f, s, b)
  BY DEF SameField
<1>1. Key(f) \in DOMAIN b /\ b[Key(f)] = AsHeard(f, s)
  OBVIOUS
<1>2. CASE f.t = "uint"
  <2>1. PICK v \in Number : v = s[Key(f)]
    BY <1>2 DEF TypedField
  <2>2. PICK w \in {1, 2, 3, 8, 13, 16, 32, 40, 64} : w = f.width
    BY <1>2, UintShape
  <2>3. b[Key(f)] = Saturate(v, w)
    BY <1>1, <1>2, <2>1, <2>2 DEF AsHeard
  <2>4. Saturate(v, w) = v \/ (v > Saturate(v, w) /\ Saturate(v, w) = 2^w - 1)
    BY SaturateCases
  <2> QED
    BY <1>1, <1>2, <2>1, <2>2, <2>3, <2>4 DEF SameField
<1>3. CASE f.t # "uint"
  BY <1>1, <1>3 DEF SameField, AsHeard
<1> QED
  BY <1>2, <1>3

LEMMA DecodedIsSame ==
  ASSUME NEW F, Sound(F), NEW s, HasType(F, s), NEW d, DecodedUpTo(d, F, s, Len(F))
  PROVE  Same(F, s, d.val)
<1>1. F \in Seq(NodeFields) /\ DOMAIN F = 1..Len(F)
  BY DEF Sound
<1>2. ASSUME NEW i \in 1..Len(F)
      PROVE  SameField(F[i], s, d.val)
  <2>1. PICK f \in NodeFields : f = F[i] /\ TypedField(f, s)
    BY <1>1, FieldFacts, ZeroFills
  <2>2. Present(f, s) => Key(f) \in DOMAIN d.val /\ d.val[Key(f)] = AsHeard(f, s)
    BY <2>1 DEF DecodedUpTo
  <2> QED
    BY <2>1, <2>2, DecodedField
<1> QED
  BY <1>1, <1>2 DEF Same

\* A type ends in an array that takes what is left, or has none.
EndsInTail(F) == Len(F) > 0 /\ F[Len(F)].t = "tail" /\ F[Len(F)].part = ""
LastKey(F)    == Key(F[Len(F)])

\* A message without such arrays is decoded if all of it is there.
LEMMA FixedOutcome ==
  ASSUME NEW F, Sound(F), NEW s, NEW p, Carries(p, F, s), NoTail(F, s, Len(F)),
         NEW k \in 0..Whole8(F, s), Len(p) = 8 * k
  PROVE  /\ k = Whole8(F, s) => DecodedUpTo(After(F, p)[Len(F)], F, s, Len(F))
         /\ k # Whole8(F, s) => After(F, p)[Len(F)] = Bad
<1>1. F \in Seq(NodeFields) /\ HasType(F, s)
  BY DEF Sound, Carries
<1>2. Len(F) \in 0..Len(F)
  BY <1>1
<1>3. IF All(F, s) <= Len(p) THEN DecodedUpTo(After(F, p)[Len(F)], F, s, Len(F))
      ELSE After(F, p)[Len(F)] = Bad
  BY <1>2, ReadInTurn DEF All
<1>4. PICK n \in Nat : n = All(F, s)
  BY <1>1, <1>2, EndFacts DEF All
<1>5. PICK w \in Nat : w = Whole8(F, s) /\ n <= 8 * w /\ 8 * w < n + 8
  BY <1>4, BytesFacts DEF Whole8
<1>6. k \in 0..w
  BY <1>5
<1>7. /\ k = w => n <= 8 * k
      /\ k # w => ~(n <= 8 * k)
  BY <1>5, <1>6
<1> QED
  BY <1>3, <1>4, <1>5, <1>7

LEMMA Division ==
  ASSUME NEW x \in Nat
  PROVE  \E j \in Nat, spare \in 0..7 : x = 8 * j + spare
<1>1. x \div 8 \in Nat
  OBVIOUS
<1>2. PICK j \in Nat : j = x \div 8
  BY <1>1
<1>3. 8 * j <= x /\ x < 8 * j + 8
  BY <1>2
<1>4. x - 8 * j \in 0..7 /\ x = 8 * j + (x - 8 * j)
  BY <1>3
<1> QED
  BY <1>4

LEMMA TailFits ==
  ASSUME NEW from \in Nat, NEW n \in Nat, NEW w \in Nat, NEW k \in 0..w, NEW j \in Nat,
         NEW spare \in 0..7,
         from + 8 * n <= 8 * w, 8 * w < from + 8 * n + 8, 8 * k = from + 8 * j + spare
  PROVE  j \in 0..n /\ (k = w <=> j = n)
OBVIOUS

\* The last array has taken what is left, u.
TailTaken(d, before, F, u) ==
  d.ok /\ d.val = [k \in {LastKey(F)} |-> u] ++ before.val

LEMMA EmptyTail ==
  ASSUME NEW f \in NodeFields, f.t = "tail", NEW at \in Nat
  PROVE  ReadField(f, <<>>, at) = Bad
<1>1. PICK w \in 1..64 : w = f.width
  BY ArrayShape
<1>2. Read(<<>>, at, w) = Bad
  <2>1. Len(<<>>) = 0
    OBVIOUS
  <2>2. at + w > 0
    OBVIOUS
  <2> QED
    BY <2>1, <2>2 DEF Read
<1>3. ReadField(f, <<>>, at) =
        LET n == Read(<<>>, at, w) IN IF n.ok THEN ReadBytes(<<>>, n.at, n.val) ELSE Bad
  BY <1>1 DEF ReadField, ReadLength
<1> QED
  BY <1>2, <1>3, NotBad

\* A message that ends in one: only that can be shorter.
LEMMA TailOutcome ==
  ASSUME NEW F, Sound(F), NEW s, NEW p, Carries(p, F, s), EndsInTail(F), NoTail(F, s, Len(F) - 1),
         NEW k \in 0..Whole8(F, s), Len(p) = 8 * k
  PROVE  \/ k # Whole8(F, s) /\ After(F, p)[Len(F)] = Bad
         \/ /\ DecodedUpTo(After(F, p)[Len(F) - 1], F, s, Len(F) - 1)
            /\ \E n \in 0..Len(s[LastKey(F)]) :
                 /\ TailTaken(After(F, p)[Len(F)], After(F, p)[Len(F) - 1], F, First(s[LastKey(F)], n))
                 /\ k = Whole8(F, s) <=> n = Len(s[LastKey(F)])
<1> DEFINE N == Len(F)
           A == After(F, p)
<1>1. F \in Seq(NodeFields) /\ HasType(F, s) /\ p \in Seq({0, 1}) /\ N \in Nat
  BY DEF Sound, Carries
<1>2. N > 1 /\ F[N].skip = 0 /\ F[1].t = "uint" /\ F[1].member = 0
  <2>0. N > 0
    BY DEF EndsInTail
  <2>1. N \in 1..N
    BY <1>1, <2>0
  <2> QED
    BY <2>1 DEF Sound, TailLast, EndsInTail
<1>3. N \in 1..N /\ N - 1 \in 0..N /\ N - 1 \in 0..(N - 1) /\ N \in 0..N /\ N - 1 \in 1..N /\ 1 \in 1..N
        /\ 1 \in 0..N /\ N - 1 \in 1..(N - 1) /\ 1 - 1 = 0
  BY <1>1, <1>2
<1>4. A[N] = Then(A[N - 1], F[N], p)
  BY <1>1, <1>3, AfterDefined
<1>5. PICK f \in NodeFields : f = F[N] /\ TypedField(f, s)
  BY <1>1, <1>3, FieldFacts, ZeroFills
<1>6. f.t = "tail" /\ f.part = "" /\ f.skip = 0 /\ f.member = 0 /\ LastKey(F) = Key(f)
  BY <1>2, <1>5, FieldShape DEF EndsInTail, LastKey
<1>7. Present(f, s) /\ \A d : Present(f, d)
  BY <1>6 DEF Present
<1>8. PICK v \in Seq(Byte) : v = s[LastKey(F)]
  BY <1>5, <1>6, <1>7, TypedFacts
<1>9. PICK from \in Nat : from = End(F, s, N - 1)
  BY <1>1, <1>3, EndFacts
<1> HIDE DEF A
<1>10. IF from <= Len(p) THEN DecodedUpTo(A[N - 1], F, s, N - 1) ELSE A[N - 1] = Bad
  BY <1>3, <1>9, ReadInTurn DEF A
<1>11. from > 0
  <2>1. End(F, s, 1) = End(F, s, 0) + FieldSize(F[1], s) /\ End(F, s, 0) = 0
    BY <1>1, <1>3, EndFacts
  <2>2. PICK w \in 1..64 : w = F[1].width
    BY <1>1, <1>2, <1>3, UintShape
  <2>3. FieldSize(F[1], s) = F[1].skip + w /\ F[1].skip \in Nat
    <3>1. Present(F[1], s)
      BY <1>2 DEF Present
    <3>2. F[1] \in NodeFields
      BY <1>1, <1>3
    <3> QED
      BY <1>2, <2>2, <3>1, <3>2, FieldShape DEF FieldSize
  <2>4. End(F, s, 1) <= from
    BY <1>1, <1>3, <1>9, EndGrows
  <2>5. PICK a \in Nat : a = F[1].skip
    BY <2>3
  <2>6. End(F, s, 1) = a + w
    BY <2>1, <2>3, <2>5
  <2> QED
    BY <2>4, <2>6
<1>12. All(F, s) = from + 8 * Len(v)
  <2>1. All(F, s) = from + FieldSize(f, s)
    BY <1>1, <1>3, <1>5, <1>9, EndFacts DEF All
  <2>2. FieldSize(f, s) = 0 + (0 + 8 * Len(v))
    BY <1>6, <1>7, <1>8 DEF FieldSize, LengthSize
  <2>3. Len(v) \in Nat
    BY <1>8
  <2> QED
    BY <2>1, <2>2, <2>3
<1>13. PICK w \in Nat : w = Whole8(F, s) /\ from + 8 * Len(v) <= 8 * w /\ 8 * w < from + 8 * Len(v) + 8
  <2>1. PICK n \in Nat : n = from + 8 * Len(v)
    <3>1. Len(v) \in Nat
      BY <1>8
    <3> QED
      BY <3>1
  <2> QED
    BY <1>12, <2>1, BytesFacts DEF Whole8
<1>14. CASE ~(from <= Len(p))
  <2>1. A[N] = Bad
    BY <1>4, <1>10, <1>14, NotBad DEF Then
  <2>2. k # w
    <3>1. Len(v) \in Nat
      BY <1>8
    <3> QED
      BY <1>13, <1>14, <3>1
  <2> QED
    BY <1>13, <2>1, <2>2 DEF A
<1>15. CASE from <= Len(p)
  <2>1. DecodedUpTo(A[N - 1], F, s, N - 1)
    BY <1>10, <1>15
  <2>2. A[N - 1].ok /\ A[N - 1].at = from
    BY <1>9, <2>1 DEF DecodedUpTo
  <2>3. A[N] = LET r == ReadField(f, p, from)
               IN  IF r.ok THEN Good(r.at, [i \in {Key(f)} |-> r.val] ++ A[N - 1].val) ELSE Bad
    <3>1. from + f.skip = from
      <4>1. from + 0 = from
        OBVIOUS
      <4> QED
        BY <1>6, <4>1
    <3> QED
      BY <1>4, <1>5, <1>7, <2>2, <3>1 DEF Then
  <2>4. PICK j \in Nat, spare \in 0..7 : Len(p) - from = 8 * j + spare
    <3>1. Len(p) - from \in Nat
      BY <1>1, <1>15
    <3> QED
      BY <3>1, Division
  <2>5. 8 * k = from + 8 * j + spare
    BY <2>4
  <2>6. j \in 0..Len(v) /\ (k = w <=> j = Len(v))
    <3>1. PICK n \in Nat : n = Len(v)
      BY <1>8
    <3>2. k \in 0..w
      BY <1>13
    <3>3. from + 8 * n <= 8 * w /\ 8 * w < from + 8 * n + 8
      BY <1>13, <3>1
    <3>4. j \in 0..n /\ (k = w <=> j = n)
      BY <2>5, <3>2, <3>3, TailFits
    <3> QED
      BY <3>1, <3>4
  <2>7. p # <<>>
    <3>1. Len(p) # 0
      BY <1>1, <1>11, <1>15
    <3> QED
      BY <3>1
  <2>8. Left(p, from, j)
    BY <2>5 DEF Left
  <2>9. ReadField(f, p, from) = Good(from + 8 * j, First(v, j))
    <3>1. PICK pad \in Filling : Lies(BitsUpTo(F, s, pad)[Len(F)], p, 0)
      BY DEF Carries
    <3>2. Lies(FieldBits(f, s, pad), p, from)
      BY <1>1, <1>3, <1>5, <1>9, <3>1, AllLie
    <3>3. Lies(Written(f, s), p, from + f.skip)
      BY <1>1, <1>5, <1>7, <3>2, WrittenLies
    <3>4. from + f.skip = from
      <4>1. from + 0 = from
        OBVIOUS
      <4> QED
        BY <1>6, <4>1
    <3>5. Lies(Written(f, s), p, from)
      BY <3>3, <3>4
    <3>6. v = s[Key(f)]
      BY <1>6, <1>8
    <3>7. TailAt(f, s, p, from)
      BY <1>1, <1>5, <1>6, <2>7, <3>5 DEF TailAt
    <3>8. j \in 0..Len(s[Key(f)])
      BY <2>6, <3>6
    <3>9. ReadField(f, p, from) = Good(from + 8 * j, First(s[Key(f)], j))
      BY <2>8, <3>7, <3>8, TailRead
    <3> QED
      BY <3>6, <3>9
  <2>10. TailTaken(A[N], A[N - 1], F, First(v, j))
    <3>1. PICK u : u = First(v, j)
      OBVIOUS
    <3>2. ReadField(f, p, from) = Good(from + 8 * j, u)
      BY <2>9, <3>1
    <3>3. A[N] = Good(from + 8 * j, [i \in {Key(f)} |-> u] ++ A[N - 1].val)
      BY <2>3, <3>2, GoodFacts
    <3>4. A[N].ok /\ A[N].val = [i \in {Key(f)} |-> u] ++ A[N - 1].val
      BY <3>3, GoodFacts
    <3> QED
      BY <1>6, <3>1, <3>4 DEF TailTaken
  <2> QED
    BY <1>8, <1>13, <2>1, <2>6, <2>10 DEF A
<1> QED
  BY <1>14, <1>15

-----------------------------------------------------------------------------
(* Types are put together *)

LEMMA PartsTyped ==
  ASSUME NEW F \in Seq(NodeFields), NEW G \in Seq(NodeFields)
  PROVE  /\ F \o G \in Seq(NodeFields) /\ Len(F \o G) = Len(F) + Len(G)
         /\ \A i \in 1..Len(F) : (F \o G)[i] = F[i]
         /\ \A i \in 1..Len(G) : (F \o G)[Len(F) + i] = G[i]
         /\ \A i \in 1..Len(F \o G) : i \in 1..Len(F) \/ \E j \in 1..Len(G) : i = Len(F) + j
<1>1. /\ F \o G \in Seq(NodeFields) /\ Len(F \o G) = Len(F) + Len(G)
      /\ \A i \in 1..Len(F) : (F \o G)[i] = F[i]
      /\ \A i \in 1..Len(G) : (F \o G)[Len(F) + i] = G[i]
  BY Concat
<1>2. PICK a \in Nat, b \in Nat : a = Len(F) /\ b = Len(G)
  OBVIOUS
<1>3. \A i \in 1..(a + b) : i \in 1..a \/ \E j \in 1..b : i = a + j
  <2> SUFFICES ASSUME NEW i \in 1..(a + b), i \notin 1..a
               PROVE  \E j \in 1..b : i = a + j
    OBVIOUS
  <2>1. i - a \in 1..b /\ i = a + (i - a)
    OBVIOUS
  <2> QED
    BY <2>1
<1> QED
  BY <1>1, <1>2, <1>3

LEMMA SplitTypes ==
  ASSUME NEW F \in Seq(NodeFields), NEW G \in Seq(NodeFields), NEW s
  PROVE  HasType(F \o G, s) <=> HasType(F, s) /\ HasType(G, s)
<1>1. /\ F \o G \in Seq(NodeFields) /\ Len(F \o G) = Len(F) + Len(G)
      /\ \A i \in 1..Len(F) : (F \o G)[i] = F[i]
      /\ \A i \in 1..Len(G) : (F \o G)[Len(F) + i] = G[i]
      /\ \A i \in 1..Len(F \o G) : i \in 1..Len(F) \/ \E j \in 1..Len(G) : i = Len(F) + j
  BY PartsTyped
<1>2. DOMAIN F = 1..Len(F) /\ DOMAIN G = 1..Len(G)
  OBVIOUS
<1>3. DOMAIN (F \o G) = 1..Len(F \o G)
  BY <1>1
<1>4. /\ \A i \in 1..Len(F) : i \in 1..Len(F \o G)
      /\ \A i \in 1..Len(G) : Len(F) + i \in 1..Len(F \o G)
  <2>1. PICK a \in Nat, b \in Nat : a = Len(F) /\ b = Len(G)
    OBVIOUS
  <2>2. (\A i \in 1..a : i \in 1..(a + b)) /\ (\A i \in 1..b : a + i \in 1..(a + b))
    OBVIOUS
  <2> QED
    BY <1>1, <2>1, <2>2
<1>5. ASSUME HasType(F \o G, s)
      PROVE  HasType(F, s) /\ HasType(G, s)
  <2>1. \A i \in 1..Len(F) : TypedField(F[i], s)
    BY <1>1, <1>3, <1>4, <1>5 DEF HasType
  <2>2. \A i \in 1..Len(G) : TypedField(G[i], s)
    BY <1>1, <1>3, <1>4, <1>5 DEF HasType
  <2> QED
    BY <1>2, <2>1, <2>2 DEF HasType
<1>6. ASSUME HasType(F, s), HasType(G, s)
      PROVE  HasType(F \o G, s)
  <2>1. \A i \in 1..Len(F) : TypedField(F[i], s)
    BY <1>2, <1>6 DEF HasType
  <2>2. \A i \in 1..Len(G) : TypedField(G[i], s)
    BY <1>2, <1>6 DEF HasType
  <2>3. \A i \in 1..Len(F \o G) : TypedField((F \o G)[i], s)
    BY <1>1, <2>1, <2>2
  <2> QED
    BY <1>3, <2>3 DEF HasType
<1> QED
  BY <1>5, <1>6

LEMMA SplitEnds ==
  ASSUME NEW F \in Seq(NodeFields), NEW G \in Seq(NodeFields), NEW s, HasType(F \o G, s)
  PROVE  /\ \A n \in 0..Len(F) : End(F \o G, s, n) = End(F, s, n)
         /\ \A n \in 0..Len(G) : End(F \o G, s, Len(F) + n) = All(F, s) + End(G, s, n)
<1> DEFINE H == F \o G
           first(n)  == End(H, s, n) = End(F, s, n)
           second(n) == End(H, s, Len(F) + n) = All(F, s) + End(G, s, n)
<1>1. HasType(F, s) /\ HasType(G, s)
  BY SplitTypes
<1>2. PICK a \in Nat, b \in Nat : a = Len(F) /\ b = Len(G)
  OBVIOUS
<1>3. /\ H \in Seq(NodeFields) /\ Len(H) = a + b
      /\ \A i \in 1..a : H[i] = F[i]
      /\ \A i \in 1..b : H[a + i] = G[i]
  BY <1>2, PartsTyped
<1> HIDE DEF H
<1>4. /\ End(F, s, 0) = 0 /\ \A n \in 0..a : End(F, s, n) \in Nat
      /\ \A n \in 1..a : End(F, s, n) = End(F, s, n - 1) + FieldSize(F[n], s)
  BY <1>1, <1>2, EndFacts
<1>5. /\ End(G, s, 0) = 0 /\ \A n \in 0..b : End(G, s, n) \in Nat
      /\ \A n \in 1..b : End(G, s, n) = End(G, s, n - 1) + FieldSize(G[n], s)
  BY <1>1, <1>2, EndFacts
<1>6. /\ End(H, s, 0) = 0
      /\ \A n \in 1..(a + b) : End(H, s, n) = End(H, s, n - 1) + FieldSize(H[n], s)
  BY <1>3, EndFacts DEF H
<1>7. \A n \in 1..b : FieldSize(G[n], s) \in Nat
  BY <1>1, <1>2, FieldFacts, ZeroFills
<1>8. \A n \in 0..a : first(n)
  <2> DEFINE Wrong == {n \in 0..a : ~first(n)}
  <2> SUFFICES ASSUME Wrong # {}
               PROVE  FALSE
    OBVIOUS
  <2> HIDE DEF first
  <2>1. PICK n \in Wrong : \A i \in Wrong : ~(i < n)
    <3>1. Wrong \in SUBSET Nat
      OBVIOUS
    <3> HIDE DEF Wrong
    <3> QED
      BY <3>1, HasLeast
  <2>2. n \in 0..a /\ ~first(n)
    OBVIOUS
  <2>3. n # 0
    BY <1>4, <1>6, <2>2 DEF first
  <2>4. n \in 1..a /\ n - 1 \in 0..a /\ n - 1 < n /\ n \in 1..(a + b)
    BY <2>2, <2>3
  <2>5. first(n - 1)
    BY <2>1, <2>4
  <2> QED
    BY <1>3, <1>4, <1>6, <2>2, <2>4, <2>5 DEF first
<1>9. All(F, s) = End(F, s, a) /\ All(F, s) \in Nat
  <2>1. a \in 0..a
    OBVIOUS
  <2> QED
    BY <1>2, <1>4, <2>1 DEF All
<1>10. \A n \in 0..b : second(n)
  <2> DEFINE Wrong == {n \in 0..b : ~second(n)}
  <2> SUFFICES ASSUME Wrong # {}
               PROVE  FALSE
    OBVIOUS
  <2> HIDE DEF second
  <2>1. PICK n \in Wrong : \A i \in Wrong : ~(i < n)
    <3>1. Wrong \in SUBSET Nat
      OBVIOUS
    <3> HIDE DEF Wrong
    <3> QED
      BY <3>1, HasLeast
  <2>2. n \in 0..b /\ ~second(n)
    OBVIOUS
  <2>3. n # 0
    <3>1. a \in 0..a /\ a + 0 = a
      OBVIOUS
    <3>2. End(H, s, a) = All(F, s)
      BY <1>8, <1>9, <3>1
    <3>3. second(0)
      BY <1>2, <1>5, <1>9, <3>1, <3>2 DEF second
    <3> QED
      BY <2>2, <3>3
  <2>4. n \in 1..b /\ n - 1 \in 0..b /\ n - 1 < n /\ a + n \in 1..(a + b) /\ (a + n) - 1 = a + (n - 1)
    BY <2>2, <2>3
  <2>5. End(H, s, a + (n - 1)) = All(F, s) + End(G, s, n - 1)
    BY <1>2, <2>1, <2>4 DEF second
  <2>6. End(H, s, a + n) = End(H, s, a + (n - 1)) + FieldSize(G[n], s)
    BY <1>3, <1>6, <2>4
  <2>7. End(G, s, n) = End(G, s, n - 1) + FieldSize(G[n], s) /\ End(G, s, n - 1) \in Nat
          /\ FieldSize(G[n], s) \in Nat
    BY <1>5, <1>7, <2>4
  <2>8. End(H, s, a + n) = All(F, s) + End(G, s, n)
    BY <1>9, <2>5, <2>6, <2>7
  <2> QED
    BY <1>2, <2>2, <2>8 DEF second
<1> QED
  BY <1>2, <1>8, <1>10 DEF H

LEMMA SplitAll ==
  ASSUME NEW F \in Seq(NodeFields), NEW G \in Seq(NodeFields), NEW s, HasType(F \o G, s)
  PROVE  /\ HasType(F, s) /\ HasType(G, s)
         /\ All(F, s) \in Nat /\ All(G, s) \in Nat /\ All(F \o G, s) = All(F, s) + All(G, s)
<1>1. HasType(F, s) /\ HasType(G, s)
  BY SplitTypes
<1>2. Len(F) \in 0..Len(F) /\ Len(G) \in 0..Len(G) /\ Len(F \o G) = Len(F) + Len(G)
  BY PartsTyped
<1>3. All(F, s) \in Nat /\ All(G, s) \in Nat
  BY <1>1, <1>2, EndFacts DEF All
<1>4. End(F \o G, s, Len(F) + Len(G)) = All(F, s) + End(G, s, Len(G))
  BY <1>2, SplitEnds
<1> QED
  BY <1>1, <1>2, <1>3, <1>4 DEF All

KeysIn(F, K)     == \A i \in 1..Len(F) : Key(F[i]) \in K
NoRootTail(F)    == \A i \in 1..Len(F) : ~(F[i].t = "tail" /\ F[i].part = "")
AtMost(f, n)     == \A s : TypedField(f, s) => FieldSize(f, s) <= n
Inner(f)         == f.member = 0 /\ ~(f.t = "tail" /\ f.part = "")
RootTail(f)      == f.t = "tail" /\ f.part = "" /\ f.skip = 0
StartsFixed(F)   == Len(F) > 0 /\ F[1].t = "uint" /\ F[1].member = 0

\* A part of a type: its keys are in K, it takes n bits at most, and no array in it
\* takes what is left of the message.
Made(F, K, n) ==
  /\ F \in Seq(NodeFields) /\ Unique(F) /\ Tagged(F) /\ KeysIn(F, K) /\ NoRootTail(F)
  /\ \A s : HasType(F, s) => All(F, s) <= n

LEMMA SoundParts ==
  ASSUME NEW F \in Seq(NodeFields), NEW G \in Seq(NodeFields), NEW K, NEW L,
         Unique(F), Unique(G), Tagged(F), Tagged(G), K \cap L = {}, KeysIn(F, K), KeysIn(G, L)
  PROVE  Unique(F \o G) /\ Tagged(F \o G) /\ KeysIn(F \o G, K \cup L)
<1> DEFINE H == F \o G
<1>1. PICK a \in Nat, b \in Nat : a = Len(F) /\ b = Len(G)
  OBVIOUS
<1>2. /\ Len(H) = a + b
      /\ \A i \in 1..a : H[i] = F[i]
      /\ \A i \in 1..b : H[a + i] = G[i]
      /\ \A i \in 1..(a + b) : i \in 1..a \/ \E j \in 1..b : i = a + j
  BY <1>1, PartsTyped
<1> HIDE DEF H
<1>3. /\ \A i \in 1..a : Key(H[i]) \in K /\ Key(H[i]) \notin L
      /\ \A i \in 1..b : Key(H[a + i]) \in L /\ Key(H[a + i]) \notin K
  BY <1>1, <1>2 DEF KeysIn
<1>4. Unique(H)
  <2> SUFFICES ASSUME NEW i \in 1..(a + b), NEW j \in 1..(a + b), Key(H[i]) = Key(H[j])
               PROVE  i = j
    BY <1>2 DEF Unique
  <2>1. CASE i \in 1..a
    <3>1. j \in 1..a
      BY <1>2, <1>3, <2>1
    <3>2. Key(F[i]) = Key(F[j])
      BY <1>2, <2>1, <3>1
    <3> QED
      BY <1>1, <2>1, <3>1, <3>2 DEF Unique
  <2>2. CASE i \notin 1..a
    <3>1. PICK k \in 1..b : i = a + k
      BY <1>2, <2>2
    <3>2. j \notin 1..a
      BY <1>3, <3>1
    <3>3. PICK l \in 1..b : j = a + l
      BY <1>2, <3>2
    <3>4. Key(G[k]) = Key(G[l])
      BY <1>2, <3>1, <3>3
    <3>5. k = l
      BY <1>1, <3>4 DEF Unique
    <3> QED
      BY <3>1, <3>3, <3>5
  <2> QED
    BY <2>1, <2>2
<1>5. Tagged(H)
  <2> SUFFICES ASSUME NEW i \in 1..(a + b), H[i].member # 0
               PROVE  \E j \in 1..(i - 1) : Key(H[j]) = TagKey(H[i])
    BY <1>2 DEF Tagged
  <2>1. CASE i \in 1..a
    <3>1. PICK j \in 1..(i - 1) : Key(F[j]) = TagKey(F[i])
      BY <1>1, <1>2, <2>1 DEF Tagged
    <3>2. j \in 1..a
      BY <2>1
    <3> QED
      BY <1>2, <2>1, <3>1, <3>2
  <2>2. CASE i \notin 1..a
    <3>1. PICK k \in 1..b : i = a + k
      BY <1>2, <2>2
    <3>2. PICK l \in 1..(k - 1) : Key(G[l]) = TagKey(G[k])
      BY <1>1, <1>2, <3>1 DEF Tagged
    <3>3. l \in 1..b /\ a + l \in 1..(i - 1)
      BY <3>1
    <3>4. Key(H[a + l]) = TagKey(H[i])
      BY <1>2, <3>1, <3>2, <3>3
    <3> QED
      BY <3>3, <3>4
  <2> QED
    BY <2>1, <2>2
<1>6. \A i \in 1..(a + b) : Key(H[i]) \in K \cup L
  BY <1>2, <1>3
<1> QED
  BY <1>2, <1>4, <1>5, <1>6 DEF H, KeysIn

LEMMA Compose ==
  ASSUME NEW F, NEW G, NEW K, NEW L, NEW m \in Nat, NEW n \in Nat,
         Made(F, K, m), Made(G, L, n), K \cap L = {}
  PROVE  Made(F \o G, K \cup L, m + n)
<1>1. F \in Seq(NodeFields) /\ G \in Seq(NodeFields)
  BY DEF Made
<1>2. F \o G \in Seq(NodeFields)
  BY <1>1, PartsTyped
<1>3. Unique(F \o G) /\ Tagged(F \o G) /\ KeysIn(F \o G, K \cup L)
  BY <1>1, SoundParts DEF Made
<1>4. NoRootTail(F \o G)
  <2>1. /\ \A i \in 1..Len(F) : (F \o G)[i] = F[i]
        /\ \A i \in 1..Len(G) : (F \o G)[Len(F) + i] = G[i]
        /\ \A i \in 1..Len(F \o G) : i \in 1..Len(F) \/ \E j \in 1..Len(G) : i = Len(F) + j
    BY <1>1, PartsTyped
  <2>2. NoRootTail(F) /\ NoRootTail(G)
    BY DEF Made
  <2> QED
    BY <2>1, <2>2 DEF NoRootTail
<1>5. ASSUME NEW s, HasType(F \o G, s)
      PROVE  All(F \o G, s) <= m + n
  <2>1. /\ HasType(F, s) /\ HasType(G, s)
        /\ All(F, s) \in Nat /\ All(G, s) \in Nat /\ All(F \o G, s) = All(F, s) + All(G, s)
    BY <1>1, <1>5, SplitAll
  <2>2. All(F, s) <= m /\ All(G, s) <= n
    BY <2>1 DEF Made
  <2> QED
    BY <2>1, <2>2
<1> QED
  BY <1>2, <1>3, <1>4, <1>5 DEF Made

\* A message of such parts, and one with an array of bytes at its end.
LEMMA MadeIsSound ==
  ASSUME NEW F, NEW K, NEW n, Made(F, K, n)
  PROVE  Sound(F) /\ ~EndsInTail(F)
<1>1. F \in Seq(NodeFields) /\ Unique(F) /\ Tagged(F)
  BY DEF Made
<1>2. \A i \in 1..Len(F) : ~(F[i].t = "tail" /\ F[i].part = "")
  BY DEF Made, NoRootTail
<1>3. Len(F) > 0 => Len(F) \in 1..Len(F)
  BY <1>1
<1> QED
  BY <1>1, <1>2, <1>3 DEF Sound, TailLast, EndsInTail

LEMMA OneField ==
  ASSUME NEW f \in NodeFields
  PROVE  /\ <<f>> \in Seq(NodeFields) /\ Len(<<f>>) = 1 /\ <<f>>[1] = f
         /\ \A s : HasType(<<f>>, s) => TypedField(f, s) /\ All(<<f>>, s) = FieldSize(f, s)
<1>1. <<f>> \in Seq(NodeFields) /\ Len(<<f>>) = 1 /\ <<f>>[1] = f
  OBVIOUS
<1>2. ASSUME NEW s, HasType(<<f>>, s)
      PROVE  TypedField(f, s) /\ All(<<f>>, s) = FieldSize(f, s)
  <2>1. 1 \in 1..Len(<<f>>) /\ 1 - 1 = 0
    OBVIOUS
  <2>2. End(<<f>>, s, 0) = 0 /\ End(<<f>>, s, 1) = End(<<f>>, s, 1 - 1) + FieldSize(<<f>>[1], s)
    BY <1>1, <1>2, <2>1, EndFacts
  <2>3. FieldSize(f, s) \in Nat /\ TypedField(f, s)
    BY <1>1, <1>2, <2>1, FieldFacts, ZeroFills
  <2>4. End(<<f>>, s, 1) = FieldSize(f, s)
    BY <1>1, <2>1, <2>2, <2>3
  <2> QED
    BY <1>1, <2>3, <2>4 DEF All
<1> QED
  BY <1>1, <1>2

LEMMA MadeOfOne ==
  ASSUME NEW f \in NodeFields, Inner(f), NEW n \in Nat, AtMost(f, n)
  PROVE  Made(<<f>>, {Key(f)}, n)
<1>1. /\ <<f>> \in Seq(NodeFields) /\ Len(<<f>>) = 1 /\ <<f>>[1] = f
      /\ \A s : HasType(<<f>>, s) => TypedField(f, s) /\ All(<<f>>, s) = FieldSize(f, s)
  BY OneField
<1>2. \A i \in 1..Len(<<f>>) : i = 1
  <2>1. \A i \in 1..1 : i = 1
    OBVIOUS
  <2> QED
    BY <1>1, <2>1
<1>3. Unique(<<f>>) /\ Tagged(<<f>>)
  BY <1>1, <1>2 DEF Unique, Tagged, Inner
<1>4. \A i \in 1..Len(<<f>>) : Key(<<f>>[i]) \in {Key(f)}
        /\ ~(<<f>>[i].t = "tail" /\ <<f>>[i].part = "")
  BY <1>1, <1>2 DEF Inner
<1> QED
  BY <1>1, <1>3, <1>4 DEF Made, KeysIn, NoRootTail, AtMost

LEMMA AddTail ==
  ASSUME NEW F, NEW K, NEW m \in Nat, Made(F, K, m), StartsFixed(F),
         NEW f \in NodeFields, RootTail(f), Key(f) \notin K,
         NEW n \in Nat, AtMost(f, n)
  PROVE  /\ Sound(F \o <<f>>) /\ EndsInTail(F \o <<f>>) /\ LastKey(F \o <<f>>) = Key(f)
         /\ Len(F \o <<f>>) - 1 = Len(F) /\ \A i \in 1..Len(F) : (F \o <<f>>)[i] = F[i]
         /\ \A s : HasType(F \o <<f>>, s) => All(F \o <<f>>, s) <= m + n
<1> DEFINE G == <<f>>
           H == F \o G
<1>1. /\ G \in Seq(NodeFields) /\ Len(G) = 1 /\ G[1] = f
      /\ \A s : HasType(G, s) => TypedField(f, s) /\ All(G, s) = FieldSize(f, s)
  BY OneField
<1> HIDE DEF G
<1>2. F \in Seq(NodeFields) /\ Unique(F) /\ Tagged(F) /\ KeysIn(F, K) /\ NoRootTail(F)
  BY DEF Made
<1>4. PICK a \in Nat : a = Len(F) /\ a > 0
  BY <1>2 DEF StartsFixed
<1>3. \A i \in 1..a : Key(F[i]) \in K /\ ~(F[i].t = "tail" /\ F[i].part = "")
  BY <1>2, <1>4 DEF KeysIn, NoRootTail
<1>5. /\ H \in Seq(NodeFields) /\ Len(H) = a + 1
      /\ \A i \in 1..a : H[i] = F[i]
      /\ H[a + 1] = f
      /\ \A i \in 1..(a + 1) : i \in 1..a \/ i = a + 1
  <2>1. /\ H \in Seq(NodeFields) /\ Len(H) = a + 1
        /\ \A i \in 1..a : H[i] = F[i]
        /\ \A i \in 1..1 : H[a + i] = G[i]
    <3>1. PICK x \in Seq(NodeFields), y \in Seq(NodeFields) : x = F /\ y = G
      BY <1>1, <1>2
    <3>2. /\ x \o y \in Seq(NodeFields) /\ Len(x \o y) = Len(x) + Len(y)
          /\ \A i \in 1..Len(x) : (x \o y)[i] = x[i]
          /\ \A i \in 1..Len(y) : (x \o y)[Len(x) + i] = y[i]
      BY PartsTyped
    <3> QED
      BY <1>1, <1>4, <3>1, <3>2
  <2>2. 1 \in 1..1 /\ \A i \in 1..(a + 1) : i \in 1..a \/ i = a + 1
    OBVIOUS
  <2> QED
    BY <1>1, <2>1, <2>2
<1>6. Unique(G) /\ Tagged(G) /\ KeysIn(G, {Key(f)})
  <2>1. \A i \in 1..1 : i = 1
    OBVIOUS
  <2>2. f.member = 0
    BY FieldShape DEF RootTail
  <2> QED
    BY <1>1, <2>1, <2>2 DEF Unique, Tagged, KeysIn
<1>7. Unique(H) /\ Tagged(H)
  <2>1. K \cap {Key(f)} = {}
    OBVIOUS
  <2> QED
    BY <1>1, <1>2, <1>6, <2>1, SoundParts
<1> HIDE DEF H
<1>8. 1 \in 1..a /\ a + 1 > 1 /\ a + 1 > 0 /\ (a + 1) - 1 = a
  BY <1>4
<1>9. H[1].t = "uint" /\ H[1].member = 0
  BY <1>5, <1>8 DEF StartsFixed
<1>10. TailLast(H)
  <2> SUFFICES ASSUME NEW i \in 1..(a + 1), H[i].t = "tail", H[i].part = ""
               PROVE  i = a + 1 /\ i > 1 /\ H[i].skip = 0
    BY <1>5, <1>9 DEF TailLast
  <2>1. i \notin 1..a
    BY <1>3, <1>4, <1>5
  <2> QED
    BY <1>5, <1>8, <2>1 DEF RootTail
<1>11. Sound(H)
  BY <1>5, <1>7, <1>10 DEF Sound
<1>12. EndsInTail(H) /\ LastKey(H) = Key(f)
  BY <1>5, <1>8 DEF EndsInTail, LastKey, RootTail
<1>13. ASSUME NEW s, HasType(H, s)
       PROVE  All(H, s) <= m + n
  <2>1. /\ HasType(F, s) /\ HasType(G, s)
        /\ All(F, s) \in Nat /\ All(G, s) \in Nat /\ All(H, s) = All(F, s) + All(G, s)
    BY <1>1, <1>2, <1>13, SplitAll DEF H
  <2>2. All(F, s) <= m
    BY <2>1 DEF Made
  <2>3. All(G, s) <= n
    BY <1>1, <2>1 DEF AtMost
  <2> QED
    BY <2>1, <2>2, <2>3
<1> QED
  BY <1>4, <1>5, <1>8, <1>11, <1>12, <1>13 DEF H, G

\* Fields are changed where they are in a union.
LEMMA Skipping ==
  ASSUME NEW f \in NodeFields, NEW skip \in 0..6
  PROVE  [f EXCEPT !.skip = skip] \in NodeFields
<1> DEFINE g == [f EXCEPT !.skip = skip]
<1>1. /\ g \in [t : {"uint", "items", "bytes", "tail"}, part : Parts, name : Names, width : 0..64,
               n : 0..255, skip : 0..6, member : 0..4]
      /\ g.t = f.t /\ g.part = f.part /\ g.name = f.name /\ g.width = f.width /\ g.n = f.n
      /\ g.member = f.member
  BY DEF NodeFields
<1> HIDE DEF g
<1>2. Shaped(f)
  BY DEF NodeFields
<1>3. AtRoot(g) <=> AtRoot(f)
  BY <1>1 DEF AtRoot
<1>4. Shaped(g)
  BY <1>1, <1>2, <1>3 DEF Shaped
<1> QED
  BY <1>1, <1>4 DEF NodeFields, g

LEMMA InUnion ==
  ASSUME NEW f \in NodeFields, NEW k \in 0..4, ~AtRoot(f), f.name # "tag"
  PROVE  [f EXCEPT !.member = k] \in NodeFields
<1> DEFINE g == [f EXCEPT !.member = k]
<1>1. /\ g \in [t : {"uint", "items", "bytes", "tail"}, part : Parts, name : Names, width : 0..64,
               n : 0..255, skip : 0..6, member : 0..4]
      /\ g.t = f.t /\ g.part = f.part /\ g.name = f.name /\ g.width = f.width /\ g.n = f.n
  BY DEF NodeFields
<1> HIDE DEF g
<1>2. Shaped(f)
  BY DEF NodeFields
<1>3. ~AtRoot(g)
  BY <1>1 DEF AtRoot
<1>4. Shaped(g)
  BY <1>1, <1>2, <1>3 DEF Shaped
<1> QED
  BY <1>1, <1>4 DEF NodeFields, g

TagWidth(name, w) == name = "tag" => w \in {2, 3}

LEMMA UintIsField ==
  ASSUME NEW part \in Parts, NEW name \in Names, NEW w \in {1, 2, 3, 8, 13, 16, 32, 40, 64},
         TagWidth(name, w)
  PROVE  LET f == Uint(part, name, w)
         IN  /\ f \in NodeFields /\ ~AtRoot(f) /\ f.t = "uint" /\ f.part = part /\ f.name = name
             /\ f.width = w /\ f.skip = 0 /\ f.member = 0
<1> DEFINE f == Uint(part, name, w)
<1>1. w \in 0..64 /\ 0 \in 0..255 /\ 0 \in 0..6 /\ 0 \in 0..4
  OBVIOUS
<1>2. f = [t |-> "uint", part |-> part, name |-> name, width |-> w, n |-> 0, skip |-> 0, member |-> 0]
  BY DEF Uint, Item
<1> HIDE DEF f
<1>3. ~AtRoot(f)
  BY <1>2 DEF AtRoot
<1>4. Shaped(f)
  BY <1>2, <1>3 DEF Shaped, TagWidth
<1>5. f \in NodeFields
  BY <1>1, <1>2, <1>4 DEF NodeFields
<1> QED
  BY <1>2, <1>3, <1>5 DEF f

LEMMA UintField ==
  ASSUME NEW part \in Parts, NEW name \in Names, name # "tag",
         NEW w \in {1, 2, 3, 8, 13, 16, 32, 40, 64}
  PROVE  /\ Uint(part, name, w) \in NodeFields /\ Inner(Uint(part, name, w))
         /\ Key(Uint(part, name, w)) = <<part, name>> /\ AtMost(Uint(part, name, w), w)
<1> DEFINE f == Uint(part, name, w)
<1>1. w \in 0..64 /\ w \in Nat /\ 0 \in 0..255 /\ 0 \in 0..6 /\ 0 \in 0..4 /\ 0 + w = w /\ w <= w
        /\ 0 <= w
  OBVIOUS
<1>2. /\ f.t = "uint" /\ f.part = part /\ f.name = name /\ f.width = w /\ f.n = 0
      /\ f.skip = 0 /\ f.member = 0
  BY DEF Uint, Item
<1>3. f \in NodeFields
  <2>1. ~AtRoot(f)
    BY <1>2 DEF AtRoot
  <2> QED
    BY <1>1, <2>1 DEF Uint, Item, NodeFields, Shaped
<1> HIDE DEF f
<1>4. AtMost(f, w)
  BY <1>1, <1>2 DEF AtMost, FieldSize
<1> QED
  BY <1>2, <1>3, <1>4 DEF f, Key, Inner

LEMMA TagField ==
  ASSUME NEW part \in Parts, NEW w \in {2, 3}, NEW skip \in 0..6
  PROVE  LET f == UnionTag(part, w, skip)
         IN  /\ f \in NodeFields /\ f.t = "uint" /\ f.member = 0 /\ f.name = "tag" /\ f.part = part
             /\ f.width = w /\ f.skip = skip
<1>1. PICK u \in {1, 2, 3, 8, 13, 16, 32, 40, 64}, name \in Names :
        u = w /\ name = "tag" /\ TagWidth(name, u)
  <2>1. w \in {1, 2, 3, 8, 13, 16, 32, 40, 64}
    OBVIOUS
  <2>2. TagWidth("tag", w)
    BY DEF TagWidth
  <2>3. "tag" \in Names
    BY DEF Names
  <2> QED
    BY <2>1, <2>2, <2>3
<1>2. PICK g \in NodeFields : g = Uint(part, name, u) /\ g.t = "uint" /\ g.part = part
        /\ g.name = name
                              /\ g.width = u /\ g.skip = 0 /\ g.member = 0
  BY <1>1, UintIsField
<1>3. UnionTag(part, w, skip) = [g EXCEPT !.skip = skip]
  BY <1>1, <1>2 DEF UnionTag
<1>4. [g EXCEPT !.skip = skip] \in NodeFields
  BY Skipping
<1>5. DOMAIN g = {"t", "part", "name", "width", "n", "skip", "member"}
  BY DEF NodeFields
<1> QED
  BY <1>1, <1>2, <1>3, <1>4, <1>5

LEMMA MemberField ==
  ASSUME NEW part \in Parts, NEW name \in Names, name # "tag", NEW w \in {8, 32, 64}, NEW k \in 1..4
  PROVE  LET f == Member(k, Uint(part, name, w))
         IN  /\ f \in NodeFields /\ f.t = "uint" /\ f.member = k /\ f.name = name /\ f.part = part
             /\ f.width = w /\ f.skip = 0
<1> DEFINE f == Member(k, Uint(part, name, w))
<1>1. w \in 0..64 /\ w \in {1, 2, 3, 8, 13, 16, 32, 40, 64} /\ 0 \in 0..255 /\ k \in 0..4 /\ 0 \in 0..6
  OBVIOUS
<1>2. f = [t |-> "uint", part |-> part, name |-> name, width |-> w, n |-> 0, skip |-> 0, member |-> k]
  BY DEF Member, Uint, Item
<1> HIDE DEF f
<1>3. f \in NodeFields
  <2>1. ~AtRoot(f)
    BY <1>2 DEF AtRoot
  <2> QED
    BY <1>1, <1>2, <2>1 DEF NodeFields, Shaped
<1> QED
  BY <1>2, <1>3 DEF f

\* Not in the message itself.
Nested(part) == part # ""

LEMMA ItemsField ==
  ASSUME NEW part \in Parts, NEW name \in Names, name # "tag"
  PROVE  /\ Items(part, name, 16) \in NodeFields /\ Inner(Items(part, name, 16))
         /\ Key(Items(part, name, 16)) = <<part, name>> /\ AtMost(Items(part, name, 16), 128)
<1> DEFINE f == Items(part, name, 16)
<1>1. 0 \in 0..64 /\ 16 \in 0..255 /\ 0 \in 0..6 /\ 0 \in 0..4 /\ 0 + 8 * 16 <= 128 /\ 0 <= 128
  OBVIOUS
<1>2. /\ f.t = "items" /\ f.part = part /\ f.name = name /\ f.n = 16
      /\ f.skip = 0 /\ f.member = 0
  BY DEF Items, Item
<1>3. f \in NodeFields
  <2>1. ~AtRoot(f)
    BY <1>2 DEF AtRoot
  <2> QED
    BY <1>1, <2>1 DEF Items, Item, NodeFields, Shaped
<1> HIDE DEF f
<1>4. AtMost(f, 128)
  BY <1>1, <1>2 DEF AtMost, FieldSize
<1> QED
  BY <1>2, <1>3, <1>4 DEF f, Key, Inner

\* Arrays: behind their length, or at the end.
LEMMA ArrayAtMost ==
  ASSUME NEW f \in NodeFields, f.t \in {"bytes", "tail"}, f.skip = 0, NEW n \in 0..255, n = f.n,
         NEW w \in 0..64, w = LengthSize(f)
  PROVE  AtMost(f, w + 8 * n)
<1> SUFFICES ASSUME NEW s, TypedField(f, s)
             PROVE  FieldSize(f, s) <= w + 8 * n
  BY DEF AtMost
<1>1. CASE ~Present(f, s)
  <2>1. FieldSize(f, s) = 0
    BY <1>1 DEF FieldSize
  <2> QED
    BY <2>1
<1>2. CASE Present(f, s)
  <2>1. PICK k \in 0..n : k = Len(s[Key(f)])
    BY <1>2, TypedFacts
  <2>2. FieldSize(f, s) = 0 + (w + 8 * k)
    BY <1>2, <2>1 DEF FieldSize
  <2> QED
    BY <2>2
<1> QED
  BY <1>1, <1>2

Plain               == Names \ {"tag"}
ArrayWidths         == {5, 7, 8}
ArrayKinds          == {"bytes", "tail"}
ArraySize(w, n)     == w + 8 * n
Room(n, w)          == n < 2^w
InnerArray(t, part) == t = "bytes" \/ part # ""
RootArray(t, part)  == t = "tail" /\ part = ""

BytesSize(n)        == 8 * n
IsArray(f, part, name, w, n, t) ==
  /\ part \in Parts /\ name \in Plain /\ w \in ArrayWidths /\ n \in 0..255 /\ Room(n, w)
  /\ t \in ArrayKinds /\ f = Item(t, part, name, w, n)

LEMMA ArrayFields ==
  ASSUME NEW part, NEW name, NEW w, NEW n, NEW t, NEW f, IsArray(f, part, name, w, n, t)
  PROVE  /\ f \in NodeFields /\ Key(f) = <<part, name>> /\ f.t = t /\ f.part = part /\ f.skip = 0
         /\ f.member = 0
         /\ InnerArray(t, part) => Inner(f) /\ AtMost(f, ArraySize(w, n))
         /\ RootArray(t, part) => RootTail(f) /\ AtMost(f, BytesSize(n))
<1>7. part \in Parts /\ n \in 0..255 /\ Room(n, w)
  BY DEF IsArray
<1>0. w \in {5, 7, 8} /\ t \in {"bytes", "tail"} /\ name \in Names /\ name # "tag"
  BY DEF IsArray, ArrayWidths, ArrayKinds, Plain
<1>1. w \in 0..64 /\ 0 \in 0..64 /\ n \in 0..255 /\ 0 \in 0..4 /\ 0 \in 0..6 /\ 0 + 8 * n = 8 * n
  BY <1>0, <1>7
<1>2. f = [t |-> t, part |-> part, name |-> name, width |-> w, n |-> n, skip |-> 0, member |-> 0]
  BY DEF IsArray, Item
<1>3. f \in NodeFields
  <2>1. AtRoot(f) => f.member = 0
    BY <1>2 DEF AtRoot
  <2> QED
    BY <1>0, <1>1, <1>2, <1>7, <2>1 DEF NodeFields, Shaped, Room
<1>4. /\ f.t = t /\ f.part = part /\ f.name = name /\ f.width = w /\ f.n = n /\ f.skip = 0
      /\ f.member = 0
  BY <1>2
<1>5. ASSUME InnerArray(t, part)
      PROVE  Inner(f) /\ AtMost(f, ArraySize(w, n))
  <2>1. LengthSize(f) = w
    BY <1>4, <1>5 DEF LengthSize, InnerArray
  <2>2. Inner(f)
    BY <1>4, <1>5 DEF Inner, InnerArray
  <2> QED
    BY <1>0, <1>1, <1>3, <1>4, <2>1, <2>2, ArrayAtMost DEF ArraySize
<1>6. ASSUME RootArray(t, part)
      PROVE  RootTail(f) /\ AtMost(f, BytesSize(n))
  <2>1. LengthSize(f) = 0
    BY <1>4, <1>6 DEF LengthSize, RootArray
  <2>2. RootTail(f)
    BY <1>4, <1>6 DEF RootTail, RootArray
  <2>3. PICK z \in 0..64 : z = 0
    OBVIOUS
  <2>4. AtMost(f, z + 8 * n)
    BY <1>0, <1>1, <1>3, <1>4, <2>1, <2>3, ArrayAtMost
  <2> QED
    BY <1>1, <2>2, <2>3, <2>4 DEF BytesSize
<1> QED
  BY <1>3, <1>4, <1>5, <1>6 DEF Key

LEMMA ArrayIsField ==
  ASSUME NEW part \in Parts, NEW name \in Plain, NEW w \in ArrayWidths, NEW n \in 0..255,
         Room(n, w), NEW t \in ArrayKinds
  PROVE  Item(t, part, name, w, n) \in NodeFields
<1>1. PICK f : IsArray(f, part, name, w, n, t)
  BY DEF IsArray
<1>2. f \in NodeFields
  BY <1>1, ArrayFields
<1> QED
  BY <1>1, <1>2 DEF IsArray

LEMMA MemberTail ==
  ASSUME NEW part \in Parts, Nested(part), NEW k \in 1..4
  PROVE  LET f == Member(k, TailArray(part, "string_value", 8, 128))
         IN  /\ f \in NodeFields /\ f.t = "tail" /\ f.member = k /\ f.name = "string_value"
             /\ f.part = part
             /\ f.width = 8 /\ f.n = 128 /\ f.skip = 0
<1>1. PICK w \in ArrayWidths, n \in 0..255 : w = 8 /\ n = 128 /\ n < 2^w
  <2>1. 8 \in ArrayWidths /\ 128 \in 0..255 /\ 128 < 2^8
    BY DEF ArrayWidths
  <2> QED
    BY <2>1
<1>8. PICK t \in ArrayKinds, name \in Plain : t = "tail" /\ name = "string_value" /\ name # "tag"
  <2>1. "tail" \in ArrayKinds
    BY DEF ArrayKinds
  <2>2. "string_value" \in Plain
    BY DEF Names, Plain
  <2>3. "string_value" # "tag"
    OBVIOUS
  <2> QED
    BY <2>1, <2>2, <2>3
<1>2. PICK g \in NodeFields : g = Item(t, part, name, w, n)
  <2>1. Room(n, w)
    BY <1>1 DEF Room
  <2>2. Item(t, part, name, w, n) \in NodeFields
    BY <2>1, ArrayIsField
  <2> QED
    BY <2>2
<1>3. g = [t |-> t, part |-> part, name |-> name, width |-> w, n |-> n, skip |-> 0, member |-> 0]
  BY <1>2 DEF Item
<1>4. ~AtRoot(g) /\ g.name # "tag"
  BY <1>8, <1>3 DEF AtRoot, Nested
<1>5. k \in 0..4
  OBVIOUS
<1>6. [g EXCEPT !.member = k] \in NodeFields
  BY <1>4, <1>5, InUnion
<1>7. Member(k, TailArray(part, "string_value", 8, 128)) = [g EXCEPT !.member = k]
  BY <1>1, <1>2, <1>8 DEF Member, TailArray
<1> QED
  BY <1>1, <1>3, <1>6, <1>7, <1>8

\* Parts of a type, field by field.
KeysAt(part, N) == {<<part, x>> : x \in N}

UintWidths == {1, 2, 3, 8, 13, 16, 32, 40, 64}

LEMMA WidthsAreNumbers == ASSUME NEW w \in UintWidths PROVE w \in Nat
BY DEF UintWidths

LEMMA PlainUint ==
  ASSUME NEW part \in Parts, NEW name \in Plain, NEW w \in UintWidths
  PROVE  LET f == Uint(part, name, w)
         IN  /\ f \in NodeFields /\ Inner(f) /\ Key(f) = <<part, name>> /\ AtMost(f, w)
             /\ f.t = "uint" /\ f.member = 0
<1>1. name \in Names /\ name # "tag"
  BY DEF Plain
<1>2. LET f == Uint(part, name, w)
      IN  f \in NodeFields /\ Inner(f) /\ Key(f) = <<part, name>> /\ AtMost(f, w)
  BY <1>1, UintField DEF UintWidths
<1>3. Uint(part, name, w).t = "uint" /\ Uint(part, name, w).member = 0
  BY DEF Uint, Item
<1> QED
  BY <1>2, <1>3

LEMMA OneUint ==
  ASSUME NEW part \in Parts, NEW name \in Plain, NEW w \in UintWidths
  PROVE  Made(<<Uint(part, name, w)>>, KeysAt(part, {name}), w) /\ StartsFixed(<<Uint(part, name, w)>>)
<1>1. PICK f \in NodeFields : /\ f = Uint(part, name, w) /\ Inner(f) /\ Key(f) = <<part, name>>
                              /\ AtMost(f, w) /\ f.t = "uint" /\ f.member = 0
  BY PlainUint
<1>2. PICK n \in Nat : n = w
  BY WidthsAreNumbers
<1>3. Made(<<f>>, {Key(f)}, n)
  BY <1>1, <1>2, MadeOfOne
<1>4. KeysAt(part, {name}) = {Key(f)}
  BY <1>1 DEF KeysAt
<1>5. Len(<<f>>) > 0 /\ <<f>>[1] = f
  OBVIOUS
<1>6. StartsFixed(<<f>>)
  BY <1>1, <1>5 DEF StartsFixed
<1> QED
  BY <1>1, <1>2, <1>3, <1>4, <1>6

LEMMA FixedStart ==
  ASSUME NEW F \in Seq(NodeFields), NEW G \in Seq(NodeFields), StartsFixed(F)
  PROVE  StartsFixed(F \o G)
<1>1. PICK a \in Nat, b \in Nat : a = Len(F) /\ b = Len(G)
  OBVIOUS
<1>2. Len(F \o G) = a + b /\ \A i \in 1..a : (F \o G)[i] = F[i]
  BY <1>1, PartsTyped
<1>3. a > 0
  BY <1>1 DEF StartsFixed
<1>4. 1 \in 1..a /\ a + b > 0
  BY <1>3
<1> QED
  BY <1>2, <1>4 DEF StartsFixed

IsNew(name, N) == name \notin N

LEMMA AddUint ==
  ASSUME NEW part \in Parts, NEW name \in Plain, NEW w \in UintWidths,
         NEW F, NEW N, NEW m \in Nat, Made(F, KeysAt(part, N), m), IsNew(name, N), StartsFixed(F)
  PROVE  /\ Made(F \o <<Uint(part, name, w)>>, KeysAt(part, N \cup {name}), m + w)
         /\ StartsFixed(F \o <<Uint(part, name, w)>>)
<1>1. PICK n \in Nat : n = w
  BY WidthsAreNumbers
<1>2. Made(<<Uint(part, name, w)>>, KeysAt(part, {name}), n)
  BY <1>1, OneUint
<1>3. KeysAt(part, N) \cap KeysAt(part, {name}) = {}
  BY DEF KeysAt, IsNew
<1>4. KeysAt(part, N \cup {name}) = KeysAt(part, N) \cup KeysAt(part, {name})
  BY DEF KeysAt
<1>5. Made(F \o <<Uint(part, name, w)>>, KeysAt(part, N) \cup KeysAt(part, {name}), m + n)
  BY <1>2, <1>3, Compose
<1>6. F \in Seq(NodeFields) /\ <<Uint(part, name, w)>> \in Seq(NodeFields)
  BY <1>2 DEF Made
<1>7. StartsFixed(F \o <<Uint(part, name, w)>>)
  BY <1>6, FixedStart
<1> QED
  BY <1>1, <1>4, <1>5, <1>7

LEMMA LongerByOne ==
  ASSUME NEW S, NEW s \in Seq(S), NEW x \in S
  PROVE  /\ s \o <<x>> \in Seq(S) /\ Len(s \o <<x>>) = Len(s) + 1
         /\ (s \o <<x>>)[Len(s) + 1] = x
         /\ \A i \in 1..Len(s) : (s \o <<x>>)[i] = s[i]
OBVIOUS

LEMMA Two ==
  ASSUME NEW S, NEW a \in S, NEW b \in S
  PROVE  <<a>> \o <<b>> = <<a, b>>
<1>1. PICK s \in Seq(S) : s = <<a>>
  <2>1. <<a>> \in Seq(S)
    OBVIOUS
  <2> QED
    BY <2>1
<1>2. Len(s) = 1 /\ s[1] = a
  BY <1>1
<1>3. PICK t \in Seq(S) : t = s \o <<b>>
  <2>1. s \o <<b>> \in Seq(S)
    BY LongerByOne
  <2> QED
    BY <2>1
<1>4. Len(t) = Len(s) + 1 /\ t[Len(s) + 1] = b /\ \A i \in 1..Len(s) : t[i] = s[i]
  BY <1>3, LongerByOne
<1>5. Len(t) = 2 /\ t[1] = a /\ t[2] = b
  BY <1>2, <1>4
<1>6. t = <<t[1], t[2]>>
  BY <1>5
<1> QED
  BY <1>1, <1>3, <1>5, <1>6

LEMMA Three ==
  ASSUME NEW S, NEW a \in S, NEW b \in S, NEW c \in S
  PROVE  <<a, b>> \o <<c>> = <<a, b, c>>
<1>1. PICK s \in Seq(S) : s = <<a, b>>
  <2>1. <<a, b>> \in Seq(S)
    OBVIOUS
  <2> QED
    BY <2>1
<1>2. Len(s) = 2 /\ s[1] = a /\ s[2] = b
  BY <1>1
<1>3. PICK t \in Seq(S) : t = s \o <<c>>
  <2>1. s \o <<c>> \in Seq(S)
    BY LongerByOne
  <2> QED
    BY <2>1
<1>4. Len(t) = Len(s) + 1 /\ t[Len(s) + 1] = c /\ \A i \in 1..Len(s) : t[i] = s[i]
  BY <1>3, LongerByOne
<1>5. Len(t) = 3 /\ t[1] = a /\ t[2] = b /\ t[3] = c
  BY <1>2, <1>4
<1>6. t = <<t[1], t[2], t[3]>>
  BY <1>5
<1> QED
  BY <1>1, <1>3, <1>5, <1>6

LEMMA Four ==
  ASSUME NEW S, NEW a \in S, NEW b \in S, NEW c \in S, NEW d \in S
  PROVE  <<a, b, c>> \o <<d>> = <<a, b, c, d>>
<1>1. PICK s \in Seq(S) : s = <<a, b, c>>
  <2>1. <<a, b, c>> \in Seq(S)
    OBVIOUS
  <2> QED
    BY <2>1
<1>2. Len(s) = 3 /\ s[1] = a /\ s[2] = b /\ s[3] = c
  BY <1>1
<1>3. PICK t \in Seq(S) : t = s \o <<d>>
  <2>1. s \o <<d>> \in Seq(S)
    BY LongerByOne
  <2> QED
    BY <2>1
<1>4. Len(t) = Len(s) + 1 /\ t[Len(s) + 1] = d /\ \A i \in 1..Len(s) : t[i] = s[i]
  BY <1>3, LongerByOne
<1>5. Len(t) = 4 /\ t[1] = a /\ t[2] = b /\ t[3] = c /\ t[4] = d
  BY <1>2, <1>4
<1>6. t = <<t[1], t[2], t[3], t[4]>>
  BY <1>5
<1> QED
  BY <1>1, <1>3, <1>5, <1>6

LEMMA Five ==
  ASSUME NEW S, NEW a \in S, NEW b \in S, NEW c \in S, NEW d \in S, NEW e \in S
  PROVE  <<a, b, c, d>> \o <<e>> = <<a, b, c, d, e>>
<1>1. PICK s \in Seq(S) : s = <<a, b, c, d>>
  <2>1. <<a, b, c, d>> \in Seq(S)
    OBVIOUS
  <2> QED
    BY <2>1
<1>2. Len(s) = 4 /\ s[1] = a /\ s[2] = b /\ s[3] = c /\ s[4] = d
  BY <1>1
<1>3. PICK t \in Seq(S) : t = s \o <<e>>
  <2>1. s \o <<e>> \in Seq(S)
    BY LongerByOne
  <2> QED
    BY <2>1
<1>4. Len(t) = Len(s) + 1 /\ t[Len(s) + 1] = e /\ \A i \in 1..Len(s) : t[i] = s[i]
  BY <1>3, LongerByOne
<1>5. Len(t) = 5 /\ t[1] = a /\ t[2] = b /\ t[3] = c /\ t[4] = d /\ t[5] = e
  BY <1>2, <1>4
<1>6. t = <<t[1], t[2], t[3], t[4], t[5]>>
  BY <1>5
<1> QED
  BY <1>1, <1>3, <1>5, <1>6

LEMMA NextUint ==
  ASSUME NEW part \in Parts, NEW name \in Plain, NEW w \in UintWidths,
         NEW F, NEW N, NEW m \in Nat, Made(F, KeysAt(part, N), m), IsNew(name, N), StartsFixed(F),
         NEW f, f = Uint(part, name, w)
  PROVE  Made(F \o <<f>>, KeysAt(part, N \cup {name}), m + w) /\ StartsFixed(F \o <<f>>)
BY AddUint

LEMMA FirstUint ==
  ASSUME NEW part \in Parts, NEW name \in Plain, NEW w \in UintWidths, NEW f, f = Uint(part, name, w)
  PROVE  Made(<<f>>, KeysAt(part, {name}), w) /\ StartsFixed(<<f>>) /\ f \in NodeFields
<1>1. Made(<<f>>, KeysAt(part, {name}), w) /\ StartsFixed(<<f>>)
  BY OneUint
<1>2. Uint(part, name, w) \in NodeFields
  BY PlainUint
<1> QED
  BY <1>1, <1>2

\* Five numbers, one after the other.
LEMMA FiveUints ==
  ASSUME NEW part \in Parts, NEW n1 \in Plain, NEW n2 \in Plain, NEW n3 \in Plain, NEW n4 \in Plain,
         NEW n5 \in Plain,
         NEW w1 \in UintWidths, NEW w2 \in UintWidths, NEW w3 \in UintWidths, NEW w4 \in UintWidths,
         NEW w5 \in UintWidths,
         IsNew(n2, {n1}), IsNew(n3, {n1, n2}), IsNew(n4, {n1, n2, n3}), IsNew(n5, {n1, n2, n3, n4})
  PROVE  LET F == <<Uint(part, n1, w1), Uint(part, n2, w2), Uint(part, n3, w3),
                     Uint(part, n4, w4), Uint(part, n5, w5)>>
         IN  Made(F, KeysAt(part, {n1, n2, n3, n4, n5}), w1 + w2 + w3 + w4 + w5) /\ StartsFixed(F)
<1>1. PICK f1, f2, f3, f4, f5 :
        f1 = Uint(part, n1, w1) /\ f2 = Uint(part, n2, w2) /\ f3 = Uint(part, n3, w3)
        /\ f4 = Uint(part, n4, w4) /\ f5 = Uint(part, n5, w5)
  OBVIOUS
<1>2. f1 \in NodeFields /\ f2 \in NodeFields /\ f3 \in NodeFields /\ f4 \in NodeFields
        /\ f5 \in NodeFields
  BY <1>1, FirstUint
<1>3. w1 \in Nat /\ w2 \in Nat /\ w3 \in Nat /\ w4 \in Nat /\ w5 \in Nat
  BY WidthsAreNumbers
<1>4. Made(<<f1>>, KeysAt(part, {n1}), w1) /\ StartsFixed(<<f1>>)
  BY <1>1, FirstUint
<1>5. Made(<<f1, f2>>, KeysAt(part, {n1, n2}), w1 + w2) /\ StartsFixed(<<f1, f2>>)
  <2>0. PICK m \in Nat : m = w1
    BY <1>3
  <2>1. PICK F, N : F = <<f1>> /\ N = {n1}
    OBVIOUS
  <2>2. Made(F, KeysAt(part, N), m) /\ StartsFixed(F) /\ IsNew(n2, N)
    BY <1>4, <2>0, <2>1
  <2>3. Made(F \o <<f2>>, KeysAt(part, N \cup {n2}), m + w2) /\ StartsFixed(F \o <<f2>>)
    BY <1>1, <2>2, NextUint
  <2>4. <<f1>> \o <<f2>> = <<f1, f2>>
    BY <1>2, Two
  <2>5. N \cup {n2} = {n1, n2}
    BY <2>1
  <2> QED
    BY <2>0, <2>1, <2>3, <2>4, <2>5
<1>6. Made(<<f1, f2, f3>>, KeysAt(part, {n1, n2, n3}), w1 + w2 + w3) /\ StartsFixed(<<f1, f2, f3>>)
  <2>0. PICK m \in Nat : m = w1 + w2
    BY <1>3
  <2>1. PICK F, N : F = <<f1, f2>> /\ N = {n1, n2}
    OBVIOUS
  <2>2. Made(F, KeysAt(part, N), m) /\ StartsFixed(F) /\ IsNew(n3, N)
    BY <1>5, <2>0, <2>1
  <2>3. Made(F \o <<f3>>, KeysAt(part, N \cup {n3}), m + w3) /\ StartsFixed(F \o <<f3>>)
    BY <1>1, <2>2, NextUint
  <2>4. <<f1, f2>> \o <<f3>> = <<f1, f2, f3>>
    BY <1>2, Three
  <2>5. N \cup {n3} = {n1, n2, n3}
    BY <2>1
  <2> QED
    BY <2>0, <2>1, <2>3, <2>4, <2>5
<1>7. Made(<<f1, f2, f3, f4>>, KeysAt(part, {n1, n2, n3, n4}), w1 + w2 + w3 + w4)
        /\ StartsFixed(<<f1, f2, f3, f4>>)
  <2>0. PICK m \in Nat : m = w1 + w2 + w3
    BY <1>3
  <2>1. PICK F, N : F = <<f1, f2, f3>> /\ N = {n1, n2, n3}
    OBVIOUS
  <2>2. Made(F, KeysAt(part, N), m) /\ StartsFixed(F) /\ IsNew(n4, N)
    BY <1>6, <2>0, <2>1
  <2>3. Made(F \o <<f4>>, KeysAt(part, N \cup {n4}), m + w4) /\ StartsFixed(F \o <<f4>>)
    BY <1>1, <2>2, NextUint
  <2>4. <<f1, f2, f3>> \o <<f4>> = <<f1, f2, f3, f4>>
    BY <1>2, Four
  <2>5. N \cup {n4} = {n1, n2, n3, n4}
    BY <2>1
  <2> QED
    BY <2>0, <2>1, <2>3, <2>4, <2>5
<1>8. Made(<<f1, f2, f3, f4, f5>>, KeysAt(part, {n1, n2, n3, n4, n5}), w1 + w2 + w3 + w4 + w5)
        /\ StartsFixed(<<f1, f2, f3, f4, f5>>)
  <2>0. PICK m \in Nat : m = w1 + w2 + w3 + w4
    BY <1>3
  <2>1. PICK F, N : F = <<f1, f2, f3, f4>> /\ N = {n1, n2, n3, n4}
    OBVIOUS
  <2>2. Made(F, KeysAt(part, N), m) /\ StartsFixed(F) /\ IsNew(n5, N)
    BY <1>7, <2>0, <2>1
  <2>3. Made(F \o <<f5>>, KeysAt(part, N \cup {n5}), m + w5) /\ StartsFixed(F \o <<f5>>)
    BY <1>1, <2>2, NextUint
  <2>4. <<f1, f2, f3, f4>> \o <<f5>> = <<f1, f2, f3, f4, f5>>
    BY <1>2, Five
  <2>5. N \cup {n5} = {n1, n2, n3, n4, n5}
    BY <2>1
  <2> QED
    BY <2>0, <2>1, <2>3, <2>4, <2>5
<1> QED
  BY <1>1, <1>8

\* A union: its tag and its members, of which one is there at most.
UnionOf(F, part, w, n) ==
  /\ F \in Seq(NodeFields) /\ StartsFixed(F) /\ Unique(F) /\ NoRootTail(F)
  /\ Key(F[1]) = <<part, "tag">> /\ AtMost(F[1], w)
  /\ \A i \in 2..Len(F) : F[i].member = i - 1 /\ F[i].part = part /\ AtMost(F[i], n)

\* The tag of a struct.
Chosen(s, part, k) == s[<<part, "tag">>] = k

LEMMA OneChosen ==
  ASSUME NEW s, NEW part, NEW j \in Nat, NEW k \in Nat, Chosen(s, part, j), Chosen(s, part, k)
  PROVE  j = k
BY DEF Chosen

LEMMA MemberSize ==
  ASSUME NEW f \in NodeFields, NEW part, f.part = part, NEW k \in Nat \ {0}, f.member = k,
         NEW n \in Nat, AtMost(f, n), NEW s, TypedField(f, s)
  PROVE  FieldSize(f, s) = 0 \/ (FieldSize(f, s) <= n /\ Chosen(s, part, k))
<1>1. CASE ~Present(f, s)
  BY <1>1 DEF FieldSize
<1>2. CASE Present(f, s)
  <2>1. Chosen(s, part, k)
    BY <1>2 DEF Present, TagKey, Chosen
  <2> QED
    BY <2>1 DEF AtMost
<1> QED
  BY <1>1, <1>2

\* The end of the fields up to one, all of which take e bits at most, or n more when
\* the union has a member among them.
FitsUnion(F, s, part, w, n, i) ==
  \/ End(F, s, i) <= w
  \/ End(F, s, i) <= w + n /\ \E j \in 1..(i - 1) : Chosen(s, part, j)

LEMMA FitsUnionNext ==
  ASSUME NEW F, NEW part, NEW w \in Nat, NEW n \in Nat, UnionOf(F, part, w, n),
         NEW s, HasType(F, s), NEW i \in Nat, i > 1, i <= Len(F), FitsUnion(F, s, part, w, n, i - 1)
  PROVE  FitsUnion(F, s, part, w, n, i)
<1>1. F \in Seq(NodeFields)
  BY DEF UnionOf
<1>2. i \in 2..Len(F) /\ i \in 1..Len(F) /\ i - 1 \in 0..Len(F) /\ i \in 0..Len(F)
        /\ i - 1 \in Nat \ {0}
  BY <1>1
<1>3. F[i] \in NodeFields /\ TypedField(F[i], s) /\ FieldSize(F[i], s) \in Nat
  BY <1>1, <1>2, FieldFacts, ZeroFills
<1>4. F[i].part = part /\ F[i].member = i - 1 /\ AtMost(F[i], n)
  BY <1>2 DEF UnionOf
<1>5. FieldSize(F[i], s) = 0 \/ (FieldSize(F[i], s) <= n /\ Chosen(s, part, i - 1))
  BY <1>2, <1>3, <1>4, MemberSize
<1>6. PICK a \in Nat, b \in Nat, z \in Nat :
        a = End(F, s, i - 1) /\ b = End(F, s, i) /\ z = FieldSize(F[i], s) /\ b = a + z
  BY <1>1, <1>2, <1>3, EndFacts
<1>7. \A j \in 1..((i - 1) - 1) : j \in 1..(i - 1) /\ j \in Nat /\ j # i - 1
  OBVIOUS
<1>8. i - 1 \in 1..(i - 1)
  BY <1>2
<1>9. CASE z = 0
  <2>1. b = a
    BY <1>6, <1>9
  <2> QED
    BY <1>6, <1>7, <2>1 DEF FitsUnion
<1>10. CASE z <= n /\ Chosen(s, part, i - 1)
  <2>1. ~\E j \in 1..((i - 1) - 1) : Chosen(s, part, j)
    BY <1>2, <1>7, <1>10, OneChosen
  <2>2. a <= w
    BY <1>6, <2>1 DEF FitsUnion
  <2>3. b <= w + n
    BY <1>6, <1>10, <2>2
  <2> QED
    BY <1>6, <1>8, <1>10, <2>3 DEF FitsUnion
<1> QED
  BY <1>5, <1>6, <1>9, <1>10

LEMMA UnionSize ==
  ASSUME NEW F, NEW part, NEW w \in Nat, NEW n \in Nat, UnionOf(F, part, w, n),
         NEW s, HasType(F, s)
  PROVE  All(F, s) <= w + n
<1>1. F \in Seq(NodeFields) /\ Len(F) \in Nat /\ Len(F) > 0
  BY DEF UnionOf, StartsFixed
<1>2. FitsUnion(F, s, part, w, n, 1)
  <2>1. 1 \in 1..Len(F) /\ 1 - 1 = 0 /\ 1 \in 0..Len(F)
    BY <1>1
  <2>2. F[1] \in NodeFields /\ TypedField(F[1], s) /\ FieldSize(F[1], s) \in Nat
    BY <1>1, <2>1, FieldFacts, ZeroFills
  <2>3. End(F, s, 0) = 0 /\ End(F, s, 1) = End(F, s, 1 - 1) + FieldSize(F[1], s)
    BY <1>1, <2>1, EndFacts
  <2>4. FieldSize(F[1], s) <= w
    BY <2>2 DEF UnionOf, AtMost
  <2>5. End(F, s, 1) <= w
    BY <2>1, <2>2, <2>3, <2>4
  <2> QED
    BY <2>5 DEF FitsUnion
<1>3. \A i \in 1..Len(F) : FitsUnion(F, s, part, w, n, i)
  <2> SUFFICES ASSUME NEW z \in 1..Len(F), ~FitsUnion(F, s, part, w, n, z)
               PROVE  FALSE
    OBVIOUS
  <2>1. PICK i \in 1..Len(F) : /\ ~FitsUnion(F, s, part, w, n, i)
                               /\ \A y \in 1..Len(F) : y < i => FitsUnion(F, s, part, w, n, y)
    <3> DEFINE Wrong == {x \in 1..Len(F) : ~FitsUnion(F, s, part, w, n, x)}
    <3>1. Wrong \in SUBSET Nat /\ Wrong # {}
      OBVIOUS
    <3>2. PICK x \in Wrong : \A y \in Wrong : ~(y < x)
      <4> HIDE DEF Wrong
      <4> QED
        BY <3>1, HasLeast
    <3> QED
      BY <3>2
  <2>2. i # 1
    BY <1>2, <2>1
  <2>3. i \in Nat /\ i > 1 /\ i <= Len(F) /\ i - 1 \in 1..Len(F) /\ i - 1 < i
    BY <1>1, <2>2
  <2>4. FitsUnion(F, s, part, w, n, i - 1)
    BY <2>1, <2>3
  <2> QED
    BY <2>1, <2>3, <2>4, FitsUnionNext
<1>4. Len(F) \in 1..Len(F) /\ Len(F) \in 0..Len(F)
  BY <1>1
<1>5. PICK a \in Nat : a = End(F, s, Len(F))
  BY <1>1, <1>4, EndFacts
<1>6. a <= w \/ a <= w + n
  BY <1>3, <1>4, <1>5 DEF FitsUnion
<1>7. a <= w + n
  BY <1>6
<1> QED
  BY <1>5, <1>7 DEF All

LEMMA UnionMade ==
  ASSUME NEW F, NEW part \in Parts, NEW w \in Nat, NEW n \in Nat, UnionOf(F, part, w, n)
  PROVE  Made(F, KeysAt(part, Names), w + n) /\ StartsFixed(F)
<1>1. /\ F \in Seq(NodeFields) /\ Len(F) \in Nat /\ Len(F) > 0 /\ StartsFixed(F)
      /\ Unique(F) /\ NoRootTail(F)
  BY DEF UnionOf, StartsFixed
<1>2. \A i \in 1..Len(F) : i = 1 \/ i \in 2..Len(F)
  BY <1>1
<1>3. \A i \in 1..Len(F) : F[i] \in NodeFields
  BY <1>1
<1>4. Key(F[1]) = <<part, "tag">> /\ F[1].member = 0
  BY DEF UnionOf, StartsFixed
<1>5. ASSUME NEW i \in 2..Len(F)
      PROVE  Key(F[i]) \in KeysAt(part, Names) /\ TagKey(F[i]) = Key(F[1]) /\ 1 \in 1..(i - 1)
  <2>1. F[i].part = part
    BY <1>5 DEF UnionOf
  <2>2. F[i].name \in Names
    BY <1>3 DEF NodeFields
  <2> QED
    BY <1>4, <2>1, <2>2 DEF Key, KeysAt, TagKey
<1>6. Key(F[1]) \in KeysAt(part, Names)
  BY <1>4 DEF KeysAt, Names
<1>7. KeysIn(F, KeysAt(part, Names))
  BY <1>2, <1>5, <1>6 DEF KeysIn
<1>8. Tagged(F)
  BY <1>2, <1>4, <1>5 DEF Tagged
<1>9. \A s : HasType(F, s) => All(F, s) <= w + n
  BY UnionSize
<1> QED
  BY <1>1, <1>7, <1>8, <1>9 DEF Made

LEMMA LargerKeys ==
  ASSUME NEW F, NEW K, NEW L, NEW m \in Nat, Made(F, K, m), K \subseteq L
  PROVE  Made(F, L, m)
<1>1. \A i \in 1..Len(F) : Key(F[i]) \in K
  BY DEF Made, KeysIn
<1> QED
  BY <1>1 DEF Made, KeysIn

LEMMA NamesAt ==
  ASSUME NEW part, NEW N, N \subseteq Names
  PROVE  KeysAt(part, N) \subseteq KeysAt(part, Names)
BY DEF KeysAt

LEMMA StatusNames ==
  /\ "uptime_sec" \in Plain /\ "health" \in Plain /\ "mode" \in Plain /\ "sub_mode" \in Plain
  /\ "vendor_specific_status_code" \in Plain
BY DEF Plain, Names

LEMMA StatusApart ==
  /\ IsNew("health", {"uptime_sec"}) /\ IsNew("mode", {"uptime_sec", "health"})
  /\ IsNew("sub_mode", {"uptime_sec", "health", "mode"})
  /\ IsNew("vendor_specific_status_code", {"uptime_sec", "health", "mode", "sub_mode"})
BY DEF IsNew

LEMMA VersionNames ==
  /\ "major" \in Plain /\ "minor" \in Plain /\ "optional_field_flags" \in Plain
  /\ "vcs_commit" \in Plain /\ "image_crc" \in Plain
BY DEF Plain, Names

LEMMA VersionApart ==
  /\ IsNew("minor", {"major"}) /\ IsNew("optional_field_flags", {"major", "minor"})
  /\ IsNew("vcs_commit", {"major", "minor", "optional_field_flags"})
  /\ IsNew("image_crc", {"major", "minor", "optional_field_flags", "vcs_commit"})
BY DEF IsNew

LEMMA UintWidthsFacts ==
  /\ 1 \in UintWidths /\ 2 \in UintWidths /\ 3 \in UintWidths /\ 8 \in UintWidths /\ 13 \in UintWidths
  /\ 16 \in UintWidths /\ 32 \in UintWidths /\ 40 \in UintWidths /\ 64 \in UintWidths
BY DEF UintWidths

LEMMA NodeStatusMade ==
  ASSUME NEW part \in Parts
  PROVE  Made(NodeStatus(part), KeysAt(part, Names), 56) /\ StartsFixed(NodeStatus(part))
<1>1. PICK n1, n2, n3, n4, n5 \in Plain :
        n1 = "uptime_sec" /\ n2 = "health" /\ n3 = "mode"
        /\ n4 = "sub_mode" /\ n5 = "vendor_specific_status_code"
  BY StatusNames
<1>2. IsNew(n2, {n1}) /\ IsNew(n3, {n1, n2}) /\ IsNew(n4, {n1, n2, n3}) /\ IsNew(n5, {n1, n2, n3, n4})
  BY <1>1, StatusApart
<1>3. PICK w1, w2, w3, w4, w5 \in UintWidths :
        w1 = 32 /\ w2 = 2 /\ w3 = 3 /\ w4 = 3 /\ w5 = 16
  BY UintWidthsFacts
<1>4. w1 + w2 + w3 + w4 + w5 = 56
  BY <1>3
<1>5. NodeStatus(part) = <<Uint(part, n1, w1), Uint(part, n2, w2), Uint(part, n3, w3),
        Uint(part, n4, w4),
                   Uint(part, n5, w5)>>
  BY <1>1, <1>3 DEF NodeStatus
<1>6. Made(NodeStatus(part), KeysAt(part, {n1, n2, n3, n4, n5}), 56) /\ StartsFixed(NodeStatus(part))
  BY <1>2, <1>4, <1>5, FiveUints
<1>7. KeysAt(part, {n1, n2, n3, n4, n5}) \subseteq KeysAt(part, Names)
  BY NamesAt DEF Plain
<1>8. 56 \in Nat
  OBVIOUS
<1> QED
  BY <1>6, <1>7, <1>8, LargerKeys

LEMMA SoftwareVersionMade ==
  ASSUME NEW part \in Parts
  PROVE  Made(SoftwareVersion(part), KeysAt(part, Names), 120) /\ StartsFixed(SoftwareVersion(part))
<1>1. PICK n1, n2, n3, n4, n5 \in Plain :
        n1 = "major" /\ n2 = "minor" /\ n3 = "optional_field_flags"
        /\ n4 = "vcs_commit" /\ n5 = "image_crc"
  BY VersionNames
<1>2. IsNew(n2, {n1}) /\ IsNew(n3, {n1, n2}) /\ IsNew(n4, {n1, n2, n3}) /\ IsNew(n5, {n1, n2, n3, n4})
  BY <1>1, VersionApart
<1>3. PICK w1, w2, w3, w4, w5 \in UintWidths :
        w1 = 8 /\ w2 = 8 /\ w3 = 8 /\ w4 = 32 /\ w5 = 64
  BY UintWidthsFacts
<1>4. w1 + w2 + w3 + w4 + w5 = 120
  BY <1>3
<1>5. SoftwareVersion(part) = <<Uint(part, n1, w1), Uint(part, n2, w2), Uint(part, n3, w3),
        Uint(part, n4, w4),
                   Uint(part, n5, w5)>>
  BY <1>1, <1>3 DEF SoftwareVersion
<1>6. Made(SoftwareVersion(part), KeysAt(part, {n1, n2, n3, n4, n5}), 120)
        /\ StartsFixed(SoftwareVersion(part))
  BY <1>2, <1>4, <1>5, FiveUints
<1>7. KeysAt(part, {n1, n2, n3, n4, n5}) \subseteq KeysAt(part, Names)
  BY NamesAt DEF Plain
<1>8. 120 \in Nat
  OBVIOUS
<1> QED
  BY <1>6, <1>7, <1>8, LargerKeys

LEMMA SizeIsNumber ==
  ASSUME NEW f \in NodeFields, NEW s, TypedField(f, s)
  PROVE  FieldSize(f, s) \in Nat
<1>1. CASE Present(f, s)
  BY <1>1, WrittenFacts
<1>2. CASE ~Present(f, s)
  BY <1>2 DEF FieldSize
<1> QED
  BY <1>1, <1>2

LEMMA AtMostMore ==
  ASSUME NEW f \in NodeFields, NEW m \in Nat, NEW n \in Nat, m <= n, AtMost(f, m)
  PROVE  AtMost(f, n)
<1> SUFFICES ASSUME NEW s, TypedField(f, s)
             PROVE  FieldSize(f, s) <= n
  BY DEF AtMost
<1>1. PICK k \in Nat : k = FieldSize(f, s)
  BY SizeIsNumber
<1>2. k <= m
  BY <1>1 DEF AtMost
<1> QED
  BY <1>1, <1>2

LEMMA UintAtMost ==
  ASSUME NEW f \in NodeFields, f.t = "uint", NEW n \in Nat, n = f.skip + f.width
  PROVE  AtMost(f, n)
<1> SUFFICES ASSUME NEW s, TypedField(f, s)
             PROVE  FieldSize(f, s) <= n
  BY DEF AtMost
<1>1. FieldSize(f, s) = 0 \/ FieldSize(f, s) = n
  BY DEF FieldSize
<1> QED
  BY <1>1

\* A member of a union.
MemberOf(f, part, k, name) ==
  /\ f \in NodeFields /\ f.part = part /\ f.member = k /\ f.name = name /\ ~AtRoot(f)

LEMMA UintMember ==
  ASSUME NEW part \in Parts, NEW name \in Plain, NEW w \in {8, 32, 64}, NEW k \in 1..4
  PROVE  LET f == Member(k, Uint(part, name, w))
         IN  MemberOf(f, part, k, name) /\ AtMost(f, w)
<1>1. PICK f : f = Member(k, Uint(part, name, w))
  OBVIOUS
<1>2. name \in Names /\ name # "tag"
  BY DEF Plain
<1>3. /\ f \in NodeFields /\ f.t = "uint" /\ f.member = k /\ f.name = name /\ f.part = part
      /\ f.width = w /\ f.skip = 0
  BY <1>1, <1>2, MemberField
<1>4. PICK n \in Nat : n = w /\ n = 0 + w
  OBVIOUS
<1>5. AtMost(f, n)
  BY <1>3, <1>4, UintAtMost
<1>6. ~AtRoot(f)
  BY <1>3 DEF AtRoot
<1> QED
  BY <1>1, <1>3, <1>4, <1>5, <1>6 DEF MemberOf

LEMMA TailMember ==
  ASSUME NEW part \in Parts, Nested(part), NEW k \in 1..4
  PROVE  LET f == Member(k, TailArray(part, "string_value", 8, 128))
         IN  MemberOf(f, part, k, "string_value") /\ AtMost(f, 1032)
<1>1. PICK f : f = Member(k, TailArray(part, "string_value", 8, 128))
  OBVIOUS
<1>2. /\ f \in NodeFields /\ f.t = "tail" /\ f.member = k /\ f.name = "string_value" /\ f.part = part
      /\ f.width = 8 /\ f.n = 128 /\ f.skip = 0
  BY <1>1, MemberTail
<1>3. ~AtRoot(f)
  BY <1>2 DEF AtRoot, Nested
<1>4. LengthSize(f) = 8
  BY <1>2, <1>3 DEF LengthSize, AtRoot
<1>5. PICK w \in 0..64, n \in 0..255 : w = 8 /\ n = 128 /\ w + 8 * n = 1032
  <2>1. 8 \in 0..64 /\ 128 \in 0..255 /\ 8 + 8 * 128 = 1032
    OBVIOUS
  <2> QED
    BY <2>1
<1>6. AtMost(f, w + 8 * n)
  <2>1. f.t \in {"bytes", "tail"}
    BY <1>2
  <2>2. f \in NodeFields /\ f.skip = 0
    BY <1>2
  <2>3. n = f.n /\ w = LengthSize(f)
    BY <1>2, <1>4, <1>5
  <2> QED
    BY <2>1, <2>2, <2>3, ArrayAtMost
<1> QED
  BY <1>1, <1>2, <1>3, <1>5, <1>6 DEF MemberOf

LEMMA UnionTagFacts ==
  ASSUME NEW part \in Parts, NEW w \in {2, 3}, NEW skip \in 0..6, NEW n \in Nat, n = skip + w
  PROVE  LET f == UnionTag(part, w, skip)
         IN  /\ f \in NodeFields /\ f.t = "uint" /\ f.member = 0 /\ Key(f) = <<part, "tag">>
             /\ f.name = "tag" /\ AtMost(f, n)
<1>1. PICK f : f = UnionTag(part, w, skip)
  OBVIOUS
<1>2. /\ f \in NodeFields /\ f.t = "uint" /\ f.member = 0 /\ f.name = "tag" /\ f.part = part
      /\ f.width = w /\ f.skip = skip
  BY <1>1, TagField
<1>3. AtMost(f, n)
  BY <1>2, UintAtMost
<1> QED
  BY <1>1, <1>2, <1>3 DEF Key

LEMMA UnionNames ==
  /\ "integer_value" \in Plain /\ "real_value" \in Plain /\ "boolean_value" \in Plain
  /\ "tag" # "integer_value" /\ "tag" # "real_value" /\ "tag" # "boolean_value"
  /\ "tag" # "string_value"
  /\ "integer_value" # "real_value" /\ "integer_value" # "boolean_value"
  /\ "integer_value" # "string_value" /\ "real_value" # "boolean_value"
  /\ "real_value" # "string_value" /\ "boolean_value" # "string_value"
BY DEF Plain, Names

LEMMA NumericValueMade ==
  ASSUME NEW part \in Parts, NEW skip \in 0..6, NEW w \in Nat, w = skip + 2
  PROVE  /\ Made(NumericValue(part, skip), KeysAt(part, Names), w + 64)
         /\ StartsFixed(NumericValue(part, skip))
<1>1. PICK a, b, c : /\ a = UnionTag(part, 2, skip)
                     /\ b = Member(1, Uint(part, "integer_value", 64))
                     /\ c = Member(2, Uint(part, "real_value", 32))
  OBVIOUS
<1>2. /\ a \in NodeFields /\ a.t = "uint" /\ a.member = 0 /\ Key(a) = <<part, "tag">>
      /\ a.name = "tag" /\ AtMost(a, w)
  <2>1. PICK v \in {2, 3} : v = 2
    OBVIOUS
  <2>2. w = skip + v
    BY <2>1
  <2> QED
    BY <1>1, <2>1, <2>2, UnionTagFacts
<1>3. MemberOf(b, part, 1, "integer_value") /\ AtMost(b, 64)
  <2>1. PICK v \in {8, 32, 64}, k \in 1..4, name \in Plain : v = 64 /\ k = 1 /\ name = "integer_value"
    BY UnionNames
  <2> QED
    BY <1>1, <2>1, UintMember
<1>4. MemberOf(c, part, 2, "real_value") /\ AtMost(c, 32)
  <2>1. PICK v \in {8, 32, 64}, k \in 1..4, name \in Plain : v = 32 /\ k = 2 /\ name = "real_value"
    BY UnionNames
  <2> QED
    BY <1>1, <2>1, UintMember
<1>5. b \in NodeFields /\ c \in NodeFields
  BY <1>3, <1>4 DEF MemberOf
<1>6. AtMost(c, 64)
  <2>1. 32 \in Nat /\ 64 \in Nat /\ 32 <= 64
    OBVIOUS
  <2> QED
    BY <1>4, <1>5, <2>1, AtMostMore
<1>7. PICK F \in Seq(NodeFields) : F = <<a, b, c>>
  <2>1. <<a, b, c>> \in Seq(NodeFields)
    BY <1>2, <1>5
  <2> QED
    BY <2>1
<1>8. Len(F) = 3 /\ F[1] = a /\ F[2] = b /\ F[3] = c
  BY <1>7
<1>9. /\ \A i \in 1..Len(F) : i = 1 \/ i = 2 \/ i = 3
      /\ \A i \in 2..Len(F) : i = 2 \/ i = 3
      /\ 2 - 1 = 1 /\ 3 - 1 = 2 /\ Len(F) > 0
  BY <1>8
<1>10. Key(a) # Key(b) /\ Key(a) # Key(c) /\ Key(b) # Key(c)
  BY <1>2, <1>3, <1>4, UnionNames DEF MemberOf, Key
<1>11. Unique(F)
  BY <1>8, <1>9, <1>10 DEF Unique
<1>12. NoRootTail(F)
  <2>1. ~AtRoot(a)
    BY <1>2 DEF AtRoot
  <2> QED
    BY <1>3, <1>4, <1>8, <1>9, <2>1 DEF NoRootTail, MemberOf, AtRoot
<1>13. StartsFixed(F)
  BY <1>2, <1>8, <1>9 DEF StartsFixed
<1>14. \A i \in 2..Len(F) : F[i].member = i - 1 /\ F[i].part = part /\ AtMost(F[i], 64)
  BY <1>3, <1>4, <1>6, <1>8, <1>9 DEF MemberOf
<1>15. UnionOf(F, part, w, 64)
  BY <1>2, <1>8, <1>11, <1>12, <1>13, <1>14 DEF UnionOf
<1>16. Made(F, KeysAt(part, Names), w + 64)
  <2>1. PICK n \in Nat : n = 64
    OBVIOUS
  <2> QED
    BY <1>15, <2>1, UnionMade
<1>17. NumericValue(part, skip) = F
  BY <1>1, <1>7 DEF NumericValue
<1> QED
  BY <1>13, <1>16, <1>17

LEMMA ValueMade ==
  ASSUME NEW part \in Parts, Nested(part), NEW skip \in 0..6, NEW w \in Nat, w = skip + 3
  PROVE  /\ Made(Value(part, skip), KeysAt(part, Names), w + 1032)
         /\ StartsFixed(Value(part, skip))
<1>1. PICK a, b, c, d, e : /\ a = UnionTag(part, 3, skip)
                           /\ b = Member(1, Uint(part, "integer_value", 64))
                           /\ c = Member(2, Uint(part, "real_value", 32))
                           /\ d = Member(3, Uint(part, "boolean_value", 8))
                           /\ e = Member(4, TailArray(part, "string_value", 8, 128))
  OBVIOUS
<1>2. /\ a \in NodeFields /\ a.t = "uint" /\ a.member = 0 /\ Key(a) = <<part, "tag">>
      /\ a.name = "tag" /\ AtMost(a, w)
  <2>1. PICK v \in {2, 3} : v = 3
    OBVIOUS
  <2>2. w = skip + v
    BY <2>1
  <2> QED
    BY <1>1, <2>1, <2>2, UnionTagFacts
<1>3. MemberOf(b, part, 1, "integer_value") /\ AtMost(b, 64)
  <2>1. PICK v \in {8, 32, 64}, k \in 1..4, name \in Plain : v = 64 /\ k = 1 /\ name = "integer_value"
    BY UnionNames
  <2> QED
    BY <1>1, <2>1, UintMember
<1>4. MemberOf(c, part, 2, "real_value") /\ AtMost(c, 32)
  <2>1. PICK v \in {8, 32, 64}, k \in 1..4, name \in Plain : v = 32 /\ k = 2 /\ name = "real_value"
    BY UnionNames
  <2> QED
    BY <1>1, <2>1, UintMember
<1>5. MemberOf(d, part, 3, "boolean_value") /\ AtMost(d, 8)
  <2>1. PICK v \in {8, 32, 64}, k \in 1..4, name \in Plain : v = 8 /\ k = 3 /\ name = "boolean_value"
    BY UnionNames
  <2> QED
    BY <1>1, <2>1, UintMember
<1>6. MemberOf(e, part, 4, "string_value") /\ AtMost(e, 1032)
  <2>1. PICK k \in 1..4 : k = 4
    OBVIOUS
  <2> QED
    BY <1>1, <2>1, TailMember
<1>7. b \in NodeFields /\ c \in NodeFields /\ d \in NodeFields /\ e \in NodeFields
  BY <1>3, <1>4, <1>5, <1>6 DEF MemberOf
<1>8. AtMost(b, 1032) /\ AtMost(c, 1032) /\ AtMost(d, 1032)
  <2>1. 64 \in Nat /\ 64 <= 1032 /\ 32 \in Nat /\ 32 <= 1032 /\ 8 \in Nat /\ 8 <= 1032 /\ 1032 \in Nat
    OBVIOUS
  <2>2. AtMost(b, 1032)
    BY <1>3, <1>7, <2>1, AtMostMore
  <2>3. AtMost(c, 1032)
    BY <1>4, <1>7, <2>1, AtMostMore
  <2>4. AtMost(d, 1032)
    BY <1>5, <1>7, <2>1, AtMostMore
  <2> QED
    BY <2>2, <2>3, <2>4
<1>9. PICK F \in Seq(NodeFields) : F = <<a, b, c, d, e>>
  <2>1. <<a, b, c, d, e>> \in Seq(NodeFields)
    BY <1>2, <1>7
  <2> QED
    BY <2>1
<1>10. Len(F) = 5 /\ F[1] = a /\ F[2] = b /\ F[3] = c /\ F[4] = d /\ F[5] = e
  BY <1>9
<1>11. /\ \A i \in 1..Len(F) : i = 1 \/ i = 2 \/ i = 3 \/ i = 4 \/ i = 5
       /\ \A i \in 2..Len(F) : i = 2 \/ i = 3 \/ i = 4 \/ i = 5
       /\ 2 - 1 = 1 /\ 3 - 1 = 2 /\ 4 - 1 = 3 /\ 5 - 1 = 4 /\ Len(F) > 0
  BY <1>10
<1>12. /\ Key(a) # Key(b) /\ Key(a) # Key(c) /\ Key(a) # Key(d) /\ Key(a) # Key(e)
       /\ Key(b) # Key(c) /\ Key(b) # Key(d) /\ Key(b) # Key(e)
       /\ Key(c) # Key(d) /\ Key(c) # Key(e) /\ Key(d) # Key(e)
  BY <1>2, <1>3, <1>4, <1>5, <1>6, UnionNames DEF MemberOf, Key
<1>13. Unique(F)
  BY <1>10, <1>11, <1>12 DEF Unique
<1>14. NoRootTail(F)
  <2>1. ~AtRoot(a)
    BY <1>2 DEF AtRoot
  <2>2. ~AtRoot(b) /\ ~AtRoot(c) /\ ~AtRoot(d) /\ ~AtRoot(e)
    BY <1>3, <1>4, <1>5, <1>6 DEF MemberOf
  <2>3. \A i \in 1..Len(F) : ~AtRoot(F[i])
    BY <1>10, <1>11, <2>1, <2>2
  <2> QED
    BY <2>3 DEF NoRootTail, AtRoot
<1>15. StartsFixed(F)
  BY <1>2, <1>10, <1>11 DEF StartsFixed
<1>16. \A i \in 2..Len(F) : F[i].member = i - 1 /\ F[i].part = part /\ AtMost(F[i], 1032)
  BY <1>3, <1>4, <1>5, <1>6, <1>8, <1>10, <1>11 DEF MemberOf
<1>17. UnionOf(F, part, w, 1032)
  BY <1>2, <1>10, <1>13, <1>14, <1>15, <1>16 DEF UnionOf
<1>18. Made(F, KeysAt(part, Names), w + 1032)
  <2>1. PICK n \in Nat : n = 1032
    OBVIOUS
  <2>2. UnionOf(F, part, w, n)
    BY <1>17, <2>1
  <2>3. Made(F, KeysAt(part, Names), w + n)
    BY <2>2, UnionMade
  <2> QED
    BY <2>1, <2>3
<1>19. Value(part, skip) = F
  BY <1>1, <1>9 DEF Value
<1> QED
  BY <1>15, <1>18, <1>19

\* Parts one after the other.
NotIn(part, K) == \A x : <<part, x>> \notin K

LEMMA NothingOfOther ==
  ASSUME NEW part, NEW other, part # other, NEW N
  PROVE  NotIn(part, KeysAt(other, N))
BY DEF NotIn, KeysAt

LEMMA StillNotIn ==
  ASSUME NEW part, NEW K, NEW L, NotIn(part, K), NotIn(part, L)
  PROVE  NotIn(part, K \cup L)
BY DEF NotIn

LEMMA JoinParts ==
  ASSUME NEW F, NEW K, NEW m \in Nat, Made(F, K, m), StartsFixed(F),
         NEW G, NEW part, NEW n \in Nat, Made(G, KeysAt(part, Names), n), NotIn(part, K)
  PROVE  Made(F \o G, K \cup KeysAt(part, Names), m + n) /\ StartsFixed(F \o G)
<1>1. K \cap KeysAt(part, Names) = {}
  BY DEF NotIn, KeysAt
<1>2. Made(F \o G, K \cup KeysAt(part, Names), m + n)
  BY <1>1, Compose
<1>3. F \in Seq(NodeFields) /\ G \in Seq(NodeFields)
  BY DEF Made
<1> QED
  BY <1>2, <1>3, FixedStart

\* A message that ends in an array of bytes without its length.
EndsWith(F, name, n) ==
  /\ Sound(F) /\ EndsInTail(F) /\ LastKey(F) = <<"", name>>
  /\ \A s : HasType(F, s) => All(F, s) <= n

\* A message without one.
Plainly(F, n) == Sound(F) /\ ~EndsInTail(F) /\ \A s : HasType(F, s) => All(F, s) <= n

LEMMA MadeIsPlain ==
  ASSUME NEW F, NEW K, NEW n, Made(F, K, n)
  PROVE  Plainly(F, n)
BY MadeIsSound DEF Made, Plainly

Fresh(name, K) == <<"", name>> \notin K

LEMMA TailField ==
  ASSUME NEW name \in Plain, NEW w \in ArrayWidths, NEW n \in 0..255, Room(n, w)
  PROVE  LET f == TailArray("", name, w, n)
         IN  f \in NodeFields /\ Key(f) = <<"", name>> /\ RootTail(f) /\ AtMost(f, 8 * n)
<1>2. PICK part \in Parts : part = ""
  BY DEF Parts
<1>3. PICK t \in ArrayKinds : t = "tail"
  BY DEF ArrayKinds
<1>4. PICK f : IsArray(f, part, name, w, n, t)
  BY DEF IsArray
<1>5. RootArray(t, part)
  BY <1>2, <1>3 DEF RootArray
<1>6. f \in NodeFields /\ Key(f) = <<part, name>> /\ RootTail(f) /\ AtMost(f, BytesSize(n))
  BY <1>4, <1>5, ArrayFields
<1>7. f = TailArray("", name, w, n)
  BY <1>2, <1>3, <1>4 DEF TailArray, IsArray
<1> QED
  BY <1>2, <1>3, <1>6, <1>7 DEF BytesSize

LEMMA EndWithTail ==
  ASSUME NEW F, NEW K, NEW m \in Nat, Made(F, K, m), StartsFixed(F),
         NEW name \in Plain, Fresh(name, K), NEW w \in ArrayWidths, NEW n \in 0..255, Room(n, w)
  PROVE  EndsWith(F \o <<TailArray("", name, w, n)>>, name, m + 8 * n)
<1>1. PICK f \in NodeFields : f = TailArray("", name, w, n)
  <2>1. TailArray("", name, w, n) \in NodeFields
    BY TailField
  <2> QED
    BY <2>1
<1>2. Key(f) = <<"", name>> /\ RootTail(f) /\ AtMost(f, 8 * n)
  BY <1>1, TailField
<1>3. Key(f) \notin K
  BY <1>2 DEF Fresh
<1>4. PICK k \in Nat : k = 8 * n
  OBVIOUS
<1>5. AtMost(f, k)
  BY <1>2, <1>4
<1>6. /\ Sound(F \o <<f>>) /\ EndsInTail(F \o <<f>>) /\ LastKey(F \o <<f>>) = Key(f)
      /\ \A s : HasType(F \o <<f>>, s) => All(F \o <<f>>, s) <= m + k
  BY <1>2, <1>3, <1>5, AddTail
<1> QED
  BY <1>1, <1>2, <1>4, <1>6 DEF EndsWith

LEMMA OtherNames ==
  /\ "unique_id" \in Plain /\ "certificate_of_authenticity" \in Plain /\ "name" \in Plain
  /\ "magic_number" \in Plain /\ "ok" \in Plain /\ "value" \in Plain /\ "source" \in Plain
  /\ "text" \in Plain /\ "index" \in Plain
BY DEF Plain, Names

LEMMA PartNames ==
  /\ "" \in Parts /\ "status" \in Parts /\ "software_version" \in Parts
  /\ "hardware_version" \in Parts /\ "level" \in Parts /\ "value" \in Parts
  /\ "default_value" \in Parts /\ "max_value" \in Parts /\ "min_value" \in Parts
BY DEF Parts

LEMMA NestedParts ==
  /\ Nested("hardware_version") /\ Nested("value") /\ Nested("default_value")
BY DEF Nested

LEMMA HardwareApart == IsNew("minor", {"major"})
BY DEF IsNew

LEMMA HardwareApart3 == "major" # "unique_id" /\ "minor" # "unique_id"
OBVIOUS

\* The hardware version but for its certificate.
Hardware(part) == <<Uint(part, "major", 8), Uint(part, "minor", 8), Items(part, "unique_id", 16)>>

LEMMA HardwareMade ==
  ASSUME NEW part \in Parts
  PROVE  /\ Made(Hardware(part), KeysAt(part, {"major", "minor", "unique_id"}), 144)
         /\ StartsFixed(Hardware(part))
<1>1. PICK n1, n2, n3 \in Plain : n1 = "major" /\ n2 = "minor" /\ n3 = "unique_id"
  BY VersionNames, OtherNames
<1>2. PICK w \in UintWidths : w = 8
  BY UintWidthsFacts
<1>3. PICK a, b : a = Uint(part, n1, w) /\ b = Uint(part, n2, w)
  OBVIOUS
<1>4. PICK x \in Nat : x = w
  BY <1>2
<1>5. Made(<<a>>, KeysAt(part, {n1}), x) /\ StartsFixed(<<a>>) /\ a \in NodeFields
  BY <1>3, <1>4, FirstUint
<1>6. b \in NodeFields
  BY <1>3, FirstUint
<1>7. Made(<<a, b>>, KeysAt(part, {n1, n2}), x + x) /\ StartsFixed(<<a, b>>)
  <2>1. PICK F, N : F = <<a>> /\ N = {n1}
    OBVIOUS
  <2>2. Made(F, KeysAt(part, N), x) /\ StartsFixed(F) /\ IsNew(n2, N)
    BY <1>1, <1>5, <2>1, HardwareApart
  <2>3. Made(F \o <<b>>, KeysAt(part, N \cup {n2}), x + w) /\ StartsFixed(F \o <<b>>)
    BY <1>3, <2>2, NextUint
  <2>4. <<a>> \o <<b>> = <<a, b>>
    BY <1>5, <1>6, Two
  <2>5. N \cup {n2} = {n1, n2}
    BY <2>1
  <2> QED
    BY <1>4, <2>1, <2>3, <2>4, <2>5
<1>8. PICK c \in NodeFields : c = Items(part, n3, 16) /\ Inner(c) /\ Key(c) = <<part, n3>>
        /\ AtMost(c, 128)
  <2>1. n3 \in Names /\ n3 # "tag"
    BY DEF Plain
  <2> QED
    BY <2>1, ItemsField
<1>9. Made(<<c>>, KeysAt(part, {n3}), 128)
  <2>1. PICK k \in Nat : k = 128
    OBVIOUS
  <2>2. Made(<<c>>, {Key(c)}, k)
    BY <1>8, <2>1, MadeOfOne
  <2>3. KeysAt(part, {n3}) = {Key(c)}
    BY <1>8 DEF KeysAt
  <2> QED
    BY <2>1, <2>2, <2>3
<1>10. Made(<<a, b, c>>, KeysAt(part, {n1, n2, n3}), 144) /\ StartsFixed(<<a, b, c>>)
  <2>1. PICK F, G, K, L : /\ F = <<a, b>> /\ G = <<c>>
                          /\ K = KeysAt(part, {n1, n2}) /\ L = KeysAt(part, {n3})
    OBVIOUS
  <2>2. PICK y \in Nat, z \in Nat : y = x + x /\ z = 128
    OBVIOUS
  <2>3. Made(F, K, y) /\ Made(G, L, z) /\ StartsFixed(F)
    BY <1>7, <1>9, <2>1, <2>2
  <2>4. K \cap L = {} /\ K \cup L = KeysAt(part, {n1, n2, n3})
    BY <1>1, <2>1, HardwareApart3 DEF KeysAt
  <2>5. Made(F \o G, K \cup L, y + z)
    BY <2>3, <2>4, Compose
  <2>6. F \in Seq(NodeFields) /\ G \in Seq(NodeFields)
    BY <2>3 DEF Made
  <2>7. StartsFixed(F \o G)
    BY <2>3, <2>6, FixedStart
  <2>8. F \o G = <<a, b, c>>
    BY <1>5, <1>6, <1>8, <2>1, Three
  <2>9. y + z = 144
    BY <1>2, <1>4, <2>2
  <2> QED
    BY <2>4, <2>5, <2>7, <2>8, <2>9
<1>11. Hardware(part) = <<a, b, c>>
  BY <1>1, <1>2, <1>3, <1>8 DEF Hardware
<1> QED
  BY <1>1, <1>10, <1>11

\* An array of bytes with its length in front is a part by itself.
LEMMA ArrayMade ==
  ASSUME NEW part \in Parts, NEW name \in Plain, NEW w \in ArrayWidths, NEW n \in 0..255,
         Room(n, w), NEW t \in ArrayKinds, InnerArray(t, part)
  PROVE  LET f == Item(t, part, name, w, n)
         IN  f \in NodeFields /\ Made(<<f>>, KeysAt(part, {name}), ArraySize(w, n))
<1>1. PICK f \in NodeFields : f = Item(t, part, name, w, n)
  <2>1. Item(t, part, name, w, n) \in NodeFields
    BY ArrayIsField
  <2> QED
    BY <2>1
<1>2. Key(f) = <<part, name>> /\ Inner(f) /\ AtMost(f, ArraySize(w, n))
  <2>1. IsArray(f, part, name, w, n, t)
    BY <1>1 DEF IsArray
  <2> QED
    BY <2>1, ArrayFields
<1>3. PICK k \in Nat : k = ArraySize(w, n)
  <2>1. w \in Nat
    BY DEF ArrayWidths
  <2> QED
    BY <2>1 DEF ArraySize
<1>4. AtMost(f, k)
  BY <1>2, <1>3
<1>5. Made(<<f>>, {Key(f)}, k)
  BY <1>2, <1>4, MadeOfOne
<1>6. KeysAt(part, {name}) = {Key(f)}
  BY <1>2 DEF KeysAt
<1> QED
  BY <1>1, <1>3, <1>5, <1>6

LEMMA ArrayWidthsFacts == 5 \in ArrayWidths /\ 7 \in ArrayWidths /\ 8 \in ArrayWidths
BY DEF ArrayWidths

LEMMA Rooms == Room(31, 5) /\ Room(80, 7) /\ Room(90, 7) /\ Room(92, 7) /\ Room(128, 8) /\ Room(255, 8)
BY DEF Room

LEMMA ArrayKindsFacts ==
  /\ "bytes" \in ArrayKinds /\ "tail" \in ArrayKinds
  /\ \A part : InnerArray("bytes", part) /\ (Nested(part) => InnerArray("tail", part))
BY DEF ArrayKinds, InnerArray, Nested

LEMMA CertificateApart ==
  "certificate_of_authenticity" \notin {"major", "minor", "unique_id"}
OBVIOUS

LEMMA HardwareLong ==
  ASSUME NEW part \in Parts
  PROVE  HardwareVersion(part) = Hardware(part)
           \o <<TailArray(part, "certificate_of_authenticity", 8, 255)>>
<1>1. PICK n1, n2, n3, n4 \in Plain : /\ n1 = "major" /\ n2 = "minor" /\ n3 = "unique_id"
                                      /\ n4 = "certificate_of_authenticity"
  BY VersionNames, OtherNames
<1>2. PICK w \in UintWidths : w = 8
  BY UintWidthsFacts
<1>3. PICK a \in NodeFields, b \in NodeFields : a = Uint(part, n1, w) /\ b = Uint(part, n2, w)
  BY PlainUint
<1>4. PICK c \in NodeFields : c = Items(part, n3, 16)
  <2>1. n3 \in Names /\ n3 # "tag"
    BY DEF Plain
  <2>2. Items(part, n3, 16) \in NodeFields
    BY <2>1, ItemsField
  <2> QED
    BY <2>2
<1>5. PICK d \in NodeFields : d = TailArray(part, n4, 8, 255)
  <2>1. PICK v \in ArrayWidths, n \in 0..255, t \in ArrayKinds : v = 8 /\ n = 255 /\ t = "tail"
          /\ Room(n, v)
    <3>1. 255 \in 0..255
      OBVIOUS
    <3> QED
      BY <3>1, ArrayWidthsFacts, ArrayKindsFacts, Rooms
  <2>2. Item(t, part, n4, v, n) \in NodeFields
    BY <2>1, ArrayIsField
  <2> QED
    BY <2>1, <2>2 DEF TailArray
<1>6. <<a, b, c>> \o <<d>> = <<a, b, c, d>>
  BY Four
<1> QED
  BY <1>1, <1>2, <1>3, <1>4, <1>5, <1>6 DEF Hardware, HardwareVersion

LEMMA HardwareVersionMade ==
  ASSUME NEW part \in Parts, Nested(part)
  PROVE  /\ Made(HardwareVersion(part), KeysAt(part, Names), 2192)
         /\ StartsFixed(HardwareVersion(part))
<1>1. PICK v \in ArrayWidths, n \in 0..255, t \in ArrayKinds, name \in Plain :
        /\ v = 8 /\ n = 255 /\ t = "tail" /\ Room(n, v) /\ name = "certificate_of_authenticity"
  <2>1. 255 \in 0..255
    OBVIOUS
  <2> QED
    BY <2>1, ArrayWidthsFacts, ArrayKindsFacts, Rooms, OtherNames
<1>2. InnerArray(t, part)
  BY <1>1, ArrayKindsFacts
<1>3. PICK f : f = Item(t, part, name, v, n)
  OBVIOUS
<1>4. f \in NodeFields /\ Made(<<f>>, KeysAt(part, {name}), ArraySize(v, n))
  <2>1. Room(n, v)
    BY <1>1
  <2> QED
    BY <1>2, <1>3, <2>1, ArrayMade
<1>5. PICK F, K, L : /\ F = Hardware(part) /\ K = KeysAt(part, {"major", "minor", "unique_id"})
                     /\ L = KeysAt(part, {name})
  OBVIOUS
<1>6. PICK y \in Nat, z \in Nat : y = 144 /\ z = ArraySize(v, n) /\ y + z = 2192
  <2>1. 144 \in Nat /\ 8 + 8 * 255 \in Nat /\ 144 + (8 + 8 * 255) = 2192
    OBVIOUS
  <2> QED
    BY <1>1, <2>1 DEF ArraySize
<1>7. Made(F, K, y) /\ StartsFixed(F) /\ Made(<<f>>, L, z)
  BY <1>4, <1>5, <1>6, HardwareMade
<1>8. K \cap L = {}
  BY <1>1, <1>5, CertificateApart DEF KeysAt
<1>9. Made(F \o <<f>>, K \cup L, y + z)
  BY <1>7, <1>8, Compose
<1>10. F \in Seq(NodeFields) /\ <<f>> \in Seq(NodeFields)
  BY <1>7 DEF Made
<1>11. StartsFixed(F \o <<f>>)
  BY <1>7, <1>10, FixedStart
<1>12. K \cup L \subseteq KeysAt(part, Names)
  <2>1. {"major", "minor", "unique_id"} \subseteq Names /\ {name} \subseteq Names
    BY VersionNames, OtherNames DEF Plain
  <2> QED
    BY <1>5, <2>1, NamesAt
<1>13. Made(F \o <<f>>, KeysAt(part, Names), y + z)
  <2>1. PICK x \in Nat : x = y + z
    OBVIOUS
  <2> QED
    BY <1>9, <1>12, <2>1, LargerKeys
<1>14. HardwareVersion(part) = F \o <<f>>
  BY <1>1, <1>3, <1>5, HardwareLong DEF TailArray
<1> QED
  BY <1>6, <1>11, <1>13, <1>14

\* The types of the messages.
LEMMA OneUintMade ==
  ASSUME NEW part \in Parts, NEW name \in Plain, NEW w \in UintWidths
  PROVE  /\ Made(<<Uint(part, name, w)>>, KeysAt(part, Names), w)
         /\ StartsFixed(<<Uint(part, name, w)>>)
         /\ Made(<<Uint(part, name, w)>>, KeysAt(part, {name}), w)
<1>1. Made(<<Uint(part, name, w)>>, KeysAt(part, {name}), w) /\ StartsFixed(<<Uint(part, name, w)>>)
  BY OneUint
<1>2. {name} \subseteq Names
  BY DEF Plain
<1>3. KeysAt(part, {name}) \subseteq KeysAt(part, Names)
  BY <1>2, NamesAt
<1>4. PICK n \in Nat : n = w
  BY WidthsAreNumbers
<1>5. Made(<<Uint(part, name, w)>>, KeysAt(part, {name}), n)
  BY <1>1, <1>4
<1>6. Made(<<Uint(part, name, w)>>, KeysAt(part, Names), n)
  BY <1>3, <1>5, LargerKeys
<1> QED
  BY <1>1, <1>4, <1>6

LEMMA EmptyType == Plainly(Empty, 0)
<1>1. Empty \in Seq(NodeFields) /\ Len(Empty) = 0 /\ Len(Empty) \in 0..Len(Empty)
  BY DEF Empty
<1>2. \A i \in 1..Len(Empty) : FALSE
  BY <1>1
<1>3. Unique(Empty) /\ Tagged(Empty) /\ TailLast(Empty) /\ ~EndsInTail(Empty)
  <2>1. ~(Len(Empty) > 0)
    BY <1>1
  <2> QED
    BY <1>2, <2>1 DEF Unique, Tagged, TailLast, EndsInTail
<1>4. ASSUME NEW s, HasType(Empty, s)
      PROVE  All(Empty, s) <= 0
  <2>1. End(Empty, s, 0) = 0
    BY <1>1, <1>4, EndFacts
  <2>2. All(Empty, s) = 0
    BY <1>1, <2>1 DEF All
  <2> QED
    BY <2>2
<1> QED
  BY <1>1, <1>3, <1>4 DEF Plainly, Sound

LEMMA NodeStatusType == Plainly(NodeStatus(""), 56)
<1>1. PICK part \in Parts : part = ""
  BY PartNames
<1> QED
  BY <1>1, NodeStatusMade, MadeIsPlain

LEMMA RestartNodeRequestType == Plainly(RestartNodeRequest, 40)
<1>1. PICK part \in Parts, name \in Plain, w \in UintWidths : part = "" /\ name = "magic_number"
        /\ w = 40
  BY PartNames, OtherNames, UintWidthsFacts
<1>2. Plainly(<<Uint(part, name, w)>>, w)
  BY OneUintMade, MadeIsPlain
<1> QED
  BY <1>1, <1>2 DEF RestartNodeRequest

LEMMA RestartNodeResponseType == Plainly(RestartNodeResponse, 1)
<1>1. PICK part \in Parts, name \in Plain, w \in UintWidths : part = "" /\ name = "ok" /\ w = 1
  BY PartNames, OtherNames, UintWidthsFacts
<1>2. Plainly(<<Uint(part, name, w)>>, w)
  BY OneUintMade, MadeIsPlain
<1> QED
  BY <1>1, <1>2 DEF RestartNodeResponse

\* The bits of the longest messages.
HardwareBits == 2184
LogBits      == 976
InfoBits     == 3008
RequestBits  == 1784
ResponseBits == 2960

Counts == 0..255

LEMMA CountsFacts == 31 \in Counts /\ 80 \in Counts /\ 90 \in Counts /\ 92 \in Counts
    /\ 128 \in Counts /\ 255 \in Counts
BY DEF Counts

LEMMA TheEnd ==
  ASSUME NEW F, NEW K, NEW m \in Nat, Made(F, K, m), StartsFixed(F),
         NEW name \in Plain, Fresh(name, K), NEW w \in ArrayWidths, NEW n \in Counts, Room(n, w),
         NEW total \in Nat, m + 8 * n = total
  PROVE  EndsWith(F \o <<TailArray("", name, w, n)>>, name, total)
<1>1. PICK k \in 0..255 : k = n
  BY DEF Counts
<1>2. EndsWith(F \o <<TailArray("", name, w, k)>>, name, m + 8 * k)
  BY <1>1, EndWithTail
<1> QED
  BY <1>1, <1>2

LEMMA HardwareVersionType == EndsWith(HardwareVersion(""), "certificate_of_authenticity", HardwareBits)
<1>1. PICK part \in Parts, name \in Plain : part = "" /\ name = "certificate_of_authenticity"
  BY PartNames, OtherNames
<1>2. PICK w \in ArrayWidths, n \in Counts : w = 8 /\ n = 255 /\ Room(n, w)
  BY CountsFacts, ArrayWidthsFacts, Rooms
<1>3. PICK m \in Nat, total \in Nat : m = 144 /\ total = HardwareBits
  BY DEF HardwareBits
<1>4. m + 8 * n = total
  BY <1>2, <1>3 DEF HardwareBits
<1>5. PICK F, K : F = Hardware(part) /\ K = KeysAt(part, {"major", "minor", "unique_id"})
  OBVIOUS
<1>6. Made(F, K, m) /\ StartsFixed(F)
  BY <1>3, <1>5, HardwareMade
<1>7. Fresh(name, K)
  BY <1>1, <1>5, CertificateApart DEF Fresh, KeysAt
<1>8. Room(n, w)
  BY <1>2
<1>9. EndsWith(F \o <<TailArray("", name, w, n)>>, name, total)
  BY <1>4, <1>6, <1>7, <1>8, TheEnd
<1>10. HardwareVersion(part) = F \o <<TailArray(part, name, w, n)>>
  BY <1>1, <1>2, <1>5, HardwareLong
<1>11. EndsWith(HardwareVersion(part), name, total)
  BY <1>1, <1>9, <1>10
<1>12. EndsWith(HardwareVersion(""), "certificate_of_authenticity", total)
  BY <1>1, <1>11
<1>13. total = HardwareBits
  BY <1>3
<1> QED
  BY <1>12, <1>13

LEMMA Fields3 ==
  ASSUME NEW F \in Seq(NodeFields), NEW a \in NodeFields, NEW b \in NodeFields
  PROVE  F \o <<a, b>> = (F \o <<a>>) \o <<b>>
<1>1. PICK G \in Seq(NodeFields), H \in Seq(NodeFields) : G = <<a>> /\ H = <<b>>
  <2>1. <<a>> \in Seq(NodeFields) /\ <<b>> \in Seq(NodeFields)
    OBVIOUS
  <2> QED
    BY <2>1
<1>2. G \o H = <<a, b>>
  BY <1>1, Two
<1>3. F \o (G \o H) = (F \o G) \o H
  OBVIOUS
<1> QED
  BY <1>1, <1>2, <1>3

LEMMA KeysApart ==
  ASSUME NEW part, NEW other, part # other, NEW M, NEW N
  PROVE  KeysAt(part, M) \cap KeysAt(other, N) = {}
BY DEF KeysAt

LEMMA PartsApart ==
  /\ "" # "level" /\ "" # "status" /\ "" # "software_version" /\ "" # "hardware_version"
  /\ "" # "value" /\ "" # "default_value" /\ "" # "max_value" /\ "" # "min_value"
  /\ "software_version" # "status" /\ "hardware_version" # "status"
  /\ "hardware_version" # "software_version"
  /\ "default_value" # "value" /\ "max_value" # "value" /\ "min_value" # "value"
  /\ "max_value" # "default_value" /\ "min_value" # "default_value" /\ "min_value" # "max_value"
OBVIOUS

LEMMA NamesApart == "text" # "source" /\ "name" # "index"
OBVIOUS

LEMMA FreshBoth ==
  ASSUME NEW name, NEW K, NEW L, Fresh(name, K), Fresh(name, L)
  PROVE  Fresh(name, K \cup L)
BY DEF Fresh

LEMMA FreshElsewhere ==
  ASSUME NEW name, NEW K, NotIn("", K)
  PROVE  Fresh(name, K)
BY DEF Fresh, NotIn

LEMMA FreshHere ==
  ASSUME NEW name, NEW other, name # other
  PROVE  Fresh(name, KeysAt("", {other}))
BY DEF Fresh, KeysAt

\* The level and the source of a log message.
LogHead == LogLevel("level") \o <<ByteArray("", "source", 5, 31)>>
LogKeys == KeysAt("level", Names) \cup KeysAt("", {"source"})

LEMMA LogHeadMade == Made(LogHead, LogKeys, 256) /\ StartsFixed(LogHead)
<1>1. PICK level \in Parts, root \in Parts : level = "level" /\ root = "" /\ root # level
  BY PartNames, PartsApart
<1>2. PICK value \in Plain, source \in Plain : value = "value" /\ source = "source"
  BY OtherNames
<1>3. PICK w \in UintWidths, v \in ArrayWidths, n \in Counts : w = 3 /\ v = 5 /\ n = 31 /\ Room(n, v)
  BY UintWidthsFacts, CountsFacts, ArrayWidthsFacts, Rooms
<1>4. PICK y \in Nat, z \in Nat : y = w /\ z = ArraySize(v, n) /\ y + z = 256
  BY <1>3 DEF ArraySize
<1>5. PICK F, f : F = <<Uint(level, value, w)>> /\ f = Item("bytes", root, source, v, n)
  OBVIOUS
<1>6. Made(F, KeysAt(level, Names), y) /\ StartsFixed(F)
  BY <1>4, <1>5, OneUintMade
<1>7. Made(<<f>>, KeysAt(root, {source}), z)
  <2>1. PICK k \in 0..255 : k = n
    BY DEF Counts
  <2>2. PICK t \in ArrayKinds : t = "bytes" /\ InnerArray(t, root)
    BY ArrayKindsFacts
  <2>3. Room(k, v) /\ InnerArray(t, root)
    BY <1>3, <2>1, <2>2
  <2>4. Made(<<Item(t, root, source, v, k)>>, KeysAt(root, {source}), ArraySize(v, k))
    BY <2>3, ArrayMade
  <2> QED
    BY <1>4, <1>5, <2>1, <2>2, <2>4
<1>8. KeysAt(level, Names) \cap KeysAt(root, {source}) = {}
  BY <1>1, KeysApart
<1>9. PICK K, L : K = KeysAt(level, Names) /\ L = KeysAt(root, {source})
  OBVIOUS
<1>10. Made(F \o <<f>>, K \cup L, y + z)
  <2>1. Made(F, K, y) /\ Made(<<f>>, L, z) /\ K \cap L = {}
    BY <1>6, <1>7, <1>8, <1>9
  <2> QED
    BY <2>1, Compose
<1>11. F \in Seq(NodeFields) /\ <<f>> \in Seq(NodeFields)
  BY <1>6, <1>7 DEF Made
<1>12. StartsFixed(F \o <<f>>)
  BY <1>6, <1>11, FixedStart
<1>13. LogHead = F \o <<f>>
  BY <1>1, <1>2, <1>3, <1>5 DEF LogHead, LogLevel, ByteArray
<1>14. LogKeys = K \cup L
  BY <1>1, <1>2, <1>9 DEF LogKeys
<1> QED
  BY <1>4, <1>10, <1>12, <1>13, <1>14

LEMMA LogKeysFresh == Fresh("text", LogKeys)
BY PartsApart, NamesApart, NothingOfOther, FreshElsewhere, FreshHere, FreshBoth DEF LogKeys

LEMMA LogLong == LogMessage = LogHead \o <<TailArray("", "text", 7, 90)>>
<1>1. PICK F \in Seq(NodeFields) : F = LogLevel("level")
  <2>1. PICK level \in Parts, value \in Plain, w \in UintWidths : level = "level" /\ value = "value"
          /\ w = 3
    BY PartNames, OtherNames, UintWidthsFacts
  <2>2. <<Uint(level, value, w)>> \in Seq(NodeFields)
    BY OneUintMade DEF Made
  <2> QED
    BY <2>1, <2>2 DEF LogLevel
<1>2. PICK a \in NodeFields : a = ByteArray("", "source", 5, 31)
  <2>1. PICK root \in Parts, source \in Plain, t \in ArrayKinds : root = "" /\ source = "source"
          /\ t = "bytes"
    BY PartNames, OtherNames, ArrayKindsFacts
  <2>2. PICK v \in ArrayWidths, n \in 0..255 : v = 5 /\ n = 31 /\ Room(n, v)
    BY ArrayWidthsFacts, Rooms
  <2>3. Room(n, v)
    BY <2>2
  <2>4. Item(t, root, source, v, n) \in NodeFields
    BY <2>3, ArrayIsField
  <2> QED
    BY <2>1, <2>2, <2>4 DEF ByteArray
<1>3. PICK b \in NodeFields : b = TailArray("", "text", 7, 90)
  <2>1. PICK name \in Plain : name = "text"
    BY OtherNames
  <2>2. PICK v \in ArrayWidths, n \in 0..255 : v = 7 /\ n = 90 /\ Room(n, v)
    BY ArrayWidthsFacts, Rooms
  <2>3. Room(n, v)
    BY <2>2
  <2>4. TailArray("", name, v, n) \in NodeFields
    BY <2>3, TailField
  <2> QED
    BY <2>1, <2>2, <2>4
<1> QED
  BY <1>1, <1>2, <1>3, Fields3 DEF LogMessage, LogHead

LEMMA LogMessageType == EndsWith(LogMessage, "text", LogBits)
<1>1. PICK part \in Parts, name \in Plain : part = "" /\ name = "text"
  BY PartNames, OtherNames
<1>2. PICK w \in ArrayWidths, n \in Counts : w = 7 /\ n = 90 /\ Room(n, w)
  BY CountsFacts, ArrayWidthsFacts, Rooms
<1>3. PICK m \in Nat, total \in Nat : m = 256 /\ total = LogBits
  BY DEF LogBits
<1>4. m + 8 * n = total
  BY <1>2, <1>3 DEF LogBits
<1>5. PICK F, K : F = LogHead /\ K = LogKeys
  OBVIOUS
<1>6. Made(F, K, m) /\ StartsFixed(F)
  BY <1>3, <1>5, LogHeadMade
<1>7. Fresh(name, K)
  BY <1>1, <1>5, LogKeysFresh
<1>8. Room(n, w)
  BY <1>2
<1>9. EndsWith(F \o <<TailArray("", name, w, n)>>, name, total)
  BY <1>4, <1>6, <1>7, <1>8, TheEnd
<1>10. LogMessage = F \o <<TailArray(part, name, w, n)>>
  BY <1>1, <1>2, <1>5, LogLong
<1>11. EndsWith(LogMessage, name, total)
  BY <1>1, <1>9, <1>10
<1>12. EndsWith(LogMessage, "text", total)
  BY <1>1, <1>11
<1>13. total = LogBits
  BY <1>3
<1> QED
  BY <1>12, <1>13

LEMMA Join ==
  ASSUME NEW F, NEW K, NEW m \in Nat, Made(F, K, m), StartsFixed(F),
         NEW G, NEW part, NEW n \in Nat, Made(G, KeysAt(part, Names), n), NotIn(part, K),
         NEW total \in Nat, m + n = total
  PROVE  Made(F \o G, K \cup KeysAt(part, Names), total) /\ StartsFixed(F \o G)
BY JoinParts

\* The parts of the answer about a node.
Info1     == NodeStatus("status")
Info1Keys == KeysAt("status", Names)

LEMMA Info1Made == Made(Info1, Info1Keys, 56) /\ StartsFixed(Info1)
<1>1. PICK part \in Parts : part = "status"
  BY PartNames
<1>2. Made(NodeStatus(part), KeysAt(part, Names), 56) /\ StartsFixed(NodeStatus(part))
  BY NodeStatusMade
<1>3. Info1 = NodeStatus(part) /\ Info1Keys = KeysAt(part, Names)
  BY <1>1 DEF Info1, Info1Keys
<1> QED
  BY <1>2, <1>3

Info2 == Info1 \o SoftwareVersion("software_version")
Info2Keys == Info1Keys \cup KeysAt("software_version", Names)

LEMMA Info2Made == Made(Info2, Info2Keys, 176) /\ StartsFixed(Info2)
<1>1. PICK part \in Parts : part = "software_version"
  BY PartNames
<1>2. PICK m \in Nat, n \in Nat, total \in Nat : m = 56 /\ n = 120 /\ total = 176 /\ m + n = total
  OBVIOUS
<1>3. PICK F, G, K : F = Info1 /\ G = SoftwareVersion(part) /\ K = Info1Keys
  OBVIOUS
<1>4. Made(F, K, m) /\ StartsFixed(F)
  BY <1>2, <1>3, Info1Made
<1>5. Made(G, KeysAt(part, Names), n)
  BY <1>2, <1>3, SoftwareVersionMade
<1>6. NotIn(part, K)
  BY <1>1, <1>3, PartsApart, NothingOfOther, StillNotIn DEF Info1Keys
<1>7. Made(F \o G, K \cup KeysAt(part, Names), total) /\ StartsFixed(F \o G)
  BY <1>2, <1>4, <1>5, <1>6, Join
<1>8. Info2 = F \o G /\ Info2Keys = K \cup KeysAt(part, Names)
  BY <1>1, <1>3 DEF Info2, Info2Keys
<1> QED
  BY <1>2, <1>7, <1>8

Info3 == Info2 \o HardwareVersion("hardware_version")
Info3Keys == Info2Keys \cup KeysAt("hardware_version", Names)

LEMMA Info3Made == Made(Info3, Info3Keys, 2368) /\ StartsFixed(Info3)
<1>1. PICK part \in Parts : part = "hardware_version"
  BY PartNames
<1>2. PICK m \in Nat, n \in Nat, total \in Nat : m = 176 /\ n = 2192 /\ total = 2368 /\ m + n = total
  OBVIOUS
<1>3. PICK F, G, K : F = Info2 /\ G = HardwareVersion(part) /\ K = Info2Keys
  OBVIOUS
<1>4. Made(F, K, m) /\ StartsFixed(F)
  BY <1>2, <1>3, Info2Made
<1>5. Made(G, KeysAt(part, Names), n)
  <2>1. Nested(part)
    BY <1>1, NestedParts
  <2> QED
    BY <1>2, <1>3, <2>1, HardwareVersionMade
<1>6. NotIn(part, K)
  BY <1>1, <1>3, PartsApart, NothingOfOther, StillNotIn DEF Info1Keys, Info2Keys
<1>7. Made(F \o G, K \cup KeysAt(part, Names), total) /\ StartsFixed(F \o G)
  BY <1>2, <1>4, <1>5, <1>6, Join
<1>8. Info3 = F \o G /\ Info3Keys = K \cup KeysAt(part, Names)
  BY <1>1, <1>3 DEF Info3, Info3Keys
<1> QED
  BY <1>2, <1>7, <1>8

LEMMA Info3Fresh == Fresh("name", Info3Keys)
<1>1. NotIn("", Info3Keys)
  BY PartsApart, NothingOfOther, StillNotIn DEF Info1Keys, Info2Keys, Info3Keys
<1> QED
  BY <1>1, FreshElsewhere

LEMMA InfoLong == GetNodeInfoResponse = Info3 \o <<TailArray("", "name", 7, 80)>>
BY DEF GetNodeInfoResponse, Info1, Info2, Info3

LEMMA GetNodeInfoResponseType == EndsWith(GetNodeInfoResponse, "name", InfoBits)
<1>1. PICK part \in Parts, name \in Plain : part = "" /\ name = "name"
  BY PartNames, OtherNames
<1>2. PICK w \in ArrayWidths, n \in Counts : w = 7 /\ n = 80 /\ Room(n, w)
  BY CountsFacts, ArrayWidthsFacts, Rooms
<1>3. PICK m \in Nat, total \in Nat : m = 2368 /\ total = InfoBits
  BY DEF InfoBits
<1>4. m + 8 * n = total
  BY <1>2, <1>3 DEF InfoBits
<1>5. PICK F, K : F = Info3 /\ K = Info3Keys
  OBVIOUS
<1>6. Made(F, K, m) /\ StartsFixed(F)
  BY <1>3, <1>5, Info3Made
<1>7. Fresh(name, K)
  BY <1>1, <1>5, Info3Fresh
<1>8. Room(n, w)
  BY <1>2
<1>9. EndsWith(F \o <<TailArray("", name, w, n)>>, name, total)
  BY <1>4, <1>6, <1>7, <1>8, TheEnd
<1>10. GetNodeInfoResponse = F \o <<TailArray(part, name, w, n)>>
  BY <1>1, <1>2, <1>5, InfoLong
<1>11. EndsWith(GetNodeInfoResponse, name, total)
  BY <1>1, <1>9, <1>10
<1>12. EndsWith(GetNodeInfoResponse, "name", total)
  BY <1>1, <1>11
<1>13. total = InfoBits
  BY <1>3
<1> QED
  BY <1>12, <1>13

\* The index and the value of a request.
Request1     == <<Uint("", "index", 13)>>
Request1Keys == KeysAt("", {"index"})

LEMMA Request1Made == Made(Request1, Request1Keys, 13) /\ StartsFixed(Request1)
<1>1. PICK part \in Parts, name \in Plain, w \in UintWidths : part = "" /\ name = "index" /\ w = 13
  BY PartNames, OtherNames, UintWidthsFacts
<1>2. Made(<<Uint(part, name, w)>>, KeysAt(part, {name}), w) /\ StartsFixed(<<Uint(part, name, w)>>)
  BY OneUintMade
<1>3. Made(Request1, Request1Keys, w) /\ StartsFixed(Request1)
  BY <1>1, <1>2 DEF Request1, Request1Keys
<1> QED
  BY <1>1, <1>3

Request2 == Request1 \o Value("value", 0)
Request2Keys == Request1Keys \cup KeysAt("value", Names)

LEMMA Request2Made == Made(Request2, Request2Keys, 1048) /\ StartsFixed(Request2)
<1>1. PICK part \in Parts : part = "value"
  BY PartNames
<1>2. PICK m \in Nat, n \in Nat, total \in Nat : m = 13 /\ n = 1035 /\ total = 1048 /\ m + n = total
  OBVIOUS
<1>3. PICK F, G, K : F = Request1 /\ G = Value(part, 0) /\ K = Request1Keys
  OBVIOUS
<1>4. Made(F, K, m) /\ StartsFixed(F)
  BY <1>2, <1>3, Request1Made
<1>5. Made(G, KeysAt(part, Names), n)
  <2>0. Nested(part)
    BY <1>1, NestedParts
  <2>1. PICK skip \in 0..6, w \in Nat : skip = 0 /\ w = 3 /\ w = skip + 3
    OBVIOUS
  <2>2. w = skip + 3
    BY <2>1
  <2>3. Made(Value(part, skip), KeysAt(part, Names), w + 1032)
    BY <2>0, <2>2, ValueMade
  <2>4. w + 1032 = n
    BY <1>2, <2>1
  <2>5. G = Value(part, skip)
    BY <1>3, <2>1
  <2> QED
    BY <2>3, <2>4, <2>5
<1>6. NotIn(part, K)
  BY <1>1, <1>3, PartsApart, NothingOfOther, StillNotIn DEF Request1Keys
<1>7. Made(F \o G, K \cup KeysAt(part, Names), total) /\ StartsFixed(F \o G)
  BY <1>2, <1>4, <1>5, <1>6, Join
<1>8. Request2 = F \o G /\ Request2Keys = K \cup KeysAt(part, Names)
  BY <1>1, <1>3 DEF Request2, Request2Keys
<1> QED
  BY <1>2, <1>7, <1>8

LEMMA Request2Fresh == Fresh("name", Request2Keys)
BY PartsApart, NamesApart, NothingOfOther, FreshElsewhere, FreshHere, FreshBoth DEF Request1Keys,
   Request2Keys

LEMMA RequestLong == GetSetRequest = Request2 \o <<TailArray("", "name", 7, 92)>>
BY DEF GetSetRequest, Request1, Request2

LEMMA GetSetRequestType == EndsWith(GetSetRequest, "name", RequestBits)
<1>1. PICK part \in Parts, name \in Plain : part = "" /\ name = "name"
  BY PartNames, OtherNames
<1>2. PICK w \in ArrayWidths, n \in Counts : w = 7 /\ n = 92 /\ Room(n, w)
  BY CountsFacts, ArrayWidthsFacts, Rooms
<1>3. PICK m \in Nat, total \in Nat : m = 1048 /\ total = RequestBits
  BY DEF RequestBits
<1>4. m + 8 * n = total
  BY <1>2, <1>3 DEF RequestBits
<1>5. PICK F, K : F = Request2 /\ K = Request2Keys
  OBVIOUS
<1>6. Made(F, K, m) /\ StartsFixed(F)
  BY <1>3, <1>5, Request2Made
<1>7. Fresh(name, K)
  BY <1>1, <1>5, Request2Fresh
<1>8. Room(n, w)
  BY <1>2
<1>9. EndsWith(F \o <<TailArray("", name, w, n)>>, name, total)
  BY <1>4, <1>6, <1>7, <1>8, TheEnd
<1>10. GetSetRequest = F \o <<TailArray(part, name, w, n)>>
  BY <1>1, <1>2, <1>5, RequestLong
<1>11. EndsWith(GetSetRequest, name, total)
  BY <1>1, <1>9, <1>10
<1>12. EndsWith(GetSetRequest, "name", total)
  BY <1>1, <1>11
<1>13. total = RequestBits
  BY <1>3
<1> QED
  BY <1>12, <1>13

\* The four values of the answer.
Response1     == Value("value", 5)
Response1Keys == KeysAt("value", Names)

LEMMA Response1Made == Made(Response1, Response1Keys, 1040) /\ StartsFixed(Response1)
<1>1. PICK part \in Parts : part = "value" /\ Nested(part)
  BY PartNames, NestedParts
<1>2. PICK skip \in 0..6, w \in Nat : skip = 5 /\ w = 8 /\ w = skip + 3
  OBVIOUS
<1>3. Nested(part)
  BY <1>1
<1>4. w = skip + 3
  BY <1>2
<1>5. Made(Value(part, skip), KeysAt(part, Names), w + 1032) /\ StartsFixed(Value(part, skip))
  BY <1>3, <1>4, ValueMade
<1>6. w + 1032 = 1040
  BY <1>2
<1>7. Response1 = Value(part, skip) /\ Response1Keys = KeysAt(part, Names)
  BY <1>1, <1>2 DEF Response1, Response1Keys
<1> QED
  BY <1>5, <1>6, <1>7

Response2 == Response1 \o Value("default_value", 5)
Response2Keys == Response1Keys \cup KeysAt("default_value", Names)

LEMMA Response2Made == Made(Response2, Response2Keys, 2080) /\ StartsFixed(Response2)
<1>1. PICK part \in Parts : part = "default_value"
  BY PartNames
<1>2. PICK m \in Nat, n \in Nat, total \in Nat : m = 1040 /\ n = 1040 /\ total = 2080 /\ m + n = total
  OBVIOUS
<1>3. PICK F, G, K : F = Response1 /\ G = Value(part, 5) /\ K = Response1Keys
  OBVIOUS
<1>4. Made(F, K, m) /\ StartsFixed(F)
  BY <1>2, <1>3, Response1Made
<1>5. Made(G, KeysAt(part, Names), n)
  <2>0. Nested(part)
    BY <1>1, NestedParts
  <2>1. PICK skip \in 0..6, w \in Nat : skip = 5 /\ w = 8 /\ w = skip + 3
    OBVIOUS
  <2>2. w = skip + 3
    BY <2>1
  <2>3. Made(Value(part, skip), KeysAt(part, Names), w + 1032)
    BY <2>0, <2>2, ValueMade
  <2>4. w + 1032 = n
    BY <1>2, <2>1
  <2>5. G = Value(part, skip)
    BY <1>3, <2>1
  <2> QED
    BY <2>3, <2>4, <2>5
<1>6. NotIn(part, K)
  BY <1>1, <1>3, PartsApart, NothingOfOther, StillNotIn DEF Response1Keys
<1>7. Made(F \o G, K \cup KeysAt(part, Names), total) /\ StartsFixed(F \o G)
  BY <1>2, <1>4, <1>5, <1>6, Join
<1>8. Response2 = F \o G /\ Response2Keys = K \cup KeysAt(part, Names)
  BY <1>1, <1>3 DEF Response2, Response2Keys
<1> QED
  BY <1>2, <1>7, <1>8

Response3 == Response2 \o NumericValue("max_value", 6)
Response3Keys == Response2Keys \cup KeysAt("max_value", Names)

LEMMA Response3Made == Made(Response3, Response3Keys, 2152) /\ StartsFixed(Response3)
<1>1. PICK part \in Parts : part = "max_value"
  BY PartNames
<1>2. PICK m \in Nat, n \in Nat, total \in Nat : m = 2080 /\ n = 72 /\ total = 2152 /\ m + n = total
  OBVIOUS
<1>3. PICK F, G, K : F = Response2 /\ G = NumericValue(part, 6) /\ K = Response2Keys
  OBVIOUS
<1>4. Made(F, K, m) /\ StartsFixed(F)
  BY <1>2, <1>3, Response2Made
<1>5. Made(G, KeysAt(part, Names), n)
  <2>1. PICK skip \in 0..6, w \in Nat : skip = 6 /\ w = 8 /\ w = skip + 2
    OBVIOUS
  <2>2. w = skip + 2
    BY <2>1
  <2>3. Made(NumericValue(part, skip), KeysAt(part, Names), w + 64)
    BY <2>2, NumericValueMade
  <2>4. w + 64 = n
    BY <1>2, <2>1
  <2>5. G = NumericValue(part, skip)
    BY <1>3, <2>1
  <2> QED
    BY <2>3, <2>4, <2>5
<1>6. NotIn(part, K)
  BY <1>1, <1>3, PartsApart, NothingOfOther, StillNotIn DEF Response1Keys, Response2Keys
<1>7. Made(F \o G, K \cup KeysAt(part, Names), total) /\ StartsFixed(F \o G)
  BY <1>2, <1>4, <1>5, <1>6, Join
<1>8. Response3 = F \o G /\ Response3Keys = K \cup KeysAt(part, Names)
  BY <1>1, <1>3 DEF Response3, Response3Keys
<1> QED
  BY <1>2, <1>7, <1>8

Response4 == Response3 \o NumericValue("min_value", 6)
Response4Keys == Response3Keys \cup KeysAt("min_value", Names)

LEMMA Response4Made == Made(Response4, Response4Keys, 2224) /\ StartsFixed(Response4)
<1>1. PICK part \in Parts : part = "min_value"
  BY PartNames
<1>2. PICK m \in Nat, n \in Nat, total \in Nat : m = 2152 /\ n = 72 /\ total = 2224 /\ m + n = total
  OBVIOUS
<1>3. PICK F, G, K : F = Response3 /\ G = NumericValue(part, 6) /\ K = Response3Keys
  OBVIOUS
<1>4. Made(F, K, m) /\ StartsFixed(F)
  BY <1>2, <1>3, Response3Made
<1>5. Made(G, KeysAt(part, Names), n)
  <2>1. PICK skip \in 0..6, w \in Nat : skip = 6 /\ w = 8 /\ w = skip + 2
    OBVIOUS
  <2>2. w = skip + 2
    BY <2>1
  <2>3. Made(NumericValue(part, skip), KeysAt(part, Names), w + 64)
    BY <2>2, NumericValueMade
  <2>4. w + 64 = n
    BY <1>2, <2>1
  <2>5. G = NumericValue(part, skip)
    BY <1>3, <2>1
  <2> QED
    BY <2>3, <2>4, <2>5
<1>6. NotIn(part, K)
  BY <1>1, <1>3, PartsApart, NothingOfOther, StillNotIn DEF Response1Keys, Response2Keys, Response3Keys
<1>7. Made(F \o G, K \cup KeysAt(part, Names), total) /\ StartsFixed(F \o G)
  BY <1>2, <1>4, <1>5, <1>6, Join
<1>8. Response4 = F \o G /\ Response4Keys = K \cup KeysAt(part, Names)
  BY <1>1, <1>3 DEF Response4, Response4Keys
<1> QED
  BY <1>2, <1>7, <1>8

LEMMA Response4Fresh == Fresh("name", Response4Keys)
<1>1. NotIn("", Response4Keys)
  BY PartsApart, NothingOfOther, StillNotIn DEF Response1Keys, Response2Keys, Response3Keys,
     Response4Keys
<1> QED
  BY <1>1, FreshElsewhere

LEMMA ResponseLong == GetSetResponse = Response4 \o <<TailArray("", "name", 7, 92)>>
BY DEF GetSetResponse, Response1, Response2, Response3, Response4

LEMMA GetSetResponseType == EndsWith(GetSetResponse, "name", ResponseBits)
<1>1. PICK part \in Parts, name \in Plain : part = "" /\ name = "name"
  BY PartNames, OtherNames
<1>2. PICK w \in ArrayWidths, n \in Counts : w = 7 /\ n = 92 /\ Room(n, w)
  BY CountsFacts, ArrayWidthsFacts, Rooms
<1>3. PICK m \in Nat, total \in Nat : m = 2224 /\ total = ResponseBits
  BY DEF ResponseBits
<1>4. m + 8 * n = total
  BY <1>2, <1>3 DEF ResponseBits
<1>5. PICK F, K : F = Response4 /\ K = Response4Keys
  OBVIOUS
<1>6. Made(F, K, m) /\ StartsFixed(F)
  BY <1>3, <1>5, Response4Made
<1>7. Fresh(name, K)
  BY <1>1, <1>5, Response4Fresh
<1>8. Room(n, w)
  BY <1>2
<1>9. EndsWith(F \o <<TailArray("", name, w, n)>>, name, total)
  BY <1>4, <1>6, <1>7, <1>8, TheEnd
<1>10. GetSetResponse = F \o <<TailArray(part, name, w, n)>>
  BY <1>1, <1>2, <1>5, ResponseLong
<1>11. EndsWith(GetSetResponse, name, total)
  BY <1>1, <1>9, <1>10
<1>12. EndsWith(GetSetResponse, "name", total)
  BY <1>1, <1>11
<1>13. total = ResponseBits
  BY <1>3
<1> QED
  BY <1>12, <1>13

\* The kinds of the messages, those without an array at their end and those with one
\* behind fields of a fixed size.
PlainKinds == {"NodeStatus", "GetNodeInfoRequest", "RestartNodeRequest", "RestartNodeResponse"}
TailKinds  == {"LogMessage", "HardwareVersion", "GetSetResponse"}
NodeKinds  == PlainKinds \cup TailKinds \cup {"GetNodeInfoResponse", "GetSetRequest"}

\* The bits of a buffer.
StatusBits    == 56
EmptyBits     == 0
RestartBits   == 40
RestartedBits == 1
LogMax        == 983
HardwareMax   == 2192
ResponseMax   == 2967
InfoMax       == 3015
RequestMax    == 1791

LEMMA Types ==
  /\ Type("NodeStatus") = NodeStatus("")
  /\ Type("GetNodeInfoRequest") = Empty
  /\ Type("RestartNodeRequest") = RestartNodeRequest
  /\ Type("RestartNodeResponse") = RestartNodeResponse
  /\ Type("LogMessage") = LogMessage
  /\ Type("HardwareVersion") = HardwareVersion("")
  /\ Type("GetSetResponse") = GetSetResponse
  /\ Type("GetNodeInfoResponse") = GetNodeInfoResponse
  /\ Type("GetSetRequest") = GetSetRequest
BY DEF Type

LEMMA MaxSizes ==
  /\ MaxSize("NodeStatus") = Bytes(StatusBits)
  /\ MaxSize("GetNodeInfoRequest") = Bytes(EmptyBits)
  /\ MaxSize("RestartNodeRequest") = Bytes(RestartBits)
  /\ MaxSize("RestartNodeResponse") = Bytes(RestartedBits)
  /\ MaxSize("LogMessage") = Bytes(LogMax)
  /\ MaxSize("HardwareVersion") = Bytes(HardwareMax)
  /\ MaxSize("GetSetResponse") = Bytes(ResponseMax)
  /\ MaxSize("GetNodeInfoResponse") = Bytes(InfoMax)
  /\ MaxSize("GetSetRequest") = Bytes(RequestMax)
BY DEF MaxSize, StatusBits, EmptyBits, RestartBits, RestartedBits, LogMax, HardwareMax, ResponseMax,
   InfoMax, RequestMax

LEMMA MoreBytes ==
  ASSUME NEW m \in Nat, NEW n \in Nat, m <= n
  PROVE  Bytes(m) <= Bytes(n)
BY DEF Bytes

\* All structs of a type fit n bytes.
FitBytes(F, n) == \A s : HasType(F, s) => Bytes(All(F, s)) <= n

LEMMA SizesFit ==
  ASSUME NEW F, F \in Seq(NodeFields), NEW m \in Nat, \A s : HasType(F, s) => All(F, s) <= m,
         NEW n \in Nat, m <= n
  PROVE  FitBytes(F, Bytes(n))
<1> SUFFICES ASSUME NEW s, HasType(F, s)
             PROVE  Bytes(All(F, s)) <= Bytes(n)
  BY DEF FitBytes
<1>1. Len(F) \in 0..Len(F)
  OBVIOUS
<1>2. PICK k \in Nat : k = All(F, s)
  BY <1>1, EndFacts DEF All
<1>3. k <= m
  BY <1>2
<1>4. k <= n
  BY <1>3
<1> QED
  BY <1>2, <1>4, MoreBytes

LEMMA PlainFits ==
  ASSUME NEW F, NEW m \in Nat, Plainly(F, m), NEW n \in Nat, m <= n
  PROVE  Sound(F) /\ ~EndsInTail(F) /\ FitBytes(F, Bytes(n))
BY SizesFit DEF Plainly, Sound

LEMMA EndFits ==
  ASSUME NEW F, NEW name, NEW m \in Nat, EndsWith(F, name, m), NEW n \in Nat, m <= n
  PROVE  Sound(F) /\ EndsInTail(F) /\ LastKey(F) = <<"", name>> /\ FitBytes(F, Bytes(n))
BY SizesFit DEF EndsWith, Sound

LEMMA NodeStatusKind ==
  LET F == Type("NodeStatus")
  IN  /\ Sound(F) /\ ~EndsInTail(F)
      /\ FitBytes(F, MaxSize("NodeStatus"))
<1>1. PICK m \in Nat, n \in Nat : m = StatusBits /\ n = StatusBits
  BY DEF StatusBits
<1>2. PICK F : F = NodeStatus("")
  OBVIOUS
<1>3. Plainly(F, m)
  <2>1. Plainly(F, StatusBits)
    BY <1>2, NodeStatusType DEF StatusBits
  <2> QED
    BY <1>1, <2>1
<1>4. m <= n
  BY <1>1 DEF StatusBits
<1>5. Sound(F) /\ ~EndsInTail(F) /\ FitBytes(F, Bytes(n))
  BY <1>3, <1>4, PlainFits
<1>6. F = Type("NodeStatus")
  BY <1>2, Types
<1>7. Bytes(n) = MaxSize("NodeStatus")
  BY <1>1, MaxSizes
<1> QED
  BY <1>5, <1>6, <1>7

LEMMA GetNodeInfoRequestKind ==
  LET F == Type("GetNodeInfoRequest")
  IN  /\ Sound(F) /\ ~EndsInTail(F)
      /\ FitBytes(F, MaxSize("GetNodeInfoRequest"))
<1>1. PICK m \in Nat, n \in Nat : m = EmptyBits /\ n = EmptyBits
  BY DEF EmptyBits
<1>2. PICK F : F = Empty
  OBVIOUS
<1>3. Plainly(F, m)
  <2>1. Plainly(F, EmptyBits)
    BY <1>2, EmptyType DEF EmptyBits
  <2> QED
    BY <1>1, <2>1
<1>4. m <= n
  BY <1>1 DEF EmptyBits
<1>5. Sound(F) /\ ~EndsInTail(F) /\ FitBytes(F, Bytes(n))
  BY <1>3, <1>4, PlainFits
<1>6. F = Type("GetNodeInfoRequest")
  BY <1>2, Types
<1>7. Bytes(n) = MaxSize("GetNodeInfoRequest")
  BY <1>1, MaxSizes
<1> QED
  BY <1>5, <1>6, <1>7

LEMMA RestartNodeRequestKind ==
  LET F == Type("RestartNodeRequest")
  IN  /\ Sound(F) /\ ~EndsInTail(F)
      /\ FitBytes(F, MaxSize("RestartNodeRequest"))
<1>1. PICK m \in Nat, n \in Nat : m = RestartBits /\ n = RestartBits
  BY DEF RestartBits
<1>2. PICK F : F = RestartNodeRequest
  OBVIOUS
<1>3. Plainly(F, m)
  <2>1. Plainly(F, RestartBits)
    BY <1>2, RestartNodeRequestType DEF RestartBits
  <2> QED
    BY <1>1, <2>1
<1>4. m <= n
  BY <1>1 DEF RestartBits
<1>5. Sound(F) /\ ~EndsInTail(F) /\ FitBytes(F, Bytes(n))
  BY <1>3, <1>4, PlainFits
<1>6. F = Type("RestartNodeRequest")
  BY <1>2, Types
<1>7. Bytes(n) = MaxSize("RestartNodeRequest")
  BY <1>1, MaxSizes
<1> QED
  BY <1>5, <1>6, <1>7

LEMMA RestartNodeResponseKind ==
  LET F == Type("RestartNodeResponse")
  IN  /\ Sound(F) /\ ~EndsInTail(F)
      /\ FitBytes(F, MaxSize("RestartNodeResponse"))
<1>1. PICK m \in Nat, n \in Nat : m = RestartedBits /\ n = RestartedBits
  BY DEF RestartedBits
<1>2. PICK F : F = RestartNodeResponse
  OBVIOUS
<1>3. Plainly(F, m)
  <2>1. Plainly(F, RestartedBits)
    BY <1>2, RestartNodeResponseType DEF RestartedBits
  <2> QED
    BY <1>1, <2>1
<1>4. m <= n
  BY <1>1 DEF RestartedBits
<1>5. Sound(F) /\ ~EndsInTail(F) /\ FitBytes(F, Bytes(n))
  BY <1>3, <1>4, PlainFits
<1>6. F = Type("RestartNodeResponse")
  BY <1>2, Types
<1>7. Bytes(n) = MaxSize("RestartNodeResponse")
  BY <1>1, MaxSizes
<1> QED
  BY <1>5, <1>6, <1>7

LEMMA LogMessageKind ==
  LET F == Type("LogMessage")
  IN  /\ Sound(F) /\ EndsInTail(F) /\ LastKey(F) = <<"", "text">>
      /\ FitBytes(F, MaxSize("LogMessage"))
<1>1. PICK m \in Nat, n \in Nat : m = LogBits /\ n = LogMax
  BY DEF LogBits, LogMax
<1>2. PICK F, name : F = LogMessage /\ name = "text"
  OBVIOUS
<1>3. EndsWith(F, name, m)
  <2>1. EndsWith(F, name, LogBits)
    BY <1>2, LogMessageType
  <2> QED
    BY <1>1, <2>1
<1>4. m <= n
  BY <1>1 DEF LogBits, LogMax
<1>5. Sound(F) /\ EndsInTail(F) /\ LastKey(F) = <<"", name>> /\ FitBytes(F, Bytes(n))
  BY <1>3, <1>4, EndFits
<1>6. F = Type("LogMessage")
  BY <1>2, Types
<1>7. Bytes(n) = MaxSize("LogMessage")
  BY <1>1, MaxSizes
<1> QED
  BY <1>2, <1>5, <1>6, <1>7

LEMMA HardwareVersionKind ==
  LET F == Type("HardwareVersion")
  IN  /\ Sound(F) /\ EndsInTail(F) /\ LastKey(F) = <<"", "certificate_of_authenticity">>
      /\ FitBytes(F, MaxSize("HardwareVersion"))
<1>1. PICK m \in Nat, n \in Nat : m = HardwareBits /\ n = HardwareMax
  BY DEF HardwareBits, HardwareMax
<1>2. PICK F, name : F = HardwareVersion("") /\ name = "certificate_of_authenticity"
  OBVIOUS
<1>3. EndsWith(F, name, m)
  <2>1. EndsWith(F, name, HardwareBits)
    BY <1>2, HardwareVersionType
  <2> QED
    BY <1>1, <2>1
<1>4. m <= n
  BY <1>1 DEF HardwareBits, HardwareMax
<1>5. Sound(F) /\ EndsInTail(F) /\ LastKey(F) = <<"", name>> /\ FitBytes(F, Bytes(n))
  BY <1>3, <1>4, EndFits
<1>6. F = Type("HardwareVersion")
  BY <1>2, Types
<1>7. Bytes(n) = MaxSize("HardwareVersion")
  BY <1>1, MaxSizes
<1> QED
  BY <1>2, <1>5, <1>6, <1>7

LEMMA GetSetResponseKind ==
  LET F == Type("GetSetResponse")
  IN  /\ Sound(F) /\ EndsInTail(F) /\ LastKey(F) = <<"", "name">>
      /\ FitBytes(F, MaxSize("GetSetResponse"))
<1>1. PICK m \in Nat, n \in Nat : m = ResponseBits /\ n = ResponseMax
  BY DEF ResponseBits, ResponseMax
<1>2. PICK F, name : F = GetSetResponse /\ name = "name"
  OBVIOUS
<1>3. EndsWith(F, name, m)
  <2>1. EndsWith(F, name, ResponseBits)
    BY <1>2, GetSetResponseType
  <2> QED
    BY <1>1, <2>1
<1>4. m <= n
  BY <1>1 DEF ResponseBits, ResponseMax
<1>5. Sound(F) /\ EndsInTail(F) /\ LastKey(F) = <<"", name>> /\ FitBytes(F, Bytes(n))
  BY <1>3, <1>4, EndFits
<1>6. F = Type("GetSetResponse")
  BY <1>2, Types
<1>7. Bytes(n) = MaxSize("GetSetResponse")
  BY <1>1, MaxSizes
<1> QED
  BY <1>2, <1>5, <1>6, <1>7

LEMMA GetNodeInfoResponseKind ==
  LET F == Type("GetNodeInfoResponse")
  IN  /\ Sound(F) /\ EndsInTail(F) /\ LastKey(F) = <<"", "name">>
      /\ FitBytes(F, MaxSize("GetNodeInfoResponse"))
<1>1. PICK m \in Nat, n \in Nat : m = InfoBits /\ n = InfoMax
  BY DEF InfoBits, InfoMax
<1>2. PICK F, name : F = GetNodeInfoResponse /\ name = "name"
  OBVIOUS
<1>3. EndsWith(F, name, m)
  <2>1. EndsWith(F, name, InfoBits)
    BY <1>2, GetNodeInfoResponseType
  <2> QED
    BY <1>1, <2>1
<1>4. m <= n
  BY <1>1 DEF InfoBits, InfoMax
<1>5. Sound(F) /\ EndsInTail(F) /\ LastKey(F) = <<"", name>> /\ FitBytes(F, Bytes(n))
  BY <1>3, <1>4, EndFits
<1>6. F = Type("GetNodeInfoResponse")
  BY <1>2, Types
<1>7. Bytes(n) = MaxSize("GetNodeInfoResponse")
  BY <1>1, MaxSizes
<1> QED
  BY <1>2, <1>5, <1>6, <1>7

LEMMA GetSetRequestKind ==
  LET F == Type("GetSetRequest")
  IN  /\ Sound(F) /\ EndsInTail(F) /\ LastKey(F) = <<"", "name">>
      /\ FitBytes(F, MaxSize("GetSetRequest"))
<1>1. PICK m \in Nat, n \in Nat : m = RequestBits /\ n = RequestMax
  BY DEF RequestBits, RequestMax
<1>2. PICK F, name : F = GetSetRequest /\ name = "name"
  OBVIOUS
<1>3. EndsWith(F, name, m)
  <2>1. EndsWith(F, name, RequestBits)
    BY <1>2, GetSetRequestType
  <2> QED
    BY <1>1, <2>1
<1>4. m <= n
  BY <1>1 DEF RequestBits, RequestMax
<1>5. Sound(F) /\ EndsInTail(F) /\ LastKey(F) = <<"", name>> /\ FitBytes(F, Bytes(n))
  BY <1>3, <1>4, EndFits
<1>6. F = Type("GetSetRequest")
  BY <1>2, Types
<1>7. Bytes(n) = MaxSize("GetSetRequest")
  BY <1>1, MaxSizes
<1> QED
  BY <1>2, <1>5, <1>6, <1>7

LEMMA EveryKind ==
  ASSUME NEW kind \in NodeKinds
  PROVE  Sound(Type(kind)) /\ FitBytes(Type(kind), MaxSize(kind))
BY NodeStatusKind, GetNodeInfoRequestKind, RestartNodeRequestKind, RestartNodeResponseKind,
   LogMessageKind, HardwareVersionKind, GetSetResponseKind, GetNodeInfoResponseKind,
   GetSetRequestKind DEF NodeKinds, PlainKinds, TailKinds

LEMMA EveryPlainKind ==
  ASSUME NEW kind \in PlainKinds
  PROVE  ~EndsInTail(Type(kind))
BY NodeStatusKind, GetNodeInfoRequestKind, RestartNodeRequestKind,
   RestartNodeResponseKind
   DEF PlainKinds

LEMMA EveryTailKind ==
  ASSUME NEW kind \in TailKinds
  PROVE  EndsInTail(Type(kind)) /\ LastKey(Type(kind)) = <<"", LastArray[kind]>>
           /\ kind \in DOMAIN LastArray
<1>1. /\ DOMAIN LastArray = {"LogMessage", "HardwareVersion", "GetSetResponse"}
      /\ LastArray["LogMessage"] = "text" /\ LastArray["GetSetResponse"] = "name"
      /\ LastArray["HardwareVersion"] = "certificate_of_authenticity"
  BY DEF LastArray
<1> QED
  BY <1>1, LogMessageKind, HardwareVersionKind, GetSetResponseKind DEF TailKinds

\* A field is somewhere in a type.
Occurs(f, F) == \E i \in DOMAIN F : F[i] = f

LEMMA OccursInParts ==
  ASSUME NEW F \in Seq(NodeFields), NEW G \in Seq(NodeFields), NEW f, Occurs(f, F) \/ Occurs(f, G)
  PROVE  Occurs(f, F \o G)
<1>1. CASE Occurs(f, F)
  <2>1. PICK i \in 1..Len(F) : F[i] = f
    BY <1>1 DEF Occurs
  <2>2. i \in 1..Len(F \o G) /\ (F \o G)[i] = f
    BY <2>1, PartsTyped
  <2> QED
    BY <2>2, PartsTyped DEF Occurs
<1>2. CASE Occurs(f, G)
  <2>1. PICK i \in 1..Len(G) : G[i] = f
    BY <1>2 DEF Occurs
  <2>2. (F \o G)[Len(F) + i] = f
    BY <2>1, PartsTyped
  <2>3. Len(F) + i \in 1..Len(F \o G)
    BY PartsTyped
  <2> QED
    BY <2>2, <2>3, PartsTyped DEF Occurs
<1> QED
  BY <1>1, <1>2

Certificate == TailArray("hardware_version", "certificate_of_authenticity", 8, 255)

LEMMA CertificateFacts == Certificate.t = "tail" /\ Certificate.part # "" /\ Certificate.member = 0
BY DEF Certificate, TailArray, Item

LEMMA CertificateField == Certificate \in NodeFields
<1>1. "hardware_version" \in Parts /\ "certificate_of_authenticity" \in Plain
  BY OtherNames, PartNames
<1>2. PICK part \in Parts, name \in Plain : part = "hardware_version"
        /\ name = "certificate_of_authenticity"
  BY <1>1
<1>3. "tail" \in ArrayKinds
  BY DEF ArrayKinds
<1>4. PICK t \in ArrayKinds : t = "tail"
  BY <1>3
<1>5. 8 \in ArrayWidths /\ 255 \in 0..255 /\ Room(255, 8)
  BY DEF ArrayWidths, Room
<1>6. Item(t, part, name, 8, 255) \in NodeFields
  BY <1>5, ArrayIsField
<1> QED
  BY <1>2, <1>4, <1>6 DEF Certificate, TailArray

\* The answer to GetNodeInfo always has an array at the end of a part.
LEMMA CertificateOccurs == Occurs(Certificate, GetNodeInfoResponse)
<1>1. /\ Info2 \in Seq(NodeFields) /\ Info3 \in Seq(NodeFields)
      /\ Hardware("hardware_version") \in Seq(NodeFields)
  <2>1. PICK part \in Parts : part = "hardware_version"
    BY PartNames
  <2>2. Hardware(part) \in Seq(NodeFields)
    BY HardwareMade DEF Made
  <2>3. Info2 \in Seq(NodeFields) /\ Info3 \in Seq(NodeFields)
    BY Info2Made, Info3Made DEF Made
  <2> QED
    BY <2>1, <2>2, <2>3
<1>2. <<Certificate>> \in Seq(NodeFields) /\ Occurs(Certificate, <<Certificate>>)
  <2>1. DOMAIN <<Certificate>> = 1..1 /\ 1 \in 1..1
    OBVIOUS
  <2> QED
    BY <2>1, CertificateField, OneField DEF Occurs
<1>3. HardwareVersion("hardware_version") = Hardware("hardware_version") \o <<Certificate>>
  <2>1. PICK part \in Parts : part = "hardware_version"
    BY PartNames
  <2>2. HardwareVersion(part) = Hardware(part)
          \o <<TailArray(part, "certificate_of_authenticity", 8, 255)>>
    BY HardwareLong
  <2> QED
    BY <2>1, <2>2 DEF Certificate
<1>4. Hardware("hardware_version") \o <<Certificate>> \in Seq(NodeFields)
  BY <1>1, <1>2, PartsTyped
<1>5. Occurs(Certificate, HardwareVersion("hardware_version"))
  BY <1>1, <1>2, <1>3, OccursInParts
<1>6. Occurs(Certificate, Info3)
  BY <1>1, <1>3, <1>4, <1>5, OccursInParts DEF Info3
<1>7. <<TailArray("", "name", 7, 80)>> \in Seq(NodeFields)
  <2>1. "" \in Parts /\ "name" \in Plain
    BY OtherNames, PartNames
  <2>2. PICK name \in Plain : name = "name"
    BY <2>1
  <2>3. 7 \in ArrayWidths /\ 80 \in 0..255 /\ Room(80, 7)
    BY DEF ArrayWidths, Room
  <2>4. TailArray("", name, 7, 80) \in NodeFields
    BY <2>3, TailField
  <2> QED
    BY <2>2, <2>4, OneField
<1> QED
  BY <1>1, <1>6, <1>7, OccursInParts, InfoLong

LEMMA NodeInfoNested ==
  ASSUME NEW m, m.kind = "GetNodeInfoResponse"
  PROVE  HasNestedTail(m)
<1>1. Type(m.kind) = GetNodeInfoResponse
  BY Types
<1>2. PICK i \in DOMAIN GetNodeInfoResponse : GetNodeInfoResponse[i] = Certificate
  BY CertificateOccurs DEF Occurs
<1>3. Present(Certificate, m.body)
  BY CertificateFacts DEF Present
<1> QED
  BY <1>1, <1>2, <1>3, CertificateFacts DEF HasNestedTail

-----------------------------------------------------------------------------
(* What a receiver hears *)

LEMMA NoTailUnlessNested ==
  ASSUME NEW m, Sound(Type(m.kind)), ~HasNestedTail(m)
  PROVE  /\ ~EndsInTail(Type(m.kind)) => NoTail(Type(m.kind), m.body, Len(Type(m.kind)))
         /\ EndsInTail(Type(m.kind)) => NoTail(Type(m.kind), m.body, Len(Type(m.kind)) - 1)
<1> DEFINE F == Type(m.kind)
<1>1. F \in Seq(NodeFields) /\ Len(F) \in Nat /\ DOMAIN F = 1..Len(F)
  BY DEF Sound
<1>2. ASSUME NEW i \in 1..Len(F), F[i].t = "tail", Present(F[i], m.body)
      PROVE  EndsInTail(F) /\ i = Len(F)
  <2>1. F[i].part = ""
    BY <1>1, <1>2 DEF HasNestedTail
  <2>2. i = Len(F) /\ i > 1
    BY <1>2, <2>1 DEF Sound, TailLast
  <2>3. Len(F) > 0
    BY <1>1, <2>2
  <2>4. F[Len(F)].t = "tail" /\ F[Len(F)].part = ""
    BY <1>2, <2>1, <2>2
  <2> QED
    BY <2>2, <2>3, <2>4 DEF EndsInTail
<1>3. \A i \in 1..(Len(F) - 1) : i \in 1..Len(F) /\ i # Len(F)
  BY <1>1
<1> HIDE DEF F
<1>4. (~EndsInTail(F) => NoTail(F, m.body, Len(F))) /\ (EndsInTail(F) => NoTail(F, m.body, Len(F) - 1))
  BY <1>2, <1>3 DEF NoTail
<1> QED
  BY <1>4 DEF F

\* The last array of a struct, and the struct with other bytes in it.
LEMMA LastIsThere ==
  ASSUME NEW F, Sound(F), EndsInTail(F), NEW s, HasType(F, s)
  PROVE  /\ Len(F) \in 1..Len(F) /\ F[Len(F)] \in NodeFields /\ Present(F[Len(F)], s)
         /\ LastKey(F) \in DOMAIN s /\ s[LastKey(F)] \in Seq(Byte)
         /\ AsHeard(F[Len(F)], s) = s[LastKey(F)]
<1>1. Len(F) \in 1..Len(F) /\ F[Len(F)] \in NodeFields
  <2>1. F \in Seq(NodeFields)
    BY DEF Sound
  <2>2. Len(F) > 0
    BY DEF EndsInTail
  <2> QED
    BY <2>1, <2>2
<1>2. F[Len(F)].t = "tail" /\ F[Len(F)].part = ""
  BY DEF EndsInTail
<1>3. F[Len(F)].member = 0
  BY <1>1, <1>2, FieldShape
<1>4. Present(F[Len(F)], s)
  BY <1>3 DEF Present
<1>5. TypedField(F[Len(F)], s)
  BY <1>1, FieldFacts, ZeroFills DEF Sound
<1> QED
  BY <1>1, <1>2, <1>4, <1>5 DEF TypedField, LastKey, AsHeard

Replaced(F, s, u) == [s EXCEPT ![LastKey(F)] = u]

LEMMA ReplacedFacts ==
  ASSUME NEW F, Sound(F), EndsInTail(F), NEW s, HasType(F, s), NEW u, NEW i \in 1..(Len(F) - 1)
  PROVE  /\ Present(F[i], Replaced(F, s, u)) <=> Present(F[i], s)
         /\ Present(F[i], s) => /\ Key(F[i]) \in DOMAIN s /\ Key(F[i]) # LastKey(F)
                                /\ Replaced(F, s, u)[Key(F[i])] = s[Key(F[i])]
<1>1. i \in 1..Len(F) /\ i # Len(F) /\ Len(F) \in 1..Len(F) /\ F \in Seq(NodeFields)
  BY DEF Sound
<1>2. ASSUME NEW j \in 1..Len(F), j # Len(F)
      PROVE  Key(F[j]) # LastKey(F)
  BY <1>1, <1>2 DEF Sound, Unique, LastKey
<1>3. ASSUME NEW k \in DOMAIN s, k # LastKey(F)
      PROVE  Replaced(F, s, u)[k] = s[k]
  BY <1>3 DEF Replaced
<1>4. Present(F[i], s) => Key(F[i]) \in DOMAIN s
  <2>1. TypedField(F[i], s)
    BY <1>1, FieldFacts, ZeroFills
  <2> QED
    BY <2>1 DEF TypedField
<1>5. Present(F[i], Replaced(F, s, u)) <=> Present(F[i], s)
  <2>1. CASE F[i].member = 0
    BY <2>1 DEF Present
  <2>2. CASE F[i].member # 0
    <3>1. PICK j \in 1..(i - 1) : Key(F[j]) = TagKey(F[i]) /\ Present(F[j], s)
      BY <1>1, <2>2, TagHeard
    <3>2. j \in 1..Len(F) /\ j # Len(F)
      BY <1>1
    <3>3. TypedField(F[j], s)
      BY <1>1, <3>2, FieldFacts, ZeroFills
    <3>4. TagKey(F[i]) \in DOMAIN s
      BY <3>1, <3>3 DEF TypedField
    <3>5. TagKey(F[i]) # LastKey(F)
      BY <1>2, <3>1, <3>2
    <3>6. Replaced(F, s, u)[TagKey(F[i])] = s[TagKey(F[i])]
      BY <1>3, <3>4, <3>5
    <3> QED
      BY <3>6 DEF Present
  <2> QED
    BY <2>1, <2>2
<1>6. Key(F[i]) # LastKey(F)
  BY <1>1, <1>2
<1> QED
  BY <1>3, <1>4, <1>5, <1>6

\* What is decoded when fewer bytes were left for the last array.
LEMMA ShorterTail ==
  ASSUME NEW F, Sound(F), EndsInTail(F), NEW s, HasType(F, s), NEW u,
         NEW before, DecodedUpTo(before, F, s, Len(F) - 1), NEW d, TailTaken(d, before, F, u)
  PROVE  d.ok /\ d.val[LastKey(F)] = u /\ Same(F, Replaced(F, s, u), d.val)
<1> DEFINE n == Len(F)
           r == Replaced(F, s, u)
<1>0. F \in Seq(NodeFields)
  BY DEF Sound
<1>1. /\ n \in 1..n /\ F[n] \in NodeFields /\ LastKey(F) \in DOMAIN s
  BY LastIsThere
<1>2. d.val = [k \in {LastKey(F)} |-> u] ++ before.val
  BY DEF TailTaken
<1>3. LastKey(F) \in DOMAIN d.val /\ d.val[LastKey(F)] = u
  BY <1>2 DEF ++
<1>4. ASSUME NEW k \in DOMAIN before.val, k # LastKey(F)
      PROVE  k \in DOMAIN d.val /\ d.val[k] = before.val[k]
  BY <1>2, <1>4 DEF ++
<1>5. \A i \in 1..n : i = n \/ i \in 1..(n - 1)
  BY <1>0
<1>6. SameField(F[n], r, d.val)
  <2>1. r[Key(F[n])] = u
    BY <1>1 DEF Replaced, LastKey
  <2>2. F[n].t # "uint"
    BY DEF EndsInTail
  <2> QED
    BY <1>3, <2>1, <2>2 DEF SameField, LastKey
<1>7. ASSUME NEW i \in 1..(n - 1)
      PROVE  SameField(F[i], r, d.val)
  <2>1. i \in 1..Len(F)
    BY <1>0
  <2>2. F[i] \in NodeFields /\ TypedField(F[i], s)
    BY <1>0, <2>1, FieldFacts, ZeroFills
  <2>3. CASE ~Present(F[i], s)
    BY <2>3, ReplacedFacts DEF SameField
  <2>4. CASE Present(F[i], s)
    <3>1. Key(F[i]) \in DOMAIN before.val /\ before.val[Key(F[i])] = AsHeard(F[i], s)
      BY <2>4 DEF DecodedUpTo
    <3>2. Key(F[i]) # LastKey(F) /\ r[Key(F[i])] = s[Key(F[i])]
      BY <2>4, ReplacedFacts
    <3>3. Key(F[i]) \in DOMAIN d.val /\ d.val[Key(F[i])] = AsHeard(F[i], s)
      BY <1>4, <3>1, <3>2
    <3>4. SameField(F[i], s, d.val)
      BY <2>2, <3>3, DecodedField
    <3> QED
      BY <2>4, <3>2, <3>4 DEF SameField
  <2> QED
    BY <2>3, <2>4
<1>8. DOMAIN F = 1..n
  BY <1>0
<1>9. Same(F, r, d.val)
  BY <1>5, <1>6, <1>7, <1>8 DEF Same
<1> QED
  BY <1>3, <1>9 DEF TailTaken

LEMMA FirstBytes ==
  ASSUME NEW v \in Seq(Byte), NEW n \in 0..Len(v)
  PROVE  /\ n = Len(v) => First(v, n) = v
         /\ n # Len(v) => IsStrictPrefix(First(v, n), v)
<1>1. n = Len(v) => First(v, n) = v
  BY AllBytes DEF First
<1>2. ASSUME n # Len(v)
      PROVE  IsStrictPrefix(First(v, n), v)
  <2>1. n \in Nat /\ Len(v) \in Nat /\ n < Len(v)
    BY <1>2
  <2>2. First(v, n) \in Seq(Byte) /\ Len(First(v, n)) = n /\ \A i \in 1..n : First(v, n)[i] = v[i]
    BY <2>1 DEF First
  <2>3. SubSeq(First(v, n), 1, n) = SubSeq(v, 1, n)
    BY <2>1, <2>2
  <2>4. First(v, n) # v
    BY <2>1, <2>2
  <2> QED
    BY <2>1, <2>2, <2>3, <2>4 DEF IsStrictPrefix, IsPrefix
<1> QED
  BY <1>1, <1>2

\* A message, and a payload that has its first k bytes.
Sendable(m) == m.kind \in NodeKinds /\ HasType(Type(m.kind), m.body)
Size8(m)    == Whole8(Type(m.kind), m.body)

LEMMA Size8IsNat == ASSUME NEW m, Sendable(m) PROVE Size8(m) \in Nat
<1>1. Sound(Type(m.kind)) /\ HasType(Type(m.kind), m.body)
  BY EveryKind DEF Sendable
<1> DEFINE F == Type(m.kind)
<1>2. F \in Seq(NodeFields) /\ Len(F) \in 0..Len(F)
  BY <1>1 DEF Sound
<1>3. All(F, m.body) \in Nat
  BY <1>1, <1>2, EndFacts DEF All
<1> QED
  BY <1>3, BytesFacts DEF Size8, Whole8

LEMMA HeardAs ==
  ASSUME NEW kind, NEW p, NEW d, d = After(Type(kind), p)[Len(Type(kind))]
  PROVE  /\ d.ok => Received(kind, p).kind = kind /\ Received(kind, p).body = d.val
         /\ ~d.ok => Received(kind, p) = Failed
BY DEF Received

\* Either nothing was lost or the receiver knows, but for the last array.
LEMMA PlainHeard ==
  ASSUME NEW m, Sendable(m), ~HasNestedTail(m), ~EndsInTail(Type(m.kind)),
         NEW k \in 0..Size8(m), NEW p, Beginning(p, m, k)
  PROVE  LET h == Received(m.kind, p)
         IN  /\ k = Size8(m) => h.kind = m.kind /\ Same(Type(m.kind), m.body, h.body)
             /\ k # Size8(m) => h = Failed
<1> DEFINE F == Type(m.kind)
           d == After(F, p)[Len(F)]
<1>1. Sound(F) /\ HasType(F, m.body)
  BY EveryKind DEF Sendable
<1>2. NoTail(F, m.body, Len(F))
  BY <1>1, NoTailUnlessNested
<1>3. k \in 0..Whole8(F, m.body)
  BY DEF Size8
<1>4. Carries(p, F, m.body) /\ Len(p) = 8 * k
  BY <1>1, <1>3, BeginningFacts
<1>5. /\ k = Whole8(F, m.body) => DecodedUpTo(d, F, m.body, Len(F))
      /\ k # Whole8(F, m.body) => d = Bad
  BY <1>1, <1>2, <1>3, <1>4, FixedOutcome
<1>6. /\ d.ok => Received(m.kind, p).kind = m.kind /\ Received(m.kind, p).body = d.val
      /\ ~d.ok => Received(m.kind, p) = Failed
  BY HeardAs
<1> HIDE DEF d
<1>7. CASE k = Size8(m)
  <2>1. DecodedUpTo(d, F, m.body, Len(F))
    BY <1>5, <1>7 DEF Size8
  <2>2. Same(F, m.body, d.val)
    BY <1>1, <2>1, DecodedIsSame
  <2>3. d.ok
    BY <2>1 DEF DecodedUpTo
  <2> QED
    BY <1>6, <1>7, <2>2, <2>3
<1>8. CASE k # Size8(m)
  <2>1. d = Bad
    BY <1>5, <1>8 DEF Size8
  <2>2. ~d.ok
    BY <2>1, NotBad
  <2> QED
    BY <1>6, <1>8, <2>2
<1> QED
  BY <1>7, <1>8

LEMMA TailHeard ==
  ASSUME NEW m, Sendable(m), ~HasNestedTail(m), EndsInTail(Type(m.kind)),
         NEW k \in 0..Size8(m), NEW p, Beginning(p, m, k)
  PROVE  LET h    == Received(m.kind, p)
             F    == Type(m.kind)
             last == LastKey(F)
         IN  \/ k # Size8(m) /\ h = Failed
             \/ /\ h.kind = m.kind /\ Same(F, Replaced(F, m.body, h.body[last]), h.body)
                /\ k = Size8(m) => h.body[last] = m.body[last]
                /\ k # Size8(m) => IsStrictPrefix(h.body[last], m.body[last])
<1> DEFINE F == Type(m.kind)
           d == After(F, p)[Len(F)]
           before == After(F, p)[Len(F) - 1]
           v == m.body[LastKey(F)]
<1>1. Sound(F) /\ HasType(F, m.body)
  BY EveryKind DEF Sendable
<1>2. NoTail(F, m.body, Len(F) - 1)
  BY <1>1, NoTailUnlessNested
<1>3. k \in 0..Whole8(F, m.body)
  BY DEF Size8
<1>4. Carries(p, F, m.body) /\ Len(p) = 8 * k
  BY <1>1, <1>3, BeginningFacts
<1>5. \/ k # Whole8(F, m.body) /\ d = Bad
      \/ /\ DecodedUpTo(before, F, m.body, Len(F) - 1)
         /\ \E n \in 0..Len(v) : /\ TailTaken(d, before, F, First(v, n))
                                 /\ k = Whole8(F, m.body) <=> n = Len(v)
  BY <1>1, <1>2, <1>3, <1>4, TailOutcome
<1>6. /\ d.ok => Received(m.kind, p).kind = m.kind /\ Received(m.kind, p).body = d.val
      /\ ~d.ok => Received(m.kind, p) = Failed
  BY HeardAs
<1>7. v \in Seq(Byte)
  BY <1>1, LastIsThere
<1> HIDE DEF d, before, v
<1>8. CASE k # Whole8(F, m.body) /\ d = Bad
  <2>1. ~d.ok
    BY <1>8, NotBad
  <2> QED
    BY <1>6, <1>8, <2>1 DEF Size8
<1>9. CASE /\ DecodedUpTo(before, F, m.body, Len(F) - 1)
           /\ \E n \in 0..Len(v) : /\ TailTaken(d, before, F, First(v, n))
                                   /\ k = Whole8(F, m.body) <=> n = Len(v)
  <2>1. PICK n \in 0..Len(v) : /\ TailTaken(d, before, F, First(v, n))
                               /\ k = Whole8(F, m.body) <=> n = Len(v)
    BY <1>9
  <2>2. d.ok /\ d.val[LastKey(F)] = First(v, n) /\ Same(F, Replaced(F, m.body, First(v, n)), d.val)
    BY <1>1, <1>9, <2>1, ShorterTail
  <2>3. /\ n = Len(v) => First(v, n) = v
        /\ n # Len(v) => IsStrictPrefix(First(v, n), v)
    BY <1>7, FirstBytes
  <2>4. Received(m.kind, p).kind = m.kind /\ Received(m.kind, p).body = d.val
    BY <1>6, <2>2
  <2>5. k = Size8(m) <=> n = Len(v)
    BY <2>1 DEF Size8
  <2> QED
    BY <2>2, <2>3, <2>4, <2>5 DEF v
<1> QED
  BY <1>5, <1>8, <1>9

LEMMA ReplacedBySame ==
  ASSUME NEW F, Sound(F), EndsInTail(F), NEW s, HasType(F, s), NEW b,
         Same(F, Replaced(F, s, s[LastKey(F)]), b)
  PROVE  Same(F, s, b)
<1> DEFINE r == Replaced(F, s, s[LastKey(F)])
           n == Len(F)
<1>1. F \in Seq(NodeFields) /\ n \in 1..n /\ LastKey(F) \in DOMAIN s /\ DOMAIN F = 1..n
  BY LastIsThere DEF Sound
<1>2. \A i \in 1..n : i = n \/ i \in 1..(n - 1)
  <2>1. n \in Nat
    BY <1>1
  <2> QED
    BY <2>1
<1>3. ASSUME NEW i \in 1..n
      PROVE  SameField(F[i], s, b)
  <2>1. SameField(F[i], r, b)
    BY <1>1 DEF Same
  <2>2. CASE i = n
    <3>1. r[Key(F[n])] = s[Key(F[n])]
      BY <1>1 DEF Replaced, LastKey
    <3>2. Present(F[n], r)
      <4>1. F[n].member = 0
        BY <1>1, LastIsThere, FieldShape DEF EndsInTail
      <4> QED
        BY <4>1 DEF Present
    <3> QED
      BY <2>1, <2>2, <3>1, <3>2 DEF SameField
  <2>3. CASE i \in 1..(n - 1)
    BY <2>1, <2>3, ReplacedFacts DEF SameField
  <2> QED
    BY <1>2, <2>2, <2>3
<1> QED
  BY <1>1, <1>3 DEF Same

\* What arrives is what was sent if all of it arrives.
LEMMA WholeHeard ==
  ASSUME NEW m, Sendable(m), ~HasNestedTail(m), NEW p, Beginning(p, m, Size8(m))
  PROVE  LET h == Received(m.kind, p)
         IN  h.kind = m.kind /\ Same(Type(m.kind), m.body, h.body)
<1>1. PICK k \in 0..Size8(m) : k = Size8(m)
  BY Size8IsNat
<1>2. Beginning(p, m, k)
  BY <1>1
<1>3. CASE ~EndsInTail(Type(m.kind))
  BY <1>1, <1>2, <1>3, PlainHeard
<1>4. CASE EndsInTail(Type(m.kind))
  <2> DEFINE F == Type(m.kind)
             h == Received(m.kind, p)
  <2>1. /\ h.kind = m.kind /\ Same(F, Replaced(F, m.body, h.body[LastKey(F)]), h.body)
        /\ h.body[LastKey(F)] = m.body[LastKey(F)]
    BY <1>1, <1>2, <1>4, TailHeard
  <2>2. Sound(F) /\ HasType(F, m.body)
    BY EveryKind DEF Sendable
  <2>3. Same(F, Replaced(F, m.body, m.body[LastKey(F)]), h.body)
    BY <2>1
  <2> HIDE DEF F, h
  <2>4. Same(F, m.body, h.body)
    BY <1>4, <2>2, <2>3, ReplacedBySame DEF F
  <2> QED
    BY <2>1, <2>4 DEF F, h
<1> QED
  BY <1>3, <1>4

-----------------------------------------------------------------------------
(* The answers are structs of their types *)

\* A union in a struct that is empty or an integer.
ValueTyped(s, part) ==
  LET tag == <<part, "tag">>
      int == <<part, "integer_value">>
  IN  tag \in DOMAIN s /\ (s[tag] = 0 \/ (s[tag] = 1 /\ int \in DOMAIN s /\ s[int] \in Number))

TagWidths == {2, 3}

LEMMA SmallTag ==
  ASSUME NEW w \in TagWidths, NEW v, v = 0 \/ v = 1
  PROVE  v \in Number /\ v < 2^w
<1>1. v \in {0, 1}
  OBVIOUS
<1>2. ASSUME NEW u \in {0, 1}, NEW x \in {2, 3}
      PROVE  u \in Number /\ u < 2^x
  <2>1. 2^2 = 4 /\ 2^3 = 8
    OBVIOUS
  <2>2. u \in 0..1000 /\ u < 4 /\ u < 8
    OBVIOUS
  <2> QED
    BY <2>1, <2>2, Small
<1>3. w \in {2, 3}
  BY DEF TagWidths
<1> QED
  BY <1>1, <1>2, <1>3

LEMMA TagTyped ==
  ASSUME NEW f, NEW part, f.t = "uint", f.name = "tag", f.part = part, f.width \in TagWidths,
         NEW s, ValueTyped(s, part)
  PROVE  TypedField(f, s)
<1>1. Key(f) = <<part, "tag">>
  BY DEF Key
<1>2. Key(f) \in DOMAIN s /\ (s[Key(f)] = 0 \/ s[Key(f)] = 1)
  BY <1>1 DEF ValueTyped
<1>3. s[Key(f)] \in Number /\ s[Key(f)] < 2^f.width
  BY <1>2, SmallTag
<1> QED
  BY <1>2, <1>3 DEF TypedField

LEMMA IntegerTyped ==
  ASSUME NEW f, NEW part, f.t = "uint", f.name = "integer_value", f.part = part, f.member = 1,
         NEW s, ValueTyped(s, part)
  PROVE  TypedField(f, s)
<1> SUFFICES ASSUME Present(f, s)
             PROVE  Key(f) \in DOMAIN s /\ s[Key(f)] \in Number
  BY DEF TypedField
<1>1. Key(f) = <<part, "integer_value">> /\ TagKey(f) = <<part, "tag">>
  BY DEF Key, TagKey
<1>2. 0 # 1
  OBVIOUS
<1>3. s[<<part, "tag">>] = 1
  BY <1>1, <1>2 DEF Present
<1>4. s[<<part, "tag">>] # 0
  BY <1>2, <1>3
<1> QED
  BY <1>1, <1>4 DEF ValueTyped

LEMMA OthersTyped ==
  ASSUME NEW f, NEW part, f.part = part, f.member # 0, f.member # 1, NEW s, ValueTyped(s, part)
  PROVE  TypedField(f, s)
<1>1. s[TagKey(f)] = 0 \/ s[TagKey(f)] = 1
  BY DEF ValueTyped, TagKey
<1>2. ~Present(f, s)
  BY <1>1 DEF Present
<1> QED
  BY <1>2 DEF TypedField

LEMMA ValueHasType ==
  ASSUME NEW part \in Parts, Nested(part), NEW skip \in 0..6, NEW s, ValueTyped(s, part)
  PROVE  HasType(Value(part, skip), s)
<1>1. PICK a, b, c, d, e : /\ a = UnionTag(part, 3, skip)
                           /\ b = Member(1, Uint(part, "integer_value", 64))
                           /\ c = Member(2, Uint(part, "real_value", 32))
                           /\ d = Member(3, Uint(part, "boolean_value", 8))
                           /\ e = Member(4, TailArray(part, "string_value", 8, 128))
  OBVIOUS
<1>2. TypedField(a, s)
  <2>1. a.t = "uint" /\ a.name = "tag" /\ a.part = part /\ a.width = 3
    BY <1>1 DEF UnionTag, Uint, Item
  <2>2. a.width \in TagWidths
    BY <2>1 DEF TagWidths
  <2> QED
    BY <2>1, <2>2, TagTyped
<1>3. TypedField(b, s)
  <2>1. b.t = "uint" /\ b.name = "integer_value" /\ b.part = part /\ b.member = 1
    BY <1>1 DEF Member, Uint, Item
  <2> QED
    BY <2>1, IntegerTyped
<1>4. TypedField(c, s) /\ TypedField(d, s) /\ TypedField(e, s)
  <2>1. /\ c.part = part /\ d.part = part /\ e.part = part
        /\ c.member = 2 /\ d.member = 3 /\ e.member = 4
    BY <1>1 DEF Member, Uint, TailArray, Item
  <2>2. 2 # 0 /\ 2 # 1 /\ 3 # 0 /\ 3 # 1 /\ 4 # 0 /\ 4 # 1
    OBVIOUS
  <2> QED
    BY <2>1, <2>2, OthersTyped
<1>5. Value(part, skip) = <<a, b, c, d, e>>
  BY <1>1 DEF Value
<1>6. PICK F : F = <<a, b, c, d, e>>
  OBVIOUS
<1>7. /\ DOMAIN F = 1..5 /\ F[1] = a /\ F[2] = b /\ F[3] = c /\ F[4] = d /\ F[5] = e
      /\ \A i \in 1..5 : i = 1 \/ i = 2 \/ i = 3 \/ i = 4 \/ i = 5
  BY <1>6
<1> QED
  BY <1>2, <1>3, <1>4, <1>5, <1>6, <1>7 DEF HasType

LEMMA NumericHasType ==
  ASSUME NEW part \in Parts, NEW skip \in 0..6, NEW s, ValueTyped(s, part)
  PROVE  HasType(NumericValue(part, skip), s)
<1>1. PICK a, b, c : /\ a = UnionTag(part, 2, skip)
                     /\ b = Member(1, Uint(part, "integer_value", 64))
                     /\ c = Member(2, Uint(part, "real_value", 32))
  OBVIOUS
<1>2. TypedField(a, s)
  <2>1. a.t = "uint" /\ a.name = "tag" /\ a.part = part /\ a.width = 2
    BY <1>1 DEF UnionTag, Uint, Item
  <2>2. a.width \in TagWidths
    BY <2>1 DEF TagWidths
  <2> QED
    BY <2>1, <2>2, TagTyped
<1>3. TypedField(b, s)
  <2>1. b.t = "uint" /\ b.name = "integer_value" /\ b.part = part /\ b.member = 1
    BY <1>1 DEF Member, Uint, Item
  <2> QED
    BY <2>1, IntegerTyped
<1>4. TypedField(c, s)
  <2>1. c.part = part /\ c.member = 2
    BY <1>1 DEF Member, Uint, Item
  <2>2. 2 # 0 /\ 2 # 1
    OBVIOUS
  <2> QED
    BY <2>1, <2>2, OthersTyped
<1>5. NumericValue(part, skip) = <<a, b, c>>
  BY <1>1 DEF NumericValue
<1>6. PICK F : F = <<a, b, c>>
  OBVIOUS
<1>7. /\ DOMAIN F = 1..3 /\ F[1] = a /\ F[2] = b /\ F[3] = c
      /\ \A i \in 1..3 : i = 1 \/ i = 2 \/ i = 3
  BY <1>6
<1> QED
  BY <1>2, <1>3, <1>4, <1>5, <1>6, <1>7 DEF HasType

\* Structs of several parts.
NoKeysOf(v, part) == \A x : <<part, x>> \notin DOMAIN v

LEMMA ValueInFront ==
  ASSUME NEW v, NEW w, NEW part, ValueTyped(v, part)
  PROVE  ValueTyped(v ++ w, part)
<1>1. /\ \A k \in DOMAIN v : k \in DOMAIN (v ++ w) /\ (v ++ w)[k] = v[k]
  BY DEF ++
<1> QED
  BY <1>1 DEF ValueTyped

LEMMA ValueBehind ==
  ASSUME NEW v, NEW w, NEW part, NoKeysOf(v, part), ValueTyped(w, part)
  PROVE  ValueTyped(v ++ w, part)
<1>1. /\ \A k \in DOMAIN w : k \notin DOMAIN v => k \in DOMAIN (v ++ w) /\ (v ++ w)[k] = w[k]
  BY DEF ++
<1>2. <<part, "tag">> \notin DOMAIN v /\ <<part, "integer_value">> \notin DOMAIN v
  BY DEF NoKeysOf
<1> QED
  BY <1>1, <1>2 DEF ValueTyped

LEMMA NoKeysInBoth ==
  ASSUME NEW v, NEW w, NEW part, NoKeysOf(v, part), NoKeysOf(w, part)
  PROVE  NoKeysOf(v ++ w, part)
<1>1. DOMAIN (v ++ w) = DOMAIN v \cup DOMAIN w
  BY DEF ++
<1> QED
  BY <1>1 DEF NoKeysOf

\* A struct of one part.
PartStruct(v, part) == ValueTyped(v, part) /\ \A other : other # part => NoKeysOf(v, other)

LEMMA EmptyValueTyped == ASSUME NEW part PROVE PartStruct(EmptyValue(part), part)
BY DEF PartStruct, EmptyValue, ValueTyped, NoKeysOf

LEMMA IntegerValueTyped ==
  ASSUME NEW part, NEW n \in Number
  PROVE  PartStruct(Integer(part, n), part)
<1> DEFINE v == Integer(part, n)
<1>1. DOMAIN v = {<<part, "tag">>, <<part, "integer_value">>}
  BY DEF Integer
<1>2. v[<<part, "tag">>] = 1 /\ v[<<part, "integer_value">>] = n
  BY DEF Integer
<1> HIDE DEF v
<1>3. PartStruct(v, part)
  BY <1>1, <1>2 DEF PartStruct, ValueTyped, NoKeysOf
<1> QED
  BY <1>3 DEF v

NameTail == <<TailArray("", "name", 7, 92)>>
ShortName(name) == name \in Seq(Byte) /\ Len(name) <= 92

LEMMA ShortNames == ShortName(FirstName) /\ ShortName(SecondName) /\ ShortName(<<>>)
<1>1. /\ FirstName \in Seq(0..255) /\ Len(FirstName) = 5
      /\ SecondName \in Seq(0..255) /\ Len(SecondName) = 6
  BY DEF FirstName, SecondName
<1>2. <<>> \in Seq(0..255) /\ Len(<<>>) = 0
  OBVIOUS
<1> QED
  BY <1>1, <1>2 DEF ShortName, Byte

LEMMA Single ==
  ASSUME NEW x
  PROVE  DOMAIN <<x>> = 1..1 /\ \A i \in 1..1 : <<x>>[i] = x
OBVIOUS

LEMMA NameTyped ==
  ASSUME NEW front, NoKeysOf(front, ""), NEW name, ShortName(name)
  PROVE  HasType(NameTail, front ++ [k \in {<<"", "name">>} |-> name])
<1> DEFINE f == TailArray("", "name", 7, 92)
           s == front ++ [k \in {<<"", "name">>} |-> name]
<1>1. Key(f) = <<"", "name">> /\ f.t = "tail" /\ f.n = 92
  BY DEF TailArray, Item, Key
<1>2. <<"", "name">> \notin DOMAIN front
  BY DEF NoKeysOf
<1>3. <<"", "name">> \in DOMAIN s /\ s[<<"", "name">>] = name
  BY <1>2 DEF ++
<1> HIDE DEF s, f
<1>4. "tail" # "uint" /\ "tail" # "items"
  OBVIOUS
<1>5. name \in Seq(Byte) /\ Len(name) <= f.n
  BY <1>1 DEF ShortName
<1>6. TypedField(f, s)
  BY <1>1, <1>3, <1>4, <1>5 DEF TypedField
<1>7. HasType(<<f>>, s)
  <2>1. \A i \in DOMAIN <<f>> : <<f>>[i] = f
    BY Single
  <2> QED
    BY <1>6, <2>1 DEF HasType
<1> QED
  BY <1>7 DEF f, s, NameTail

LEMMA FourValues ==
  ASSUME NEW a, PartStruct(a, "value"), NEW b, PartStruct(b, "default_value"),
         NEW c, PartStruct(c, "min_value"), NEW d, PartStruct(d, "max_value"), NEW e
  PROVE  LET s == a ++ b ++ c ++ d ++ e
         IN  /\ ValueTyped(s, "value") /\ ValueTyped(s, "default_value")
             /\ ValueTyped(s, "max_value") /\ ValueTyped(s, "min_value")
             /\ NoKeysOf(a ++ b ++ c ++ d, "")
<1>1. ValueTyped(a ++ b ++ c ++ d ++ e, "value")
  BY ValueInFront DEF PartStruct
<1>2. ValueTyped(a ++ b ++ c ++ d ++ e, "default_value")
  <2>1. ValueTyped(a ++ b, "default_value")
    BY ValueBehind, PartsApart DEF PartStruct
  <2> QED
    BY <2>1, ValueInFront
<1>3. ValueTyped(a ++ b ++ c ++ d ++ e, "min_value")
  <2>1. NoKeysOf(a ++ b, "min_value")
    BY NoKeysInBoth, PartsApart DEF PartStruct
  <2>2. ValueTyped(a ++ b ++ c, "min_value")
    BY <2>1, ValueBehind DEF PartStruct
  <2> QED
    BY <2>2, ValueInFront
<1>4. ValueTyped(a ++ b ++ c ++ d ++ e, "max_value")
  <2>1. NoKeysOf(a ++ b, "max_value")
    BY NoKeysInBoth, PartsApart DEF PartStruct
  <2>2. NoKeysOf(c, "max_value")
    BY PartsApart DEF PartStruct
  <2>3. NoKeysOf(a ++ b ++ c, "max_value")
    BY <2>1, <2>2, NoKeysInBoth
  <2>4. ValueTyped(a ++ b ++ c ++ d, "max_value")
    BY <2>3, ValueBehind DEF PartStruct
  <2> QED
    BY <2>4, ValueInFront
<1>5. NoKeysOf(a ++ b ++ c ++ d, "")
  <2>1. NoKeysOf(a, "") /\ NoKeysOf(b, "") /\ NoKeysOf(c, "") /\ NoKeysOf(d, "")
    BY PartsApart DEF PartStruct
  <2>2. NoKeysOf(a ++ b, "")
    BY <2>1, NoKeysInBoth
  <2>3. NoKeysOf(a ++ b ++ c, "")
    BY <2>1, <2>2, NoKeysInBoth
  <2> QED
    BY <2>1, <2>3, NoKeysInBoth
<1> QED
  BY <1>1, <1>2, <1>3, <1>4, <1>5

LEMMA NameTailField == NameTail \in Seq(NodeFields)
<1>1. PICK name \in Plain, w \in ArrayWidths, n \in 0..255 : name = "name" /\ w = 7 /\ n = 92
  BY OtherNames, ArrayWidthsFacts, CountsFacts DEF Counts
<1>2. Room(n, w)
  BY <1>1, Rooms
<1>3. TailArray("", name, w, n) \in NodeFields
  BY <1>2, TailField
<1>4. PICK f \in NodeFields : f = TailArray("", name, w, n)
  BY <1>3
<1>5. <<f>> \in Seq(NodeFields)
  BY OneField
<1> QED
  BY <1>1, <1>4, <1>5 DEF NameTail

LEMMA ResponseTyped ==
  ASSUME NEW s, ValueTyped(s, "value"), ValueTyped(s, "default_value"),
         ValueTyped(s, "max_value"), ValueTyped(s, "min_value"),
         HasType(NameTail, s)
  PROVE  HasType(GetSetResponse, s)
<1>1. PICK p1 \in Parts, p2 \in Parts, p3 \in Parts, p4 \in Parts :
        p1 = "value" /\ p2 = "default_value" /\ p3 = "max_value" /\ p4 = "min_value"
  BY PartNames
<1>2. PICK five \in 0..6, six \in 0..6 : five = 5 /\ six = 6
  OBVIOUS
<1>3. Nested(p1) /\ Nested(p2)
  BY <1>1, NestedParts
<1>4. ValueTyped(s, p1) /\ ValueTyped(s, p2) /\ ValueTyped(s, p3) /\ ValueTyped(s, p4)
  BY <1>1
<1>5. /\ HasType(Value(p1, five), s) /\ HasType(Value(p2, five), s)
      /\ HasType(NumericValue(p3, six), s) /\ HasType(NumericValue(p4, six), s)
  BY <1>3, <1>4, ValueHasType, NumericHasType
<1>6. PICK A, B, C, D : A = Value(p1, five) /\ B = Value(p2, five) /\ C = NumericValue(p3, six)
        /\ D = NumericValue(p4, six)
  OBVIOUS
<1>7. /\ A \in Seq(NodeFields) /\ B \in Seq(NodeFields) /\ C \in Seq(NodeFields)
      /\ D \in Seq(NodeFields)
  <2>1. PICK u \in Nat, v \in Nat : u = five + 3 /\ v = six + 2
    OBVIOUS
  <2>2. u = five + 3
    BY <2>1
  <2>3. v = six + 2
    BY <2>1
  <2>4. /\ Made(Value(p1, five), KeysAt(p1, Names), u + 1032)
        /\ Made(Value(p2, five), KeysAt(p2, Names), u + 1032)
    BY <1>3, <2>2, ValueMade
  <2>5. /\ Made(NumericValue(p3, six), KeysAt(p3, Names), v + 64)
        /\ Made(NumericValue(p4, six), KeysAt(p4, Names), v + 64)
    BY <2>3, NumericValueMade
  <2>6. /\ Value(p1, five) \in Seq(NodeFields) /\ Value(p2, five) \in Seq(NodeFields)
        /\ NumericValue(p3, six) \in Seq(NodeFields) /\ NumericValue(p4, six) \in Seq(NodeFields)
    BY <2>4, <2>5 DEF Made
  <2> QED
    BY <1>6, <2>6
<1>8. Response1 = A /\ Response2 = Response1 \o B /\ Response3 = Response2 \o C
        /\ Response4 = Response3 \o D
  BY <1>1, <1>2, <1>6 DEF Response1, Response2, Response3, Response4
<1>9. /\ Response1 \in Seq(NodeFields) /\ Response2 \in Seq(NodeFields)
      /\ Response3 \in Seq(NodeFields) /\ Response4 \in Seq(NodeFields)
  BY Response1Made, Response2Made, Response3Made, Response4Made DEF Made
<1>10. HasType(Response1, s)
  BY <1>5, <1>6, <1>8
<1>11. HasType(Response2, s)
  BY <1>5, <1>6, <1>7, <1>8, <1>9, <1>10, SplitTypes
<1>12. HasType(Response3, s)
  BY <1>5, <1>6, <1>7, <1>8, <1>9, <1>11, SplitTypes
<1>13. HasType(Response4, s)
  BY <1>5, <1>6, <1>7, <1>8, <1>9, <1>12, SplitTypes
<1>14. NameTail \in Seq(NodeFields)
  BY NameTailField
<1>15. GetSetResponse = Response4 \o NameTail
  BY ResponseLong DEF NameTail
<1> QED
  BY <1>9, <1>13, <1>14, <1>15, SplitTypes

LEMMA AnswerTyped ==
  ASSUME NEW a, PartStruct(a, "value"), NEW b, PartStruct(b, "default_value"),
         NEW c, PartStruct(c, "min_value"), NEW d, PartStruct(d, "max_value"),
         NEW name, ShortName(name)
  PROVE  LET m == GetSetAnswer(a, b, c, d, name)
         IN  m.kind = "GetSetResponse" /\ HasType(GetSetResponse, m.body)
               /\ m = [kind |-> m.kind, body |-> m.body]
<1>1. PICK e : e = [k \in {<<"", "name">>} |-> name]
  OBVIOUS
<1>2. PICK s : s = a ++ b ++ c ++ d ++ e
  OBVIOUS
<1>3. HasType(GetSetResponse, s)
  BY <1>1, <1>2, FourValues, NameTyped, ResponseTyped
<1>4. GetSetAnswer(a, b, c, d, name) = [kind |-> "GetSetResponse", body |-> s]
  BY <1>1, <1>2 DEF GetSetAnswer
<1> QED
  BY <1>3, <1>4

\* A message of a known kind and the type of its kind.
Proper(m) == Sendable(m) /\ m = [kind |-> m.kind, body |-> m.body]

LEMMA ParameterIsProper ==
  ASSUME NEW v1 \in Number, NEW v2 \in Number, NEW v3 \in Number, NEW v4 \in Number,
         NEW name, ShortName(name)
  PROVE  Proper(Parameter(v1, v2, v3, v4, name))
<1>1. Type("GetSetResponse") = GetSetResponse /\ "GetSetResponse" \in NodeKinds
  BY Types DEF NodeKinds, TailKinds
<1> QED
  BY <1>1, IntegerValueTyped, AnswerTyped DEF Parameter, Proper, Sendable

LEMMA AnswersAreProper ==
  ASSUME NEW index, NEW n \in Number
  PROVE  Proper(GetAnswer(index)) /\ Proper(SetAnswer(n))
<1>1. 1 \in Number /\ 2 \in Number /\ 3 \in Number /\ 4 \in Number /\ 5 \in Number /\ 6 \in Number
  BY Small
<1>2. Proper(Parameter(2, 2, 1, 3, FirstName)) /\ Proper(Parameter(5, 5, 4, 6, SecondName))
  BY <1>1, ShortNames, ParameterIsProper
<1>3. Proper(GetSetAnswer(EmptyValue("value"), EmptyValue("default_value"),
                          EmptyValue("min_value"), EmptyValue("max_value"), <<>>))
  <2>1. Type("GetSetResponse") = GetSetResponse /\ "GetSetResponse" \in NodeKinds
    BY Types DEF NodeKinds, TailKinds
  <2> QED
    BY <2>1, ShortNames, EmptyValueTyped, AnswerTyped DEF Proper, Sendable
<1>4. Proper(GetAnswer(index))
  BY <1>2, <1>3 DEF GetAnswer
<1>5. Proper(SetAnswer(n))
  BY <1>1, ShortNames, ParameterIsProper DEF SetAnswer
<1> QED
  BY <1>4, <1>5

\* A decoder keeps what it has decoded.
LEMMA ThenKeeps ==
  ASSUME NEW d, NEW f, NEW p, Then(d, f, p).ok
  PROVE  /\ d.ok
         /\ \A k \in DOMAIN d.val : k # Key(f) => /\ k \in DOMAIN Then(d, f, p).val
                                                  /\ Then(d, f, p).val[k] = d.val[k]
<1>1. d.ok
  BY NotBad DEF Then
<1>2. CASE ~Present(f, d.val)
  BY <1>1, <1>2 DEF Then
<1>3. CASE Present(f, d.val)
  <2> DEFINE v == ReadField(f, p, d.at + f.skip)
             w == [k \in {Key(f)} |-> v.val] ++ d.val
  <2>1. Then(d, f, p) = IF v.ok THEN Good(v.at, w) ELSE Bad
    BY <1>1, <1>3 DEF Then
  <2>2. \A k \in DOMAIN d.val : k # Key(f) => k \in DOMAIN w /\ w[k] = d.val[k]
    BY DEF ++
  <2> HIDE DEF v, w
  <2>3. Then(d, f, p) = Good(v.at, w)
    BY <2>1, NotBad
  <2>4. Then(d, f, p).val = w
    BY <2>3, GoodFacts
  <2> QED
    BY <1>1, <2>2, <2>4
<1> QED
  BY <1>2, <1>3

StillThere(d, e, F, j) ==
  /\ d.ok
  /\ \A i \in 1..j : Key(F[i]) \in DOMAIN d.val => /\ Key(F[i]) \in DOMAIN e.val
                                                   /\ e.val[Key(F[i])] = d.val[Key(F[i])]

LEMMA Kept ==
  ASSUME NEW F \in Seq(NodeFields), Unique(F), NEW p, NEW j \in 0..Len(F)
  PROVE  \A n \in j..Len(F) : After(F, p)[n].ok => StillThere(After(F, p)[j], After(F, p)[n], F, j)
<1> DEFINE at(n) == After(F, p)[n]
           Right(n) == at(n).ok => StillThere(at(j), at(n), F, j)
           Wrong == {n \in j..Len(F) : ~Right(n)}
<1>1. \A n \in 1..Len(F) : at(n) = Then(at(n - 1), F[n], p)
  BY AfterDefined
<1> HIDE DEF at
<1>2. Right(j)
  BY DEF StillThere
<1>3. ASSUME NEW n \in j..Len(F), n # j, Right(n - 1)
      PROVE  Right(n)
  <2>1. n \in 1..Len(F) /\ \A i \in 1..j : i \in 1..Len(F) /\ i # n
    BY <1>3
  <2> SUFFICES ASSUME at(n).ok
               PROVE  StillThere(at(j), at(n), F, j)
    OBVIOUS
  <2>2. at(n) = Then(at(n - 1), F[n], p)
    BY <1>1, <2>1
  <2>3. /\ at(n - 1).ok
        /\ \A k \in DOMAIN at(n - 1).val : k # Key(F[n]) => /\ k \in DOMAIN at(n).val
                                                            /\ at(n).val[k] = at(n - 1).val[k]
    BY <2>2, ThenKeeps
  <2>4. StillThere(at(j), at(n - 1), F, j)
    BY <1>3, <2>3
  <2>5. \A i \in 1..j : Key(F[i]) # Key(F[n])
    BY <2>1 DEF Unique
  <2> QED
    BY <2>3, <2>4, <2>5 DEF StillThere
<1> HIDE DEF Right
<1>4. Wrong = {}
  <2> SUFFICES ASSUME Wrong # {}
               PROVE  FALSE
    OBVIOUS
  <2>1. PICK n \in Wrong : \A i \in Wrong : ~(i < n)
    <3>1. Wrong \in SUBSET Nat
      OBVIOUS
    <3> HIDE DEF Wrong
    <3> QED
      BY <3>1, HasLeast
  <2>2. n \in j..Len(F) /\ ~Right(n)
    OBVIOUS
  <2>3. n # j
    BY <1>2, <2>2
  <2>4. n - 1 \in j..Len(F) /\ n - 1 < n
    BY <2>2, <2>3
  <2>5. Right(n - 1)
    BY <2>1, <2>4
  <2> QED
    BY <1>3, <2>2, <2>3, <2>5
<1>5. \A n \in j..Len(F) : Right(n)
  BY <1>4
<1> QED
  BY <1>5 DEF Right, at

\* The tag and the integer of a request that was decoded.
RequestTag     == UnionTag("value", 3, 0)
RequestInteger == Member(1, Uint("value", "integer_value", 64))

LEMMA RequestFields ==
  /\ RequestTag.t = "uint" /\ RequestTag.name = "tag" /\ Key(RequestTag) = <<"value", "tag">>
  /\ RequestTag.member = 0
  /\ RequestInteger.t = "uint" /\ RequestInteger.member = 1
  /\ Key(RequestInteger) = <<"value", "integer_value">> /\ TagKey(RequestInteger) = <<"value", "tag">>
BY DEF RequestTag, RequestInteger, UnionTag, Member, Uint, Item, Key, TagKey

LEMMA FirstUnion ==
  ASSUME NEW G \in Seq(NodeFields), NEW H \in Seq(NodeFields), NEW K \in Seq(NodeFields),
         Len(G) = 1, Len(H) = 5
  PROVE  LET F == G \o H \o K
         IN  Len(F) \in Nat /\ Len(F) >= 3 /\ F[1] = G[1] /\ F[2] = H[1] /\ F[3] = H[2]
<1>1. G \o H \in Seq(NodeFields) /\ Len(K) \in Nat
  BY PartsTyped
<1>2. Len(G \o H) = 6 /\ (G \o H)[1] = G[1] /\ (G \o H)[1 + 1] = H[1] /\ (G \o H)[1 + 2] = H[2]
  <2>1. 1 \in 1..1 /\ 1 \in 1..5 /\ 2 \in 1..5 /\ 1 + 5 = 6
    OBVIOUS
  <2>2. Len(G \o H) = Len(G) + Len(H)
    BY PartsTyped
  <2>3. \A i \in 1..Len(G) : (G \o H)[i] = G[i]
    BY PartsTyped
  <2>4. \A i \in 1..Len(H) : (G \o H)[Len(G) + i] = H[i]
    BY PartsTyped
  <2>5. \A i \in 1..5 : (G \o H)[1 + i] = H[i]
    BY <2>4
  <2>6. \A i \in 1..1 : (G \o H)[i] = G[i]
    BY <2>3
  <2> QED
    BY <2>1, <2>2, <2>5, <2>6
<1>3. 1 + 1 = 2 /\ 1 + 2 = 3 /\ 1 \in 1..6 /\ 2 \in 1..6 /\ 3 \in 1..6
  OBVIOUS
<1>4. PICK F : F = G \o H \o K
  OBVIOUS
<1>5. Len(F) = 6 + Len(K) /\ F[1] = G[1] /\ F[2] = H[1] /\ F[3] = H[2]
  <2>1. Len(F) = Len(G \o H) + Len(K)
    BY <1>1, <1>4, PartsTyped
  <2>2. \A i \in 1..Len(G \o H) : F[i] = (G \o H)[i]
    BY <1>1, <1>4, PartsTyped
  <2>3. F[1] = (G \o H)[1] /\ F[2] = (G \o H)[2] /\ F[3] = (G \o H)[3]
    BY <1>2, <1>3, <2>2
  <2>4. (G \o H)[2] = H[1] /\ (G \o H)[3] = H[2]
    BY <1>2, <1>3
  <2> QED
    BY <1>2, <2>1, <2>3, <2>4
<1>6. Len(F) \in Nat /\ Len(F) >= 3
  BY <1>1, <1>5
<1> QED
  BY <1>4, <1>5, <1>6

LEMMA RequestStart ==
  /\ Len(GetSetRequest) \in Nat /\ Len(GetSetRequest) >= 3
  /\ GetSetRequest[1] = Uint("", "index", 13)
  /\ GetSetRequest[2] = RequestTag /\ GetSetRequest[3] = RequestInteger
<1>1. PICK G, H, K : G = Request1 /\ H = Value("value", 0) /\ K = NameTail
  OBVIOUS
<1>2. GetSetRequest = G \o H \o K
  BY <1>1, RequestLong DEF Request2, NameTail
<1>3. G \in Seq(NodeFields)
  BY <1>1, Request1Made DEF Made
<1>4. H \in Seq(NodeFields)
  <2>1. PICK part \in Parts : part = "value"
    BY PartNames
  <2>2. Nested(part)
    BY <2>1, NestedParts
  <2>3. PICK skip \in 0..6, w \in Nat : skip = 0 /\ w = 3 /\ w = skip + 3
    OBVIOUS
  <2>4. w = skip + 3
    BY <2>3
  <2>5. Value(part, skip) \in Seq(NodeFields)
    BY <2>2, <2>4, ValueMade DEF Made
  <2> QED
    BY <1>1, <2>1, <2>3, <2>5
<1>5. K \in Seq(NodeFields)
  BY <1>1, NameTailField
<1>6. G = <<Uint("", "index", 13)>>
  BY <1>1 DEF Request1
<1>7. PICK c, d, e : H = <<RequestTag, RequestInteger, c, d, e>>
  BY <1>1 DEF Value, RequestTag, RequestInteger
<1>8. Len(G) = 1 /\ G[1] = Uint("", "index", 13)
  BY <1>6
<1>9. Len(H) = 5 /\ H[1] = RequestTag /\ H[2] = RequestInteger
  BY <1>7
<1>10. PICK F : F = G \o H \o K
  OBVIOUS
<1>11. Len(F) \in Nat /\ Len(F) >= 3 /\ F[1] = G[1] /\ F[2] = H[1] /\ F[3] = H[2]
  <2>1. Len(G) = 1 /\ Len(H) = 5
    BY <1>8, <1>9
  <2> QED
    BY <1>3, <1>4, <1>5, <1>10, <2>1, FirstUnion
<1> QED
  BY <1>2, <1>8, <1>9, <1>10, <1>11

\* A request whose tag says so has an integer in it, however much of it has arrived.
LEMMA RequestHeard ==
  ASSUME NEW m, Sendable(m), m.kind = "GetSetRequest", NEW k \in 0..Size8(m), NEW p, Beginning(p, m, k)
  PROVE  LET req == Received("GetSetRequest", p)
         IN  req # Failed /\ req.body[<<"value", "tag">>] = 1 =>
               req.body[<<"value", "integer_value">>] \in Number
<1>1. PICK F, s : F = GetSetRequest /\ s = m.body
  OBVIOUS
<1>2. Type(m.kind) = F
  BY <1>1, Types
<1>3. Sound(F) /\ HasType(F, s) /\ F \in Seq(NodeFields) /\ Unique(F)
  BY <1>1, <1>2, EveryKind DEF Sendable, Sound
<1>4. Carries(p, F, s)
  <2>1. Sound(Type(m.kind)) /\ HasType(Type(m.kind), m.body) /\ k \in 0..Whole8(Type(m.kind), m.body)
    BY <1>1, <1>2, <1>3 DEF Size8
  <2> QED
    BY <1>1, <1>2, <2>1, BeginningFacts
<1>5. PICK a, b, c : a = F[1] /\ b = F[2] /\ c = F[3]
  OBVIOUS
<1>6. /\ a.t = "uint" /\ b.t = "uint" /\ c.t = "uint" /\ b.member = 0 /\ c.member = 1 /\ b.name = "tag"
      /\ Key(b) = <<"value", "tag">> /\ Key(c) = <<"value", "integer_value">>
      /\ TagKey(c) = <<"value", "tag">>
  <2>1. a = Uint("", "index", 13) /\ b = RequestTag /\ c = RequestInteger
    BY <1>1, <1>5, RequestStart
  <2>2. a.t = "uint"
    BY <2>1 DEF Uint, Item
  <2> QED
    BY <2>1, <2>2, RequestFields
<1>7. Len(F) \in Nat /\ Len(F) >= 3
  BY <1>1, RequestStart
<1>8. /\ 3 \in 0..Len(F) /\ 2 \in 1..Len(F) /\ 3 \in 1..Len(F) /\ Len(F) \in 3..Len(F)
      /\ 3 \in 0..3 /\ 2 \in 1..3 /\ 3 \in 1..3
      /\ \A i \in 1..3 : i = 1 \/ i = 2 \/ i = 3
  BY <1>7
<1>9. NoTail(F, s, 3)
  <2>1. \A i \in 1..3 : F[i].t = "uint"
    BY <1>5, <1>6, <1>8
  <2> QED
    BY <2>1 DEF NoTail
<1>10. PICK d, e : d = After(F, p)[Len(F)] /\ e = After(F, p)[3]
  OBVIOUS
<1>11. /\ d.ok => Received("GetSetRequest", p).body = d.val
       /\ ~d.ok => Received("GetSetRequest", p) = Failed
  <2>1. PICK kind : kind = "GetSetRequest"
    OBVIOUS
  <2>2. d = After(Type(kind), p)[Len(Type(kind))]
    BY <1>1, <1>2, <1>10, <2>1
  <2> QED
    BY <2>1, <2>2, HeardAs
<1>12. ASSUME d.ok, d.val[<<"value", "tag">>] = 1
       PROVE  d.val[<<"value", "integer_value">>] \in Number
  <2>1. StillThere(e, d, F, 3)
    <3>0. PICK j \in 0..Len(F) : j = 3
      BY <1>8
    <3>1. PICK n \in j..Len(F) : n = Len(F)
      BY <1>7, <3>0
    <3>2. After(F, p)[n].ok => StillThere(After(F, p)[j], After(F, p)[n], F, j)
      BY <1>3, Kept
    <3>3. After(F, p)[n] = d /\ After(F, p)[j] = e
      BY <1>10, <3>0, <3>1
    <3> QED
      BY <1>12, <3>0, <3>2, <3>3
  <2>2. e.ok
    BY <2>1 DEF StillThere
  <2>3. DecodedUpTo(e, F, s, 3)
    <3>1. PICK j \in 0..Len(F) : j = 3
      BY <1>8
    <3>2. NoTail(F, s, j) /\ j \in 0..j
      BY <1>9, <3>1
    <3>3. IF End(F, s, j) <= Len(p) THEN DecodedUpTo(After(F, p)[j], F, s, j) ELSE After(F, p)[j] = Bad
      BY <1>3, <1>4, <3>2, ReadInTurn
    <3>4. e = After(F, p)[j]
      BY <1>10, <3>1
    <3>5. e # Bad
      BY <2>2, NotBad
    <3>6. DecodedUpTo(e, F, s, j)
      BY <3>3, <3>4, <3>5
    <3> QED
      BY <3>1, <3>6
  <2>4. b \in NodeFields /\ c \in NodeFields /\ TypedField(b, s) /\ TypedField(c, s)
    <3>1. TypedField(F[2], s) /\ F[2] \in NodeFields
      BY <1>3, <1>8, FieldFacts, ZeroFills
    <3>2. TypedField(F[3], s) /\ F[3] \in NodeFields
      BY <1>3, <1>8, FieldFacts, ZeroFills
    <3> QED
      BY <1>5, <3>1, <3>2
  <2>5. Present(b, s)
    BY <1>6 DEF Present
  <2>6. AsHeard(b, s) = s[<<"value", "tag">>]
    BY <1>6, <2>4, <2>5, TypedFacts
  <2>7. \A i \in 1..3 : Present(F[i], s) =>
          Key(F[i]) \in DOMAIN e.val /\ e.val[Key(F[i])] = AsHeard(F[i], s)
    BY <2>3 DEF DecodedUpTo
  <2>8. \A i \in 1..3 : Present(F[i], s) => d.val[Key(F[i])] = AsHeard(F[i], s)
    BY <2>1, <2>7 DEF StillThere
  <2>9. d.val[<<"value", "tag">>] = s[<<"value", "tag">>]
    BY <1>5, <1>6, <1>8, <2>5, <2>6, <2>8
  <2>10. Present(c, s)
    BY <1>6, <1>12, <2>9 DEF Present
  <2>11. d.val[<<"value", "integer_value">>] = AsHeard(c, s)
    BY <1>5, <1>6, <1>8, <2>8, <2>10
  <2>12. AsHeard(c, s) \in Number
    BY <1>6, <2>4, <2>10, TypedFacts
  <2> QED
    BY <2>11, <2>12
<1> QED
  BY <1>11, <1>12

-----------------------------------------------------------------------------
(* The exchanges of standard messages *)

LEMMA MaxSizeIsNat == ASSUME NEW kind \in NodeKinds PROVE MaxSize(kind) \in Nat
<1>1. \A n \in Nat : Bytes(n) \in Nat
  BY BytesFacts
<1>2. /\ StatusBits \in Nat /\ EmptyBits \in Nat /\ RestartBits \in Nat /\ RestartedBits \in Nat
      /\ LogMax \in Nat /\ HardwareMax \in Nat /\ ResponseMax \in Nat /\ InfoMax \in Nat
      /\ RequestMax \in Nat
  BY DEF StatusBits, EmptyBits, RestartBits, RestartedBits, LogMax, HardwareMax, ResponseMax,
         InfoMax, RequestMax
<1> QED
  BY <1>1, <1>2, MaxSizes DEF NodeKinds, PlainKinds, TailKinds

LEMMA SentFits ==
  ASSUME NEW m, Sendable(m), NEW k \in 0..Size8(m), NEW p, Beginning(p, m, k)
  PROVE  Len(p) = 8 * k /\ Len(p) <= 8 * MaxSize(m.kind)
<1>1. Sound(Type(m.kind)) /\ HasType(Type(m.kind), m.body) /\ FitBytes(Type(m.kind), MaxSize(m.kind))
  BY EveryKind DEF Sendable
<1>2. k \in 0..Whole8(Type(m.kind), m.body)
  BY DEF Size8
<1>3. Len(p) = 8 * k
  BY <1>1, <1>2, BeginningFacts
<1>4. Size8(m) <= MaxSize(m.kind)
  BY <1>1 DEF FitBytes, Size8, Whole8
<1>5. Size8(m) \in Nat /\ MaxSize(m.kind) \in Nat
  BY Size8IsNat, MaxSizeIsNat DEF Sendable
<1>6. PICK a \in Nat, b \in Nat : a = Size8(m) /\ b = MaxSize(m.kind)
  BY <1>5
<1>7. a <= b /\ k \in 0..a
  BY <1>4, <1>6
<1>8. 8 * k <= 8 * b
  BY <1>7
<1> QED
  BY <1>3, <1>6, <1>8

\* What is on the bus is the beginning of what was sent.
Conveys(t, m) ==
  /\ t = [kind |-> t.kind, payload |-> t.payload] /\ t.kind = m.kind
  /\ \E k \in 0..Size8(m) : Beginning(t.payload, m, k)

NodeInv ==
  /\ sent # None => Proper(sent)
  /\ transfer # None => Proper(sent) /\ Conveys(transfer, sent)

LEMMA PadFills == Pad \subseteq Filling
BY NodeInputsAssumption DEF Filling

LEMMA PutOnTheBus ==
  ASSUME NEW m, Proper(m), Put(m)
  PROVE  NodeInv'
<1>1. PICK pad \in Pad : sent' = m /\ transfer' = [kind |-> m.kind, payload |-> Payload(m, pad)]
  BY DEF Put
<1>2. Sendable(m) /\ pad \in Filling
  BY PadFills DEF Proper
<1>3. Sound(Type(m.kind)) /\ HasType(Type(m.kind), m.body)
  BY <1>2, EveryKind DEF Sendable
<1>4. Payload(m, pad) \in Seq({0, 1}) /\ Len(Payload(m, pad)) = 8 * Size8(m)
  BY <1>2, <1>3, PayloadFacts DEF Sound, Size8
<1>5. PICK k \in Nat : k = Size8(m)
  BY <1>2, Size8IsNat
<1>6. Beginning(Payload(m, pad), m, k)
  <2>1. PICK p \in Seq({0, 1}) : p = Payload(m, pad)
    BY <1>4
  <2>2. Len(p) = 8 * k
    BY <1>4, <1>5, <2>1
  <2>3. p = [b \in 1..(8 * k) |-> p[b]]
    BY <2>2
  <2> QED
    BY <1>2, <2>1, <2>3 DEF Beginning
<1>7. k \in 0..Size8(m)
  BY <1>5
<1>8. Conveys(transfer', m)
  BY <1>1, <1>6, <1>7 DEF Conveys
<1> QED
  BY <1>1, <1>8 DEF NodeInv

LEMMA BeginProper ==
  ASSUME NEW m \in NodeInputs
  PROVE  Proper(m)
<1>1. /\ m = [kind |-> m.kind, body |-> m.body] /\ HasType(Type(m.kind), m.body)
      /\ m.kind \in {"NodeStatus", "GetNodeInfoRequest", "RestartNodeRequest", "LogMessage",
                     "HardwareVersion", "GetSetRequest"}
  BY NodeInputsAssumption
<1>2. m.kind \in NodeKinds
  BY <1>1 DEF NodeKinds, PlainKinds, TailKinds
<1> QED
  BY <1>1, <1>2 DEF Proper, Sendable

LEMMA NodeInfoProper == Proper([kind |-> "GetNodeInfoResponse", body |-> NodeInfo])
<1>1. HasType(GetNodeInfoResponse, NodeInfo)
  BY NodeInputsAssumption
<1>2. "GetNodeInfoResponse" \in NodeKinds /\ Type("GetNodeInfoResponse") = GetNodeInfoResponse
  BY Types DEF NodeKinds
<1> QED
  BY <1>1, <1>2 DEF Proper, Sendable

LEMMA RestartProper == Proper([kind |-> "RestartNodeResponse", body |-> [k \in {<<"", "ok">>} |-> 1]])
<1> DEFINE s == [k \in {<<"", "ok">>} |-> 1]
           f == Uint("", "ok", 1)
<1>1. Key(f) = <<"", "ok">> /\ f.t = "uint" /\ f.name = "ok"
  BY DEF Uint, Item, Key
<1>2. <<"", "ok">> \in DOMAIN s /\ s[<<"", "ok">>] = 1
  OBVIOUS
<1>3. 1 \in Number
  BY Small
<1> HIDE DEF f, s
<1>4. TypedField(f, s)
  BY <1>1, <1>2, <1>3 DEF TypedField
<1>5. HasType(<<f>>, s)
  <2>1. \A i \in DOMAIN <<f>> : <<f>>[i] = f
    BY Single
  <2> QED
    BY <1>4, <2>1 DEF HasType
<1>6. HasType(RestartNodeResponse, s)
  BY <1>5 DEF RestartNodeResponse, f
<1>7. "RestartNodeResponse" \in NodeKinds /\ Type("RestartNodeResponse") = RestartNodeResponse
  BY Types DEF NodeKinds, PlainKinds
<1> QED
  BY <1>6, <1>7 DEF Proper, Sendable, s

LEMMA RequestAnswer ==
  ASSUME NodeInv, HandleGetSet
  PROVE  NodeInv'
<1> DEFINE req == Received("GetSetRequest", transfer.payload)
           tag == req.body[<<"value", "tag">>]
           int == req.body[<<"value", "integer_value">>]
<1>1. transfer # None /\ transfer.kind = "GetSetRequest"
  BY DEF HandleGetSet
<1>2. Proper(sent) /\ Conveys(transfer, sent)
  BY <1>1 DEF NodeInv
<1>3. PICK k \in 0..Size8(sent) : Beginning(transfer.payload, sent, k)
  BY <1>2 DEF Conveys
<1>4. sent.kind = "GetSetRequest" /\ Sendable(sent)
  BY <1>1, <1>2 DEF Conveys, Proper
<1>5. req # Failed /\ tag = 1 => int \in Number
  BY <1>3, <1>4, RequestHeard
<1>6. CASE req = Failed \/ tag \notin {0, 1}
  <2>1. transfer' = None /\ UNCHANGED sent
    BY <1>6 DEF HandleGetSet
  <2> QED
    BY <1>2, <2>1 DEF NodeInv
<1>7. CASE ~(req = Failed \/ tag \notin {0, 1})
  <2>1. Put(IF tag = 0 THEN GetAnswer(req.body[<<"", "index">>]) ELSE SetAnswer(int))
    BY <1>7 DEF HandleGetSet
  <2> HIDE DEF req, tag, int
  <2>2. CASE tag = 0
    <3>1. PICK index : index = req.body[<<"", "index">>]
      OBVIOUS
    <3>2. Put(GetAnswer(index))
      BY <2>1, <2>2, <3>1
    <3>3. 0 \in Number
      BY Small
    <3>4. Proper(GetAnswer(index))
      BY <3>3, AnswersAreProper
    <3> QED
      BY <3>2, <3>4, PutOnTheBus
  <2>3. CASE tag # 0
    <3>1. tag = 1
      BY <1>7, <2>3
    <3>2. int \in Number
      BY <1>5, <1>7, <3>1
    <3>3. Put(SetAnswer(int))
      BY <2>1, <2>3
    <3>4. Proper(SetAnswer(int))
      BY <3>2, AnswersAreProper
    <3> QED
      BY <3>3, <3>4, PutOnTheBus
  <2> QED
    BY <2>2, <2>3
<1> QED
  BY <1>6, <1>7

LEMMA ShorterOnTheBus ==
  ASSUME NodeInv, Shorten
  PROVE  NodeInv'
<1>1. /\ transfer # None /\ transfer.payload # <<>> /\ sent' = sent
      /\ transfer' = [transfer EXCEPT !.payload = SubSeq(@, 1, Len(@) - 8)]
  BY DEF Shorten
<1>2. Proper(sent) /\ Conveys(transfer, sent)
  BY <1>1 DEF NodeInv
<1>3. PICK k \in 0..Size8(sent) : Beginning(transfer.payload, sent, k)
  BY <1>2 DEF Conveys
<1>4. Sound(Type(sent.kind)) /\ HasType(Type(sent.kind), sent.body) /\ Sendable(sent)
  BY <1>2, EveryKind DEF Proper, Sendable
<1>5. PICK p, q : p = transfer.payload /\ q = SubSeq(p, 1, Len(p) - 8)
  OBVIOUS
<1>6. transfer' = [kind |-> transfer.kind, payload |-> q]
  <2>1. transfer = [kind |-> transfer.kind, payload |-> p]
    BY <1>2, <1>5 DEF Conveys
  <2> QED
    BY <1>1, <1>5, <2>1
<1>7. p \in Seq({0, 1}) /\ Len(p) = 8 * k
  <2>1. k \in 0..Whole8(Type(sent.kind), sent.body)
    BY DEF Size8
  <2> QED
    BY <1>3, <1>4, <1>5, <2>1, BeginningFacts
<1>8. PICK pad \in Filling : p = [b \in 1..(8 * k) |-> Payload(sent, pad)[b]]
  BY <1>3, <1>5 DEF Beginning
<1>9. Size8(sent) \in Nat /\ k \in Nat
  BY <1>4, Size8IsNat
<1>10. k # 0
  <2>1. Len(p) # 0
    BY <1>1, <1>5, <1>7
  <2> QED
    BY <1>7, <2>1
<1>11. PICK j \in Nat : k = j + 1
  <2>1. k - 1 \in Nat /\ k = (k - 1) + 1
    BY <1>9, <1>10
  <2> QED
    BY <2>1
<1>12. q = [b \in 1..(8 * j) |-> Payload(sent, pad)[b]]
  <2>1. Len(p) - 8 = 8 * j
    BY <1>7, <1>11
  <2>2. q = [b \in 1..(8 * j) |-> p[b]]
    <3>1. \A b \in 1..(8 * j) : 1 + b - 1 = b
      OBVIOUS
    <3>2. SubSeq(p, 1, 8 * j) = [b \in 1..(8 * j) |-> p[b]]
      BY <1>7, <1>11
    <3> QED
      BY <1>5, <2>1, <3>2
  <2>3. \A b \in 1..(8 * j) : b \in 1..(8 * k)
    BY <1>9, <1>11
  <2>4. \A b \in 1..(8 * j) : p[b] = Payload(sent, pad)[b]
    BY <1>8, <2>3
  <2> QED
    BY <2>2, <2>4
<1>13. j \in 0..Size8(sent)
  BY <1>9, <1>11
<1>14. Beginning(q, sent, j)
  BY <1>12 DEF Beginning
<1>15. transfer'.kind = transfer.kind /\ transfer'.payload = q
  BY <1>6
<1>16. Conveys(transfer', sent)
  BY <1>2, <1>6, <1>13, <1>14, <1>15 DEF Conveys
<1> QED
  BY <1>1, <1>2, <1>16 DEF NodeInv

allVars == <<vars, nodeVars>>

LEMMA NodeStep == NodeInv /\ [BusNext]_allVars => NodeInv'
<1> SUFFICES ASSUME NodeInv, [BusNext]_allVars
             PROVE  NodeInv'
  OBVIOUS
<1>1. CASE UNCHANGED nodeVars
  BY <1>1 DEF nodeVars, NodeInv
<1>2. CASE Begin
  <2>1. PICK m \in NodeInputs : Put(m)
    BY <1>2 DEF Begin
  <2> QED
    BY <2>1, BeginProper, PutOnTheBus
<1>3. CASE Shorten
  BY <1>3, ShorterOnTheBus
<1>4. CASE Hear
  <2>1. sent' = sent /\ transfer' = None
    BY <1>4 DEF Hear
  <2> QED
    BY <2>1 DEF NodeInv
<1>5. CASE Restart
  <2>1. sent' = None /\ transfer' = transfer /\ transfer = None
    BY <1>5 DEF Restart
  <2> QED
    BY <2>1 DEF NodeInv
<1>6. CASE HandleGetNodeInfo
  BY <1>6, NodeInfoProper, PutOnTheBus DEF HandleGetNodeInfo
<1>7. CASE HandleRestartNode
  BY <1>7, RestartProper, PutOnTheBus DEF HandleRestartNode
<1>8. CASE HandleGetSet
  BY <1>8, RequestAnswer
<1> QED
  BY <1>1, <1>2, <1>3, <1>4, <1>5, <1>6, <1>7, <1>8 DEF BusNext, NodeNext, allVars

(* What was sent is a struct of its type, and what is on the bus is a beginning of
   its encoding, in every exchange of standard messages (the handlers of
   uavcan_node.c and the codecs of lib/uavcan_node). *)
THEOREM NodeInvariant == BusSpec => []NodeInv
<1>1. BusInit => NodeInv
  BY DEF BusInit, NodeInit, NodeInv
<1>2. NodeInv /\ [BusNext]_allVars => NodeInv'
  BY NodeStep
<1> QED
  BY <1>1, <1>2, PTL DEF BusSpec, allVars

LEMMA BufferFits == NodeInv => FitsBuffer
<1> SUFFICES ASSUME NodeInv, transfer # None
             PROVE  Len(transfer.payload) <= 8 * MaxSize(transfer.kind)
  BY DEF FitsBuffer
<1>1. Sendable(sent) /\ transfer.kind = sent.kind
  BY DEF NodeInv, Proper, Conveys
<1>2. PICK k \in 0..Size8(sent) : Beginning(transfer.payload, sent, k)
  BY DEF NodeInv, Conveys
<1> QED
  BY <1>1, <1>2, SentFits

\* Only Hear tells its receiver anything.
LEMMA OnlyHear ==
  ASSUME [BusNext]_allVars, Heard
  PROVE  Hear
<1>1. CASE UNCHANGED nodeVars
  BY <1>1 DEF nodeVars, Heard
<1>2. CASE Begin
  BY <1>2 DEF Begin, Heard
<1>3. CASE Restart
  BY <1>3 DEF Restart, Heard
<1>4. CASE Shorten \/ HandleGetNodeInfo \/ HandleRestartNode \/ HandleGetSet
  BY <1>4 DEF Shorten, HandleGetNodeInfo, HandleRestartNode, HandleGetSet, Heard
<1> QED
  BY <1>1, <1>2, <1>3, <1>4 DEF BusNext, NodeNext, allVars

LEMMA HearFacts ==
  ASSUME NodeInv, Hear
  PROVE  /\ Proper(sent) /\ Sendable(sent) /\ transfer # None /\ transfer.kind = sent.kind
         /\ heard' = Received(sent.kind, transfer.payload) /\ sent.kind \notin NodeRequests
         /\ \E k \in 0..Size8(sent) : /\ Beginning(transfer.payload, sent, k)
                                      /\ Whole <=> k = Size8(sent)
<1>1. transfer # None /\ transfer.kind \notin NodeRequests
        /\ heard' = Received(transfer.kind, transfer.payload)
  BY DEF Hear
<1>2. Proper(sent) /\ Sendable(sent) /\ transfer.kind = sent.kind
  BY <1>1 DEF NodeInv, Proper, Conveys
<1>3. PICK k \in 0..Size8(sent) : Beginning(transfer.payload, sent, k)
  BY <1>1 DEF NodeInv, Conveys
<1>4. Len(transfer.payload) = 8 * k
  BY <1>2, <1>3, SentFits
<1>5. Len(Payload(sent, 0)) = 8 * Size8(sent)
  <2>1. Sound(Type(sent.kind)) /\ HasType(Type(sent.kind), sent.body)
    BY <1>2, EveryKind DEF Sendable
  <2> QED
    BY <2>1, ZeroFills, PayloadFacts DEF Sound, Size8
<1>6. PICK n \in Nat : n = Size8(sent)
  BY <1>2, Size8IsNat
<1>7. k \in Nat /\ (8 * k = 8 * n <=> k = n)
  BY <1>6
<1>8. Whole <=> k = Size8(sent)
  BY <1>1, <1>4, <1>5, <1>6, <1>7 DEF Whole
<1> QED
  BY <1>1, <1>2, <1>3, <1>8

LEMMA WholeArrives ==
  ASSUME NodeInv, [BusNext]_allVars, Heard, Whole, ~HasNestedTail(sent)
  PROVE  Arrived(sent)
<1>1. Hear
  BY OnlyHear
<1>2. Sendable(sent) /\ heard' = Received(sent.kind, transfer.payload)
  BY <1>1, HearFacts
<1>3. PICK k \in 0..Size8(sent) : Beginning(transfer.payload, sent, k) /\ (Whole <=> k = Size8(sent))
  BY <1>1, HearFacts
<1>4. Beginning(transfer.payload, sent, Size8(sent))
  BY <1>3
<1> QED
  BY <1>2, <1>4, WholeHeard DEF Arrived

(* Every standard message fits its buffer, and whatever the unused bits of the
   buffer held, it is decoded to the struct that was encoded, up to saturation,
   unless a part of it ends in an array of bytes (lib/uavcan_node). *)
THEOREM MessagesAreDecoded == BusSpec => RoundTrip
<1>1. ASSUME NodeInv, NodeInv', [BusNext]_allVars
      PROVE  [FitsBuffer' /\ (Heard /\ Whole /\ ~HasNestedTail(sent) => Arrived(sent))]_nodeVars
  <2>1. FitsBuffer'
    BY <1>1, BufferFits, PTL
  <2>2. Heard /\ Whole /\ ~HasNestedTail(sent) => Arrived(sent)
    BY <1>1, WholeArrives
  <2> QED
    BY <2>1, <2>2
<1> QED
  BY <1>1, NodeInvariant, PTL DEF BusSpec, RoundTrip, allVars

LEMMA CutKind ==
  ASSUME NEW m, Proper(m), EndsInTail(Type(m.kind)), ~HasNestedTail(m), m.kind \notin NodeRequests
  PROVE  m.kind \in DOMAIN LastArray /\ LastKey(Type(m.kind)) = <<"", LastArray[m.kind]>>
<1>1. m.kind \in NodeKinds
  BY DEF Proper, Sendable
<1>2. m.kind \notin PlainKinds
  BY EveryPlainKind
<1>3. m.kind # "GetNodeInfoResponse"
  BY NodeInfoNested
<1>4. m.kind # "GetSetRequest"
  BY DEF NodeRequests
<1>5. m.kind \in TailKinds
  BY <1>1, <1>2, <1>3, <1>4 DEF NodeKinds
<1> QED
  BY <1>5, EveryTailKind

LEMMA CutArrives ==
  ASSUME NodeInv, [BusNext]_allVars, Heard, transfer # None, ~Whole, ~HasNestedTail(sent)
  PROVE  \/ heard' = Failed
         \/ /\ sent.kind \in DOMAIN LastArray
            /\ LET last == <<"", LastArray[sent.kind]>>
               IN  /\ IsStrictPrefix(heard'.body[last], sent.body[last])
                   /\ Arrived([sent EXCEPT !.body[last] = heard'.body[last]])
<1>1. Hear
  BY OnlyHear
<1>2. /\ Proper(sent) /\ Sendable(sent) /\ heard' = Received(sent.kind, transfer.payload)
      /\ sent.kind \notin NodeRequests
  BY <1>1, HearFacts
<1>3. PICK k \in 0..Size8(sent) : Beginning(transfer.payload, sent, k) /\ (Whole <=> k = Size8(sent))
  BY <1>1, HearFacts
<1>4. k # Size8(sent)
  BY <1>3
<1>5. CASE ~EndsInTail(Type(sent.kind))
  BY <1>2, <1>3, <1>4, <1>5, PlainHeard
<1>6. CASE EndsInTail(Type(sent.kind))
  <2> DEFINE F == Type(sent.kind)
  <2>1. PICK h, last : h = heard' /\ last = LastKey(F)
    OBVIOUS
  <2>2. \/ h = Failed
        \/ /\ h.kind = sent.kind /\ Same(F, Replaced(F, sent.body, h.body[last]), h.body)
           /\ IsStrictPrefix(h.body[last], sent.body[last])
    BY <1>2, <1>3, <1>4, <1>6, <2>1, TailHeard
  <2>3. sent.kind \in DOMAIN LastArray /\ last = <<"", LastArray[sent.kind]>>
    BY <1>2, <1>6, <2>1, CutKind
  <2>4. CASE h = Failed
    BY <2>1, <2>4
  <2>5. CASE /\ h.kind = sent.kind /\ Same(F, Replaced(F, sent.body, h.body[last]), h.body)
             /\ IsStrictPrefix(h.body[last], sent.body[last])
    <3>1. PICK m : m = [sent EXCEPT !.body[last] = h.body[last]]
      OBVIOUS
    <3>2. sent = [kind |-> sent.kind, body |-> sent.body]
      BY <1>2 DEF Proper
    <3>3. m.kind = sent.kind /\ m.body = Replaced(F, sent.body, h.body[last])
      BY <2>1, <3>1, <3>2 DEF Replaced
    <3>4. Arrived(m)
      BY <2>1, <2>5, <3>3 DEF Arrived
    <3> QED
      BY <2>1, <2>3, <2>5, <3>1, <3>4
  <2> QED
    BY <2>2, <2>4, <2>5
<1> QED
  BY <1>5, <1>6

(* A standard message that lost bytes at its end is refused, or only the array at
   its end is shorter: no field takes a value that nobody sent (the decoders of
   lib/uavcan_node). *)
THEOREM NothingIsInvented == BusSpec => NothingInvented
<1> DEFINE Right ==
      Heard /\ transfer # None /\ ~Whole /\ ~HasNestedTail(sent) =>
       \/ heard' = Failed
       \/ /\ sent.kind \in DOMAIN LastArray
          /\ LET last == <<"", LastArray[sent.kind]>>
             IN  /\ IsStrictPrefix(heard'.body[last], sent.body[last])
                 /\ Arrived([sent EXCEPT !.body[last] = heard'.body[last]])
<1>1. NodeInv /\ [BusNext]_allVars => [Right]_nodeVars
  BY CutArrives
<1> QED
  BY <1>1, NodeInvariant, PTL DEF BusSpec, NothingInvented, allVars

(* The bus does to automation messages what Spec says, one exchange at a time, and
   nothing else (the callbacks and handlers of automation_messages.h). *)
THEOREM BusExchanges == BusSpec => Spec
<1>1. BusInit => Init
  BY DEF BusInit
<1>2. [BusNext]_allVars => [Next]_vars
  BY DEF BusNext, allVars
<1> QED
  BY <1>1, <1>2, PTL DEF BusSpec, Spec, allVars

(* What is proved of the automation protocol holds on the bus. *)
THEOREM BusIsRight == BusSpec => [](FitsOneFrame /\ SetsAndTellsArrive /\ AnswersAreRight)
BY BusExchanges, EveryMessageFits, SetsAndTellsAlwaysArrive, AnswersAreAlwaysRight, PTL
=============================================================================
