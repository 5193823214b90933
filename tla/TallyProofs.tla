----------------------------- MODULE TallyProofs -----------------------------
(***************************************************************************)
(* The laws of Tally: what it is of no row, of one row more or less, and    *)
(* that it depends on the amounts of its rows only.                         *)
(***************************************************************************)
EXTENDS Tally, FiniteSetTheorems, TLAPS

(* The units of finitely many rows are finitely many. *)
LEMMA UnitsFinite ==
    ASSUME NEW S, IsFiniteSet(S), NEW amount, \A x \in S : amount[x] \in Nat
    PROVE  IsFiniteSet(Units(amount, S))
<1> DEFINE f == [x \in S |-> {x} \X (1..amount[x])]
<1> DEFINE T == {{x} \X (1..amount[x]) : x \in S}
<1>1. f \in Surjection(S, T)
  BY DEF Surjection
<1>2. IsFiniteSet(T)
  <2> HIDE DEF f, T
  <2> QED
    BY <1>1, FS_Surjection
<1>3. ASSUME NEW x \in S PROVE IsFiniteSet({x} \X (1..amount[x]))
  <2>1. IsFiniteSet(1..amount[x])
    BY FS_Interval
  <2>2. IsFiniteSet({x})
    BY FS_Singleton
  <2> QED
    BY <2>1, <2>2, FS_Product
<1>4. \A U \in T : IsFiniteSet(U)
  BY <1>3
<1>5. IsFiniteSet(UNION T)
  <2> HIDE DEF T
  <2> QED
    BY <1>2, <1>4, FS_UNION
<1> QED
  BY <1>5 DEF Units

(* A tally is a natural number. *)
LEMMA TallyNat ==
    ASSUME NEW S, IsFiniteSet(S), NEW amount, \A x \in S : amount[x] \in Nat
    PROVE  Tally(amount, S) \in Nat
BY UnitsFinite, FS_CardinalityType DEF Tally

(* No rows amount to nothing. *)
LEMMA TallyEmpty ==
    ASSUME NEW amount
    PROVE  Tally(amount, {}) = 0
<1>1. Units(amount, {}) = {}
  BY DEF Units
<1> QED
  BY <1>1, FS_EmptySet DEF Tally

(* One row more adds its amount. *)
LEMMA TallyAdd ==
    ASSUME NEW S, IsFiniteSet(S), NEW z, z \notin S,
           NEW amount, \A x \in S \cup {z} : amount[x] \in Nat
    PROVE  Tally(amount, S \cup {z}) = Tally(amount, S) + amount[z]
<1> DEFINE A == Units(amount, S)
<1> DEFINE B == {z} \X (1..amount[z])
<1>1. IsFiniteSet(A) /\ Cardinality(A) \in Nat
  BY UnitsFinite, FS_CardinalityType
<1>2. IsFiniteSet(B) /\ Cardinality(B) = amount[z]
  <2>1. amount[z] \in Nat
    OBVIOUS
  <2>2. IsFiniteSet(1..amount[z]) /\ Cardinality(1..amount[z]) = amount[z]
    BY <2>1, FS_Interval
  <2>3. IsFiniteSet({z}) /\ Cardinality({z}) = 1
    BY FS_Singleton
  <2>4. IsFiniteSet(B) /\ Cardinality(B) = Cardinality({z}) * Cardinality(1..amount[z])
    BY <2>2, <2>3, FS_Product
  <2> QED
    BY <2>1, <2>2, <2>3, <2>4
<1>3. Units(amount, S \cup {z}) = A \cup B
  BY DEF Units
<1>4. A \cap B = {}
  BY DEF Units
<1>5. Cardinality(A \cup B) = Cardinality(A) + Cardinality(B) - Cardinality({})
  <2> HIDE DEF A, B
  <2> QED
    BY <1>1, <1>2, <1>4, FS_Union
<1>6. Cardinality({}) = 0
  BY FS_EmptySet
<1>7. Cardinality(A \cup B) = Cardinality(A) + amount[z]
  <2> HIDE DEF A, B
  <2> QED
    BY <1>1, <1>2, <1>5, <1>6
<1> QED
  BY <1>3, <1>7 DEF Tally

(* One row less takes its amount away. *)
LEMMA TallyRemove ==
    ASSUME NEW S, IsFiniteSet(S), NEW z \in S,
           NEW amount, \A x \in S : amount[x] \in Nat
    PROVE  Tally(amount, S) = Tally(amount, S \ {z}) + amount[z]
<1>1. IsFiniteSet(S \ {z})
  BY FS_RemoveElement
<1>2. (S \ {z}) \cup {z} = S
  OBVIOUS
<1>3. Tally(amount, (S \ {z}) \cup {z}) = Tally(amount, S \ {z}) + amount[z]
  BY <1>1, TallyAdd
<1> QED
  BY <1>2, <1>3

(* Only the amounts of the rows themselves count. *)
LEMMA TallySame ==
    ASSUME NEW S, NEW amount, NEW other, \A x \in S : amount[x] = other[x]
    PROVE  Tally(amount, S) = Tally(other, S)
<1>1. Units(amount, S) = Units(other, S)
  BY DEF Units
<1> QED
  BY <1>1 DEF Tally

(* When one row changes, enters or leaves, the tally moves by that row alone. *)
LEMMA TallyMoves ==
    ASSUME NEW S, IsFiniteSet(S), NEW T, IsFiniteSet(T), NEW z, S \ {z} = T \ {z},
           NEW f, \A x \in S : f[x] \in Nat,
           NEW g, \A x \in T : g[x] \in Nat,
           \A x \in S \ {z} : f[x] = g[x]
    PROVE  \E rest \in Nat :
              /\ Tally(f, S) = IF z \in S THEN rest + f[z] ELSE rest
              /\ Tally(g, T) = IF z \in T THEN rest + g[z] ELSE rest
<1>1. IsFiniteSet(S \ {z})
  BY FS_RemoveElement
<1>2. Tally(f, S \ {z}) \in Nat /\ Tally(g, S \ {z}) = Tally(f, S \ {z})
  BY <1>1, TallyNat, TallySame
<1>3. Tally(f, S) = IF z \in S THEN Tally(f, S \ {z}) + f[z] ELSE Tally(f, S \ {z})
  <2>1. CASE z \in S
    BY <2>1, TallyRemove
  <2>2. CASE z \notin S
    <3>1. S \ {z} = S
      BY <2>2
    <3> QED
      BY <2>2, <3>1
  <2> QED
    BY <2>1, <2>2
<1>4. Tally(g, T) = IF z \in T THEN Tally(g, T \ {z}) + g[z] ELSE Tally(g, T \ {z})
  <2>1. CASE z \in T
    BY <2>1, TallyRemove
  <2>2. CASE z \notin T
    <3>1. T \ {z} = T
      BY <2>2
    <3> QED
      BY <2>2, <3>1
  <2> QED
    BY <2>1, <2>2
<1> QED
  BY <1>2, <1>3, <1>4
==============================================================================
