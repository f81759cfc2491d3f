----------------------------- MODULE SumTheorems -----------------------------
(***************************************************************************)
(* Facts about sums of functions over finite sets and sequences, which the *)
(* totals of the cart page and the arrows of the slider are.               *)
(*                                                                         *)
(* Induction is stated with sets instead of predicates: a set of numbers   *)
(* that holds 0 and with every number the next one holds all of them.      *)
(***************************************************************************)
EXTENDS Integers, Sequences, Functions, FiniteSets, TLAPS,
        FiniteSetTheorems, WellFoundedInduction

(* Induction on numbers.                                                   *)
LEMMA InductiveSet ==
  ASSUME NEW N, 0 \in N, \A n \in Nat : n \in N => n + 1 \in N
  PROVE  Nat \subseteq N
  <1> DEFINE R == {ss \in Nat \X Nat : ss[1] < ss[2]}
             T == Nat \ N
  <1>1. IsWellFoundedOn(R, Nat)
    BY NatLessThanWellFounded DEF OpToRel
  <1> SUFFICES ASSUME T # {} PROVE FALSE
    OBVIOUS
  <1>2. T \subseteq Nat
    OBVIOUS
  <1> HIDE DEF R
  <1>3. PICK x \in T : \A y \in T : ~ (<<y, x>> \in R)
    <2> HIDE DEF T
    <2> QED
      BY <1>1, <1>2, WFMin
  <1>4. x \in Nat /\ x # 0 /\ x - 1 \in Nat /\ x - 1 + 1 = x
    OBVIOUS
  <1>5. x - 1 \in T
    BY <1>4
  <1> DEFINE y == x - 1
             yx == <<y, x>>
  <1>6. yx \in Nat \X Nat /\ yx[1] = y /\ yx[2] = x /\ y < x
    BY <1>4
  <1> HIDE DEF yx
  <1>7. yx \in R
    BY <1>6 DEF R
  <1> QED
    BY <1>3, <1>5, <1>7 DEF yx

(* Induction on the finite subsets of a set.                               *)
LEMMA InductiveFamily ==
  ASSUME NEW S, IsFiniteSet(S), NEW C, {} \in C,
         \A T \in SUBSET S : \A x \in S \ T : T \in C => T \cup {x} \in C
  PROVE  S \in C
  <1> DEFINE N == {n \in Nat : \A T \in SUBSET S : Cardinality(T) = n => T \in C}
  <1>1. 0 \in N
    <2>1. \A T \in SUBSET S : Cardinality(T) = 0 => T = {}
      BY FS_Subset, FS_EmptySet
    <2> QED
      BY <2>1
  <1>2. ASSUME NEW n \in Nat, n \in N PROVE n + 1 \in N
    <2> SUFFICES ASSUME NEW T \in SUBSET S, Cardinality(T) = n + 1
                 PROVE  T \in C
      OBVIOUS
    <2>1. IsFiniteSet(T) /\ T # {}
      BY FS_Subset, FS_EmptySet
    <2>2. PICK x \in T : TRUE
      BY <2>1
    <2>3. Cardinality(T \ {x}) = n
      <3>1. Cardinality(T \ {x}) = Cardinality(T) - 1
        BY <2>1, <2>2, FS_RemoveElement, Zenon
      <3> QED
        BY <3>1
    <2>4. T \ {x} \in C /\ x \in S \ (T \ {x})
      BY <1>2, <2>2, <2>3
    <2>5. (T \ {x}) \cup {x} = T
      BY <2>2
    <2> QED
      BY <2>4, <2>5
  <1>3. Nat \subseteq N
    <2> HIDE DEF N
    <2> QED
      BY <1>1, <1>2, InductiveSet
  <1>4. Cardinality(S) \in Nat
    BY FS_CardinalityType
  <1> QED
    BY <1>3, <1>4

-----------------------------------------------------------------------------
(* The element that a sum takes first, and the function that it is defined *)
(* with.                                                                   *)
First(T) == CHOOSE x \in T : TRUE

SumsUp(f, S, it) ==
  it = [T \in SUBSET S |->
          IF T = {} THEN 0 ELSE f[First(T)] + it[T \ {First(T)}]]

LEMMA SumIsDefined ==
  ASSUME NEW f, NEW S
  PROVE  SumFunctionOnSet(f, S) = (CHOOSE it : SumsUp(f, S, it))[S]
  BY Zenon DEF SumFunctionOnSet, FoldFunctionOnSet, MapThenFoldSet, SumsUp, First

(* Pick any bound on the size: a function that sums up as far as the bound *)
(* exists; so it does on all subsets of a finite set.                      *)
LEMMA SumExists ==
  ASSUME NEW f, NEW S, IsFiniteSet(S)
  PROVE  \E it : SumsUp(f, S, it)
  <1> DEFINE Eq(g, T) == g[T] = IF T = {} THEN 0
                                ELSE f[First(T)] + g[T \ {First(T)}]
             N == {n \in Nat : \E g : /\ g = [T \in SUBSET S |-> g[T]]
                                    /\ \A T \in SUBSET S :
                                         Cardinality(T) <= n => Eq(g, T)}
  <1>1. \A T \in SUBSET S : IsFiniteSet(T) /\ Cardinality(T) \in Nat
    BY FS_Subset, FS_CardinalityType
  <1>2. 0 \in N
    <2> DEFINE g == [T \in SUBSET S |-> 0]
    <2>1. \A T \in SUBSET S : Cardinality(T) <= 0 => T = {}
      BY <1>1, FS_EmptySet
    <2>2. \A T \in SUBSET S : Cardinality(T) <= 0 => Eq(g, T)
      BY <2>1
    <2>3. g = [T \in SUBSET S |-> g[T]]
      OBVIOUS
    <2> HIDE DEF g
    <2> QED
      BY <2>2, <2>3
  <1>3. ASSUME NEW n \in Nat, n \in N PROVE n + 1 \in N
    <2>1. PICK g : /\ g = [T \in SUBSET S |-> g[T]]
                   /\ \A T \in SUBSET S : Cardinality(T) <= n => Eq(g, T)
      BY <1>3
    <2> DEFINE h == [T \in SUBSET S |->
                       IF T = {} THEN 0 ELSE f[First(T)] + g[T \ {First(T)}]]
    <2>2. \A T \in SUBSET S : Cardinality(T) <= n => h[T] = g[T]
      BY <2>1
    <2>3. ASSUME NEW T \in SUBSET S, T # {}, Cardinality(T) <= n + 1
          PROVE  h[T \ {First(T)}] = g[T \ {First(T)}]
      <3>1. First(T) \in T
        BY <2>3 DEF First
      <3>2. Cardinality(T \ {First(T)}) = Cardinality(T) - 1
        BY <1>1, <3>1, FS_RemoveElement, Zenon
      <3>3. Cardinality(T \ {First(T)}) <= n
        BY <1>1, <2>3, <3>2
      <3> QED
        BY <2>2, <3>3
    <2>4. \A T \in SUBSET S : Cardinality(T) <= n + 1 => Eq(h, T)
      BY <2>3
    <2>5. h = [T \in SUBSET S |-> h[T]]
      OBVIOUS
    <2> HIDE DEF h
    <2>6. \E k : /\ k = [T \in SUBSET S |-> k[T]]
                 /\ \A T \in SUBSET S : Cardinality(T) <= n + 1 => Eq(k, T)
      <3> HIDE DEF Eq
      <3> QED
        BY <2>4, <2>5, Zenon
    <2>7. n + 1 \in Nat
      OBVIOUS
    <2> HIDE DEF Eq
    <2> QED
      BY <2>6, <2>7, Zenon
  <1>4. Nat \subseteq N
    <2> HIDE DEF N
    <2> QED
      BY <1>2, <1>3, InductiveSet
  <1>5. Cardinality(S) \in N
    BY <1>1, <1>4
  <1>6. PICK g : /\ g = [T \in SUBSET S |-> g[T]]
                 /\ \A T \in SUBSET S : Cardinality(T) <= Cardinality(S) => Eq(g, T)
    BY <1>5
  <1>7. \A T \in SUBSET S : Cardinality(T) <= Cardinality(S)
    BY FS_Subset
  <1>8. g = [T \in SUBSET S |->
               IF T = {} THEN 0 ELSE f[First(T)] + g[T \ {First(T)}]]
    BY <1>6, <1>7
  <1> QED
    BY <1>8 DEF SumsUp

(* Functions that sum up agree where they are defined.                     *)
LEMMA SumIsUnique ==
  ASSUME NEW f, NEW S, IsFiniteSet(S), NEW g, SumsUp(f, S, g),
         NEW U, NEW h, SumsUp(f, U, h), S \subseteq U
  PROVE  g[S] = h[S]
  <1> DEFINE N == {n \in Nat : \A T \in SUBSET S : Cardinality(T) = n => g[T] = h[T]}
  <1>1. \A T \in SUBSET S :
          /\ IsFiniteSet(T) /\ Cardinality(T) \in Nat
          /\ g[T] = IF T = {} THEN 0 ELSE f[First(T)] + g[T \ {First(T)}]
          /\ h[T] = IF T = {} THEN 0 ELSE f[First(T)] + h[T \ {First(T)}]
    <2>1. \A T \in SUBSET S : IsFiniteSet(T) /\ Cardinality(T) \in Nat
      BY FS_Subset, FS_CardinalityType
    <2>2. \A T \in SUBSET S :
            g[T] = IF T = {} THEN 0 ELSE f[First(T)] + g[T \ {First(T)}]
      BY DEF SumsUp
    <2>3. \A T \in SUBSET S :
            h[T] = IF T = {} THEN 0 ELSE f[First(T)] + h[T \ {First(T)}]
      BY DEF SumsUp
    <2> QED
      BY <2>1, <2>2, <2>3
  <1>2. 0 \in N
    <2>1. \A T \in SUBSET S : Cardinality(T) = 0 => T = {}
      BY <1>1, FS_EmptySet
    <2> QED
      BY <1>1, <2>1
  <1>3. ASSUME NEW n \in Nat, n \in N PROVE n + 1 \in N
    <2> SUFFICES ASSUME NEW T \in SUBSET S, Cardinality(T) = n + 1
                 PROVE  g[T] = h[T]
      OBVIOUS
    <2>1. T # {}
      BY FS_EmptySet
    <2>2. First(T) \in T
      BY <2>1 DEF First
    <2>3. Cardinality(T \ {First(T)}) = Cardinality(T) - 1
      BY <1>1, <2>2, FS_RemoveElement, Zenon
    <2>4. g[T \ {First(T)}] = h[T \ {First(T)}]
      BY <1>3, <2>3
    <2> QED
      BY <1>1, <2>1, <2>4
  <1>4. Nat \subseteq N
    <2> HIDE DEF N
    <2> QED
      BY <1>2, <1>3, InductiveSet
  <1> QED
    BY <1>1, <1>4

(* What the definition of a sum says of it.                                *)
LEMMA SumEmpty ==
  ASSUME NEW f
  PROVE  SumFunctionOnSet(f, {}) = 0
  <1> DEFINE it == CHOOSE g : SumsUp(f, {}, g)
  <1>1. SumsUp(f, {}, it)
    BY SumExists, FS_EmptySet
  <1>2. it[{}] = 0
    <2> HIDE DEF it
    <2> QED
      BY <1>1 DEF SumsUp
  <1> QED
    BY <1>2, SumIsDefined

LEMMA SumFirst ==
  ASSUME NEW f, NEW S, IsFiniteSet(S), S # {}
  PROVE  /\ First(S) \in S
         /\ SumFunctionOnSet(f, S) =
              f[First(S)] + SumFunctionOnSet(f, S \ {First(S)})
  <1> DEFINE T == S \ {First(S)}
             g == CHOOSE it : SumsUp(f, S, it)
             h == CHOOSE it : SumsUp(f, T, it)
  <1>1. SumsUp(f, S, g)
    BY SumExists
  <1>2. IsFiniteSet(T)
    BY FS_Subset
  <1>3. SumsUp(f, T, h)
    <2> HIDE DEF T
    <2> QED
      BY <1>2, SumExists
  <1>4. SumFunctionOnSet(f, S) = g[S] /\ SumFunctionOnSet(f, T) = h[T]
    BY SumIsDefined
  <1>5. T \subseteq S
    OBVIOUS
  <1> HIDE DEF g, h
  <1>6. g[S] = f[First(S)] + g[T]
    BY <1>1 DEF SumsUp
  <1>7. h[T] = g[T]
    <2> HIDE DEF T
    <2> QED
      BY <1>1, <1>2, <1>3, <1>5, SumIsUnique
  <1> QED
    BY <1>4, <1>6, <1>7 DEF First

-----------------------------------------------------------------------------
(* Induction on finite sets that may take any element away.                *)
LEMMA SmallerFamily ==
  ASSUME NEW S, IsFiniteSet(S), NEW C,
         \A T \in SUBSET S : (\A x \in T : T \ {x} \in C) => T \in C
  PROVE  S \in C
  <1> DEFINE N == {n \in Nat : \A T \in SUBSET S : Cardinality(T) = n => T \in C}
  <1>1. \A T \in SUBSET S : IsFiniteSet(T) /\ Cardinality(T) \in Nat
    BY FS_Subset, FS_CardinalityType
  <1>2. 0 \in N
    <2>1. \A T \in SUBSET S : Cardinality(T) = 0 => T = {}
      BY <1>1, FS_EmptySet
    <2>2. {} \in C
      OBVIOUS
    <2> QED
      BY <2>1, <2>2
  <1>3. ASSUME NEW n \in Nat, n \in N PROVE n + 1 \in N
    <2> SUFFICES ASSUME NEW T \in SUBSET S, Cardinality(T) = n + 1
                 PROVE  T \in C
      OBVIOUS
    <2>1. ASSUME NEW x \in T PROVE T \ {x} \in C
      <3>1. Cardinality(T \ {x}) = Cardinality(T) - 1
        BY <1>1, <2>1, FS_RemoveElement, Zenon
      <3>2. Cardinality(T \ {x}) = n
        BY <3>1
      <3> QED
        BY <1>3, <3>2
    <2> QED
      BY <2>1
  <1>4. Nat \subseteq N
    <2> HIDE DEF N
    <2> QED
      BY <1>2, <1>3, InductiveSet
  <1> QED
    BY <1>1, <1>4

(* The sum of numbers is a number.                                         *)
LEMMA SumType ==
  ASSUME NEW f, NEW S, IsFiniteSet(S), \A x \in S : f[x] \in Int
  PROVE  SumFunctionOnSet(f, S) \in Int
  <1> DEFINE C == {T \in SUBSET S : SumFunctionOnSet(f, T) \in Int}
  <1>1. ASSUME NEW T \in SUBSET S, \A x \in T : T \ {x} \in C
        PROVE  T \in C
    <2>1. CASE T = {}
      BY <2>1, SumEmpty
    <2>2. CASE T # {}
      <3>1. IsFiniteSet(T)
        BY FS_Subset
      <3>2. /\ First(T) \in T
            /\ SumFunctionOnSet(f, T) =
                 f[First(T)] + SumFunctionOnSet(f, T \ {First(T)})
        BY <2>2, <3>1, SumFirst
      <3> QED
        BY <1>1, <3>2
    <2> QED
      BY <2>1, <2>2
  <1>2. S \in C
    <2> HIDE DEF C
    <2> QED
      BY <1>1, SmallerFamily
  <1> QED
    BY <1>2

(* Any element may be taken first.                                         *)
LEMMA SumAny ==
  ASSUME NEW f, NEW S, IsFiniteSet(S), \A y \in S : f[y] \in Int, NEW x \in S
  PROVE  SumFunctionOnSet(f, S) = f[x] + SumFunctionOnSet(f, S \ {x})
  <1> DEFINE C == {T \in SUBSET S : \A y \in T :
                     SumFunctionOnSet(f, T) = f[y] + SumFunctionOnSet(f, T \ {y})}
  <1>1. ASSUME NEW T \in SUBSET S, \A y \in T : T \ {y} \in C,
               NEW y \in T
        PROVE  SumFunctionOnSet(f, T) = f[y] + SumFunctionOnSet(f, T \ {y})
    <2> DEFINE z == First(T)
    <2>1. IsFiniteSet(T) /\ T # {}
      BY FS_Subset
    <2>2. /\ z \in T
          /\ SumFunctionOnSet(f, T) = f[z] + SumFunctionOnSet(f, T \ {z})
      BY <2>1, SumFirst
    <2> HIDE DEF z
    <2>3. CASE z = y
      BY <2>2, <2>3
    <2>4. CASE z # y
      <3>1. SumFunctionOnSet(f, T \ {z}) =
              f[y] + SumFunctionOnSet(f, (T \ {z}) \ {y})
        BY <1>1, <2>2, <2>4
      <3>2. SumFunctionOnSet(f, T \ {y}) =
              f[z] + SumFunctionOnSet(f, (T \ {y}) \ {z})
        BY <1>1, <2>2, <2>4
      <3>3. (T \ {z}) \ {y} = (T \ {y}) \ {z}
        OBVIOUS
      <3>4. SumFunctionOnSet(f, (T \ {y}) \ {z}) \in Int
        <4>1. IsFiniteSet((T \ {y}) \ {z})
          BY <2>1, FS_Subset
        <4>2. \A w \in (T \ {y}) \ {z} : f[w] \in Int
          OBVIOUS
        <4> QED
          BY <4>1, <4>2, SumType
      <3>5. f[y] \in Int /\ f[z] \in Int
        BY <2>2
      <3> DEFINE r == SumFunctionOnSet(f, (T \ {y}) \ {z})
                 a == f[y]
                 b == f[z]
      <3>6. /\ r \in Int /\ a \in Int /\ b \in Int
            /\ SumFunctionOnSet(f, T) = b + (a + r)
            /\ SumFunctionOnSet(f, T \ {y}) = b + r
        BY <2>2, <3>1, <3>2, <3>3, <3>4, <3>5, Zenon
      <3>7. b + (a + r) = a + (b + r)
        <4> HIDE DEF a, b, r
        <4> QED
          BY <3>6
      <3> QED
        BY <3>6, <3>7
    <2> QED
      BY <2>3, <2>4
  <1>2. \A T \in SUBSET S : (\A y \in T : T \ {y} \in C) => T \in C
    BY <1>1
  <1>3. S \in C
    <2> HIDE DEF C
    <2> QED
      BY <1>2, SmallerFamily
  <1> QED
    BY <1>3

(* So an element that is new adds its value.                               *)
LEMMA SumAdd ==
  ASSUME NEW f, NEW S, IsFiniteSet(S), NEW x, x \notin S,
         \A y \in S \cup {x} : f[y] \in Int
  PROVE  SumFunctionOnSet(f, S \cup {x}) = f[x] + SumFunctionOnSet(f, S)
  <1> DEFINE T == S \cup {x}
  <1>1. IsFiniteSet(T)
    BY FS_AddElement
  <1>2. x \in T /\ T \ {x} = S
    OBVIOUS
  <1>3. \A y \in T : f[y] \in Int
    OBVIOUS
  <1> HIDE DEF T
  <1>4. SumFunctionOnSet(f, T) = f[x] + SumFunctionOnSet(f, T \ {x})
    BY <1>1, <1>2, <1>3, SumAny
  <1> QED
    BY <1>2, <1>4 DEF T

-----------------------------------------------------------------------------
(* Functions that agree on a set have the same sum over it.                *)
LEMMA SumEqual ==
  ASSUME NEW f, NEW g, NEW S, IsFiniteSet(S), \A x \in S : f[x] = g[x]
  PROVE  SumFunctionOnSet(f, S) = SumFunctionOnSet(g, S)
  <1> DEFINE C == {T \in SUBSET S :
                     SumFunctionOnSet(f, T) = SumFunctionOnSet(g, T)}
  <1>1. ASSUME NEW T \in SUBSET S, \A x \in T : T \ {x} \in C
        PROVE  T \in C
    <2>1. CASE T = {}
      BY <2>1, SumEmpty
    <2>2. CASE T # {}
      <3>1. IsFiniteSet(T)
        BY FS_Subset
      <3>2. /\ First(T) \in T
            /\ SumFunctionOnSet(f, T) =
                 f[First(T)] + SumFunctionOnSet(f, T \ {First(T)})
            /\ SumFunctionOnSet(g, T) =
                 g[First(T)] + SumFunctionOnSet(g, T \ {First(T)})
        BY <2>2, <3>1, SumFirst
      <3> QED
        BY <1>1, <3>2
    <2> QED
      BY <2>1, <2>2
  <1>2. S \in C
    <2> HIDE DEF C
    <2> QED
      BY <1>1, SmallerFamily
  <1> QED
    BY <1>2

(* Nothing adds up to nothing.                                             *)
LEMMA SumZero ==
  ASSUME NEW f, NEW S, IsFiniteSet(S), \A x \in S : f[x] = 0
  PROVE  SumFunctionOnSet(f, S) = 0
  <1> DEFINE C == {T \in SUBSET S : SumFunctionOnSet(f, T) = 0}
  <1>1. {} \in C
    BY SumEmpty
  <1>2. ASSUME NEW T \in SUBSET S, NEW x \in S \ T, T \in C
        PROVE  T \cup {x} \in C
    <2>1. IsFiniteSet(T)
      BY FS_Subset
    <2>2. SumFunctionOnSet(f, T \cup {x}) = f[x] + SumFunctionOnSet(f, T)
      BY <2>1, SumAdd
    <2> QED
      BY <1>2, <2>2
  <1>3. S \in C
    <2> HIDE DEF C
    <2> QED
      BY <1>1, <1>2, InductiveFamily
  <1> QED
    BY <1>3

(* The sum over two sets without a common element.                         *)
LEMMA SumUnion ==
  ASSUME NEW f, NEW S, IsFiniteSet(S), NEW T, IsFiniteSet(T), S \cap T = {},
         \A x \in S \cup T : f[x] \in Int
  PROVE  SumFunctionOnSet(f, S \cup T) =
           SumFunctionOnSet(f, S) + SumFunctionOnSet(f, T)
  <1> DEFINE a == SumFunctionOnSet(f, S)
             C == {U \in SUBSET T :
                     SumFunctionOnSet(f, S \cup U) = a + SumFunctionOnSet(f, U)}
  <1>1. a \in Int
    BY SumType
  <1>2. {} \in C
    <2>1. S \cup {} = S
      OBVIOUS
    <2>2. SumFunctionOnSet(f, {}) = 0
      BY SumEmpty
    <2>3. SumFunctionOnSet(f, S \cup {}) = a
      BY <2>1
    <2>4. a = a + 0
      <3> HIDE DEF a
      <3> QED
        BY <1>1
    <2> HIDE DEF a
    <2> QED
      BY <2>2, <2>3, <2>4
  <1>3. ASSUME NEW U \in SUBSET T, NEW x \in T \ U, U \in C
        PROVE  U \cup {x} \in C
    <2> DEFINE b == SumFunctionOnSet(f, U)
    <2>1. IsFiniteSet(U) /\ IsFiniteSet(S \cup U)
      BY FS_Subset, FS_Union
    <2>2. /\ \A y \in U \cup {x} : f[y] \in Int
          /\ \A y \in (S \cup U) \cup {x} : f[y] \in Int
          /\ x \notin U /\ x \notin S \cup U
      OBVIOUS
    <2>3. SumFunctionOnSet(f, U \cup {x}) = f[x] + b
      BY <2>1, <2>2, SumAdd
    <2>4. SumFunctionOnSet(f, (S \cup U) \cup {x}) =
            f[x] + SumFunctionOnSet(f, S \cup U)
      <3> DEFINE V == S \cup U
      <3>1. IsFiniteSet(V) /\ x \notin V /\ \A y \in V \cup {x} : f[y] \in Int
        BY <2>1, <2>2
      <3> HIDE DEF V
      <3>2. SumFunctionOnSet(f, V \cup {x}) = f[x] + SumFunctionOnSet(f, V)
        BY <3>1, SumAdd
      <3> QED
        BY <3>2 DEF V
    <2>5. (S \cup U) \cup {x} = S \cup (U \cup {x})
      OBVIOUS
    <2>6. SumFunctionOnSet(f, S \cup U) = a + b
      BY <1>3
    <2>7. b \in Int
      BY <2>1, <2>2, SumType
    <2>8. f[x] + (a + b) = a + (f[x] + b)
      <3>1. f[x] \in Int
        OBVIOUS
      <3> HIDE DEF a, b
      <3> QED
        BY <1>1, <2>7, <3>1
    <2>9. SumFunctionOnSet(f, S \cup (U \cup {x})) =
            a + SumFunctionOnSet(f, U \cup {x})
      BY <2>3, <2>4, <2>5, <2>6, <2>8, Zenon
    <2> QED
      BY <2>9
  <1>4. T \in C
    <2> HIDE DEF C
    <2> QED
      BY <1>2, <1>3, InductiveFamily
  <1> QED
    BY <1>4

(* Values that are not negative have a sum that is not.                    *)
LEMMA SumNotNegative ==
  ASSUME NEW f, NEW S, IsFiniteSet(S), \A x \in S : f[x] \in Nat
  PROVE  SumFunctionOnSet(f, S) \in Nat
  <1> DEFINE C == {T \in SUBSET S : SumFunctionOnSet(f, T) \in Nat}
  <1>1. {} \in C
    BY SumEmpty
  <1>2. ASSUME NEW T \in SUBSET S, NEW x \in S \ T, T \in C
        PROVE  T \cup {x} \in C
    <2>1. IsFiniteSet(T)
      BY FS_Subset
    <2>2. SumFunctionOnSet(f, T \cup {x}) = f[x] + SumFunctionOnSet(f, T)
      BY <2>1, SumAdd
    <2>3. f[x] \in Nat /\ SumFunctionOnSet(f, T) \in Nat
      BY <1>2
    <2> QED
      BY <2>2, <2>3
  <1>3. S \in C
    <2> HIDE DEF C
    <2> QED
      BY <1>1, <1>2, InductiveFamily
  <1> QED
    BY <1>3

(* A sum may be taken over the names of the elements.                      *)
LEMMA SumRenamed ==
  ASSUME NEW S, IsFiniteSet(S), NEW h,
         \A x \in S : \A y \in S : h[x] = h[y] => x = y,
         NEW f, \A x \in S : f[h[x]] \in Int
  PROVE  /\ IsFiniteSet({h[x] : x \in S})
         /\ SumFunctionOnSet(f, {h[x] : x \in S}) =
              SumFunctionOnSet([x \in S |-> f[h[x]]], S)
  <1> DEFINE g == [x \in S |-> f[h[x]]]
             I(T) == {h[x] : x \in T}
             C == {T \in SUBSET S :
                     /\ IsFiniteSet(I(T))
                     /\ SumFunctionOnSet(f, I(T)) = SumFunctionOnSet(g, T)}
  <1>1. {} \in C
    <2>1. I({}) = {}
      OBVIOUS
    <2> QED
      BY <2>1, FS_EmptySet, SumEmpty
  <1>2. ASSUME NEW T \in SUBSET S, NEW x \in S \ T, T \in C
        PROVE  T \cup {x} \in C
    <2> DEFINE J == I(T)
    <2>1. IsFiniteSet(T) /\ IsFiniteSet(J)
      BY <1>2, FS_Subset
    <2>2. I(T \cup {x}) = J \cup {h[x]} /\ h[x] \notin J
      OBVIOUS
    <2>3. \A z \in J \cup {h[x]} : f[z] \in Int
      OBVIOUS
    <2>4. SumFunctionOnSet(f, J) = SumFunctionOnSet(g, T)
      BY <1>2
    <2>5. IsFiniteSet(J \cup {h[x]})
      BY <2>1, FS_AddElement
    <2>6. SumFunctionOnSet(f, J \cup {h[x]}) = f[h[x]] + SumFunctionOnSet(f, J)
      <3> HIDE DEF J
      <3> QED
        BY <2>1, <2>2, <2>3, SumAdd
    <2>7. (\A y \in T \cup {x} : g[y] \in Int) /\ g[x] = f[h[x]]
      OBVIOUS
    <2>8. SumFunctionOnSet(g, T \cup {x}) = g[x] + SumFunctionOnSet(g, T)
      <3> HIDE DEF g
      <3> QED
        BY <2>1, <2>7, SumAdd
    <2> HIDE DEF g, I
    <2> QED
      BY <2>2, <2>4, <2>5, <2>6, <2>7, <2>8 DEF J
  <1>3. S \in C
    <2> HIDE DEF C
    <2> QED
      BY <1>1, <1>2, InductiveFamily
  <1> QED
    BY <1>3

(* A factor may be taken out of a sum.                                     *)
LEMMA SumScaled ==
  ASSUME NEW S, IsFiniteSet(S), NEW f, \A x \in S : f[x] \in Int,
         NEW k \in Int, NEW g, \A x \in S : g[x] = k * f[x]
  PROVE  SumFunctionOnSet(g, S) = k * SumFunctionOnSet(f, S)
  <1> DEFINE C == {T \in SUBSET S :
                     SumFunctionOnSet(g, T) = k * SumFunctionOnSet(f, T)}
  <1>1. {} \in C
    BY SumEmpty
  <1>2. ASSUME NEW T \in SUBSET S, NEW x \in S \ T, T \in C
        PROVE  T \cup {x} \in C
    <2> DEFINE a == f[x]
               b == SumFunctionOnSet(f, T)
    <2>1. IsFiniteSet(T)
      BY FS_Subset
    <2>2. a \in Int /\ b \in Int
      BY <2>1, SumType
    <2>3. SumFunctionOnSet(f, T \cup {x}) = a + b
      BY <2>1, SumAdd
    <2>4. \A y \in T \cup {x} : g[y] \in Int
      OBVIOUS
    <2>5. SumFunctionOnSet(g, T \cup {x}) = g[x] + SumFunctionOnSet(g, T)
      BY <2>1, <2>4, SumAdd
    <2>6. g[x] = k * a /\ SumFunctionOnSet(g, T) = k * b
      BY <1>2
    <2>7. k * a + k * b = k * (a + b)
      <3> HIDE DEF a, b
      <3> QED
        BY <2>2
    <2>8. SumFunctionOnSet(g, T \cup {x}) = k * SumFunctionOnSet(f, T \cup {x})
      BY <2>3, <2>5, <2>6, <2>7, Zenon
    <2> QED
      BY <2>8
  <1>3. S \in C
    <2> HIDE DEF C
    <2> QED
      BY <1>1, <1>2, InductiveFamily
  <1> QED
    BY <1>3

(* The sums over the classes of a division add up to the sum over all.     *)
LEMMA SumOfClasses ==
  ASSUME NEW f, NEW U, IsFiniteSet(U), \A x \in U : f[x] \in Int,
         NEW R, IsFiniteSet(R), NEW G, \A r \in R : G[r] \subseteq U,
         \A r \in R : \A q \in R : r # q => G[r] \cap G[q] = {},
         NEW g, \A r \in R : g[r] = SumFunctionOnSet(f, G[r])
  PROVE  SumFunctionOnSet(g, R) = SumFunctionOnSet(f, UNION {G[r] : r \in R})
  <1> DEFINE M(T) == UNION {G[r] : r \in T}
             C == {T \in SUBSET R :
                     SumFunctionOnSet(g, T) = SumFunctionOnSet(f, M(T))}
  <1>0. \A r \in R : g[r] \in Int
    BY FS_Subset, SumType
  <1>1. {} \in C
    <2>1. M({}) = {}
      OBVIOUS
    <2> QED
      BY <2>1, SumEmpty
  <1>2. ASSUME NEW T \in SUBSET R, NEW r \in R \ T, T \in C
        PROVE  T \cup {r} \in C
    <2> DEFINE V == M(T)
               W == G[r]
    <2>1. M(T \cup {r}) = V \cup W /\ V \cap W = {} /\ V \subseteq U /\ W \subseteq U
      OBVIOUS
    <2>2. IsFiniteSet(T) /\ IsFiniteSet(V) /\ IsFiniteSet(W)
      <3> HIDE DEF V, W
      <3> QED
        BY <2>1, FS_Subset
    <2>3. SumFunctionOnSet(f, V \cup W) =
            SumFunctionOnSet(f, V) + SumFunctionOnSet(f, W)
      <3> HIDE DEF V, W
      <3> QED
        BY <2>1, <2>2, SumUnion
    <2>4. SumFunctionOnSet(g, T \cup {r}) = g[r] + SumFunctionOnSet(g, T)
      BY <1>0, <2>2, SumAdd
    <2>5. SumFunctionOnSet(g, T) = SumFunctionOnSet(f, V)
      BY <1>2
    <2>6. g[r] = SumFunctionOnSet(f, W)
      OBVIOUS
    <2>7. SumFunctionOnSet(f, V) \in Int /\ SumFunctionOnSet(f, W) \in Int
      <3> HIDE DEF V, W
      <3> QED
        BY <2>1, <2>2, SumType
    <2> HIDE DEF M, V, W
    <2>8. SumFunctionOnSet(g, T \cup {r}) = SumFunctionOnSet(f, M(T \cup {r}))
      <3> DEFINE v == SumFunctionOnSet(f, V)
                 w == SumFunctionOnSet(f, W)
      <3>1. w + v = v + w
        <4>1. v \in Int /\ w \in Int
          BY <2>7
        <4> HIDE DEF v, w
        <4> QED
          BY <4>1
      <3> QED
        BY <2>1, <2>3, <2>4, <2>5, <2>6, <3>1, Zenon
    <2> QED
      BY <2>8
  <1>3. R \in C
    <2> HIDE DEF C
    <2> QED
      BY <1>1, <1>2, InductiveFamily
  <1> QED
    BY <1>3

-----------------------------------------------------------------------------
(* Sums of sequences.                                                      *)
LEMMA SumOfEmpty == SumFunction(<<>>) = 0
  <1>1. DOMAIN <<>> = {}
    OBVIOUS
  <1> QED
    BY <1>1, SumEmpty DEF SumFunction

LEMMA SumOfSequence ==
  ASSUME NEW q \in Seq(Int)
  PROVE  /\ IsFiniteSet(DOMAIN q) /\ DOMAIN q = 1 .. Len(q)
         /\ SumFunction(q) \in Int
  <1>1. DOMAIN q = 1 .. Len(q) /\ Len(q) \in Nat /\ \A i \in 1 .. Len(q) : q[i] \in Int
    OBVIOUS
  <1>2. IsFiniteSet(1 .. Len(q))
    BY <1>1, FS_Interval
  <1> QED
    BY <1>1, <1>2, SumType DEF SumFunction

LEMMA SumOfAppend ==
  ASSUME NEW q \in Seq(Int), NEW d \in Int
  PROVE  SumFunction(Append(q, d)) = SumFunction(q) + d
  <1> DEFINE n == Len(q)
             a == Append(q, d)
             S == 1 .. n
  <1>1. /\ n \in Nat /\ a \in Seq(Int) /\ Len(a) = n + 1
        /\ DOMAIN q = S /\ DOMAIN a = 1 .. n + 1
        /\ a[n + 1] = d /\ \A i \in S : a[i] = q[i] /\ q[i] \in Int
    OBVIOUS
  <1> HIDE DEF a
  <1>2. 1 .. n + 1 = S \cup {n + 1} /\ n + 1 \notin S
    BY <1>1
  <1>3. IsFiniteSet(S)
    BY <1>1, FS_Interval
  <1> HIDE DEF n, S
  <1>4. SumFunctionOnSet(a, S) = SumFunctionOnSet(q, S)
    <2>1. \A i \in S : a[i] = q[i]
      BY <1>1
    <2> QED
      BY <1>3, <2>1, SumEqual, Zenon
  <1>5. \A i \in S \cup {n + 1} : a[i] \in Int
    BY <1>1
  <1>6. SumFunctionOnSet(a, S \cup {n + 1}) = a[n + 1] + SumFunctionOnSet(a, S)
    BY <1>2, <1>3, <1>5, SumAdd
  <1>7. SumFunctionOnSet(q, S) \in Int
    BY <1>1, <1>3, SumType
  <1>8. /\ SumFunction(Append(q, d)) = d + SumFunctionOnSet(q, S)
        /\ SumFunction(q) = SumFunctionOnSet(q, S)
    BY <1>1, <1>2, <1>4, <1>6, Zenon DEF SumFunction, a
  <1> QED
    BY <1>7, <1>8

LEMMA SumOfTail ==
  ASSUME NEW q \in Seq(Int), q # <<>>
  PROVE  SumFunction(q) = Head(q) + SumFunction(Tail(q))
  <1> DEFINE n == Len(q)
             t == Tail(q)
             S == 1 .. n - 1
             h == [i \in S |-> i + 1]
             T == {h[i] : i \in S}
             g == [i \in S |-> q[h[i]]]
  <1>1. /\ n \in Nat /\ n > 0 /\ t \in Seq(Int) /\ Len(t) = n - 1
        /\ DOMAIN t = S /\ DOMAIN q = 1 .. n /\ Head(q) = q[1]
        /\ \A i \in 1 .. n : q[i] \in Int
    OBVIOUS
  <1>2. \A i \in S : t[i] = q[i + 1]
    OBVIOUS
  <1>3. IsFiniteSet(S)
    BY <1>1, FS_Interval
  <1>4. 1 .. n = T \cup {1} /\ 1 \notin T
    <2>1. \A j \in 1 .. n : j = 1 \/ (j - 1 \in S /\ h[j - 1] = j)
      BY <1>1
    <2>2. \A i \in S : h[i] \in 1 .. n /\ h[i] # 1
      BY <1>1
    <2>3. 1 \in 1 .. n
      BY <1>1
    <2> HIDE DEF n, S, h
    <2> QED
      BY <2>1, <2>2, <2>3
  <1>5. \A i \in S : h[i] \in 1 .. n /\ q[h[i]] \in Int
    BY <1>1
  <1>6. \A i \in S : \A j \in S : h[i] = h[j] => i = j
    OBVIOUS
  <1>7. \A i \in S : t[i] = g[i]
    BY <1>2
  <1> HIDE DEF n, t, S, h
  <1>8. /\ IsFiniteSet(T)
        /\ SumFunctionOnSet(q, T) = SumFunctionOnSet(g, S)
    BY <1>3, <1>5, <1>6, SumRenamed
  <1> HIDE DEF g, T
  <1>9. SumFunctionOnSet(t, S) = SumFunctionOnSet(g, S)
    BY <1>3, <1>7, SumEqual
  <1>10. \A i \in T \cup {1} : q[i] \in Int
    BY <1>1, <1>4
  <1>11. SumFunctionOnSet(q, T \cup {1}) = q[1] + SumFunctionOnSet(q, T)
    BY <1>4, <1>8, <1>10, SumAdd
  <1> QED
    BY <1>1, <1>4, <1>8, <1>9, <1>11 DEF SumFunction, t

=============================================================================
