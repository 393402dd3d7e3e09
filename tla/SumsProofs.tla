------------------------------ MODULE SumsProofs ------------------------------
(***************************************************************************)
(* The two components whose safety is about sums over their rows, proved   *)
(* for any values of their constants: the refunds a payment has room for   *)
(* (BillingRefunds) and the counters of a review (ReviewRatings).          *)
(*                                                                         *)
(* Sums over sets are folds, of which nothing is known but their           *)
(* definition; the first section proves what is needed of them, by minimal *)
(* counterexamples.                                                        *)
(*                                                                         *)
(* Refunds: whoever is between the sum of the reservations and the insert  *)
(* holds the payment's row, so what it found to be available stays         *)
(* available; and all that is sent to Stripe for an operation is read from *)
(* its row, whose payment and amount never change.                         *)
(*                                                                         *)
(* Ratings: every operation on a rating leaves with its request just what  *)
(* it did to the sum of the ratings, until the review's counters get it.   *)
(***************************************************************************)
EXTENDS BillingRefunds, ReviewRatings, FiniteSetTheorems, WellFoundedInduction, TLAPS

-----------------------------------------------------------------------------
(* Sums over finite sets *)

\* The element a fold takes out of a set first.
First(s) == CHOOSE x \in s : TRUE

\* g is the fold of f over the subsets of S.
Folding(f, S, g) ==
  g = [s \in SUBSET S |-> IF s = {} THEN 0 ELSE f[First(s)] + g[s \ {First(s)}]]

SumOf(f, S) == (CHOOSE g : Folding(f, S, g))[S]

LEMMA MinimalSubset ==
  ASSUME NEW S, IsFiniteSet(S), NEW Bad \in SUBSET (SUBSET S), Bad # {}
  PROVE  \E T \in Bad : \A U \in Bad : U \subseteq T => U = T
<1>1. IsWellFoundedOn(StrictSubsetOrdering(S), FiniteSubsetsOf(S))
  BY FS_StrictSubsetOrderingWellFounded
<1>2. Bad \subseteq FiniteSubsetsOf(S)
  BY FS_Subset DEF FiniteSubsetsOf
<1>3. PICK T \in Bad : \A U \in Bad : ~ (<<U, T>> \in StrictSubsetOrdering(S))
  BY <1>1, <1>2, WFMin
<1> QED BY <1>3 DEF StrictSubsetOrdering

\* A family that holds the empty set and, with every smaller set, a set itself, holds all.
LEMMA SubsetInduction ==
  ASSUME NEW S, IsFiniteSet(S), NEW Good,
         \A T \in SUBSET S : (\A U \in SUBSET T : U # T => U \in Good) => T \in Good
  PROVE  \A T \in SUBSET S : T \in Good
<1> DEFINE Bad == {T \in SUBSET S : T \notin Good}
<1>1. SUFFICES ASSUME Bad # {} PROVE FALSE
  OBVIOUS
<1>2. PICK T \in Bad : \A U \in Bad : U \subseteq T => U = T
  <2>1. Bad \in SUBSET (SUBSET S)
    OBVIOUS
  <2> HIDE DEF Bad
  <2> QED BY <1>1, <2>1, MinimalSubset
<1> QED BY <1>2

LEMMA FoldingUnique ==
  ASSUME NEW S, IsFiniteSet(S), NEW f, NEW g, NEW h, Folding(f, S, g), Folding(f, S, h)
  PROVE  g = h
<1> DEFINE Good == {T \in SUBSET S : g[T] = h[T]}
<1>1. ASSUME NEW T \in SUBSET S, \A U \in SUBSET T : U # T => U \in Good
      PROVE  T \in Good
  <2>1. CASE T = {}
    BY <2>1 DEF Folding
  <2>2. CASE T # {}
    <3>1. First(T) \in T
      BY <2>2 DEF First
    <3>2. g[T \ {First(T)}] = h[T \ {First(T)}]
      BY <3>1, <1>1
    <3> QED BY <2>2, <3>2 DEF Folding
  <2> QED BY <2>1, <2>2
<1>2. \A T \in SUBSET S : T \in Good
  <2> HIDE DEF Good
  <2> QED BY <1>1, SubsetInduction
<1>3. \A T \in SUBSET S : g[T] = h[T]
  BY <1>2
<1>4. /\ g = [s \in SUBSET S |-> g[s]] /\ h = [s \in SUBSET S |-> h[s]]
  BY DEF Folding
<1> QED BY <1>3, <1>4

\* A set has a fold when all smaller sets have one.
LEMMA FoldingExists ==
  ASSUME NEW S, IsFiniteSet(S), NEW f
  PROVE  \E g : Folding(f, S, g)
<1> DEFINE Fold(T) == CHOOSE g : Folding(f, T, g)
           Good == {T \in SUBSET S : Folding(f, T, Fold(T))}
<1>1. ASSUME NEW T \in SUBSET S, \A U \in SUBSET T : U # T => U \in Good
      PROVE  T \in Good
  <2> DEFINE g == [s \in SUBSET T |-> IF s = {} THEN 0
                                      ELSE f[First(s)] + Fold(s \ {First(s)})[s \ {First(s)}]]
  <2>0. \A U \in SUBSET T : U # T => Folding(f, U, Fold(U)) /\ IsFiniteSet(U)
    BY <1>1, FS_Subset
  <2>1. ASSUME NEW U \in SUBSET T, U # T, NEW V \in SUBSET U
        PROVE  Fold(U)[V] = Fold(V)[V]
    <3> DEFINE h == [s \in SUBSET V |-> Fold(U)[s]]
    <3>1. Folding(f, U, Fold(U)) /\ Folding(f, V, Fold(V)) /\ IsFiniteSet(V)
      BY <2>0, <2>1
    <3>2. Folding(f, V, h)
      <4> HIDE DEF Fold
      <4>1. \A s \in SUBSET V : Fold(U)[s] = IF s = {} THEN 0 ELSE f[First(s)] + Fold(U)[s \ {First(s)}]
        BY <3>1 DEF Folding
      <4> QED BY <4>1 DEF Folding
    <3>3. h = Fold(V)
      <4> HIDE DEF Fold, h
      <4> QED BY <3>1, <3>2, FoldingUnique
    <3> HIDE DEF Fold
    <3> QED BY <3>3
  <2>2. \A s \in SUBSET T : s # {} => g[s \ {First(s)}] = Fold(s \ {First(s)})[s \ {First(s)}]
    <3> SUFFICES ASSUME NEW s \in SUBSET T, s # {}
                 PROVE g[s \ {First(s)}] = Fold(s \ {First(s)})[s \ {First(s)}]
      OBVIOUS
    <3> DEFINE U == s \ {First(s)}
    <3>1. U \in SUBSET T /\ U # T
      BY DEF First
    <3>2. Folding(f, U, Fold(U))
      BY <3>1, <2>0
    <3>3. CASE U = {}
      <4> HIDE DEF Fold
      <4> QED BY <3>1, <3>2, <3>3 DEF Folding
    <3>4. CASE U # {}
      <4> DEFINE V == U \ {First(U)}
      <4>1. V \in SUBSET U
        OBVIOUS
      <4>2. Fold(U)[U] = f[First(U)] + Fold(U)[V]
        <5> HIDE DEF Fold
        <5> QED BY <3>2, <3>4 DEF Folding
      <4>3. Fold(U)[V] = Fold(V)[V]
        BY <3>1, <4>1, <2>1
      <4> HIDE DEF Fold
      <4> QED BY <3>1, <3>4, <4>2, <4>3
    <3> QED BY <3>3, <3>4
  <2>3. Folding(f, T, g)
    <3> HIDE DEF Fold
    <3> QED BY <2>2 DEF Folding
  <2>4. Folding(f, T, Fold(T))
    <3> HIDE DEF g
    <3> QED BY <2>3
  <2> QED BY <2>4
<1>2. \A T \in SUBSET S : T \in Good
  <2> HIDE DEF Good
  <2> QED BY <1>1, SubsetInduction
<1> QED BY <1>2

\* What the fold of f over S gives: 0 for no element, else the first one's and the rest's.
LEMMA SumUnfold ==
  ASSUME NEW S, IsFiniteSet(S), NEW f
  PROVE  /\ SumOf(f, {}) = 0
         /\ S # {} => SumOf(f, S) = f[First(S)] + SumOf(f, S \ {First(S)})
<1> DEFINE Fold(T) == CHOOSE g : Folding(f, T, g)
<1>1. \A T : IsFiniteSet(T) => Folding(f, T, Fold(T))
  BY FoldingExists
<1>2. SumOf(f, {}) = 0
  <2>1. Folding(f, {}, Fold({}))
    BY <1>1, FS_EmptySet
  <2>2. Fold({})[{}] = 0
    <3> HIDE DEF Fold
    <3> QED BY <2>1 DEF Folding
  <2> QED BY <2>2 DEF SumOf
<1>3. ASSUME S # {}
      PROVE  SumOf(f, S) = f[First(S)] + SumOf(f, S \ {First(S)})
  <2> DEFINE U == S \ {First(S)}
             h == [s \in SUBSET U |-> Fold(S)[s]]
  <2>1. Folding(f, S, Fold(S)) /\ Folding(f, U, Fold(U)) /\ IsFiniteSet(U)
    BY <1>1, FS_Subset
  <2>2. Folding(f, U, h)
    <3> HIDE DEF Fold
    <3>1. \A s \in SUBSET U : Fold(S)[s] = IF s = {} THEN 0 ELSE f[First(s)] + Fold(S)[s \ {First(s)}]
      BY <2>1 DEF Folding
    <3> QED BY <3>1 DEF Folding
  <2>3. h = Fold(U)
    <3> HIDE DEF Fold, h, U
    <3> QED BY <2>1, <2>2, FoldingUnique
  <2>4. Fold(S)[S] = f[First(S)] + Fold(S)[U]
    <3> HIDE DEF Fold
    <3> QED BY <2>1, <1>3 DEF Folding
  <2>5. Fold(S)[U] = Fold(U)[U]
    <3> HIDE DEF Fold
    <3> QED BY <2>3
  <2> QED BY <2>4, <2>5 DEF SumOf
<1> QED BY <1>2, <1>3

LEMMA SumType ==
  ASSUME NEW D, NEW f \in [D -> Nat], NEW S \in SUBSET D, IsFiniteSet(S)
  PROVE  SumOf(f, S) \in Nat
<1> DEFINE Good == {T \in SUBSET S : SumOf(f, T) \in Nat}
<1>1. ASSUME NEW T \in SUBSET S, \A U \in SUBSET T : U # T => U \in Good
      PROVE  T \in Good
  <2>1. IsFiniteSet(T)
    BY FS_Subset
  <2>2. CASE T = {}
    BY <2>1, <2>2, SumUnfold
  <2>3. CASE T # {}
    <3>1. First(T) \in T
      BY <2>3 DEF First
    <3>2. SumOf(f, T \ {First(T)}) \in Nat /\ f[First(T)] \in Nat
      BY <3>1, <1>1
    <3> QED BY <2>1, <2>3, <3>2, SumUnfold
  <2> QED BY <2>2, <2>3
<1>2. \A T \in SUBSET S : T \in Good
  <2> HIDE DEF Good
  <2> QED BY <1>1, SubsetInduction
<1> QED BY <1>2

LEMMA SumInteger ==
  ASSUME NEW f, NEW S, IsFiniteSet(S), \A x \in S : f[x] \in Int
  PROVE  SumOf(f, S) \in Int
<1> DEFINE Good == {T \in SUBSET S : SumOf(f, T) \in Int}
<1>1. ASSUME NEW T \in SUBSET S, \A U \in SUBSET T : U # T => U \in Good
      PROVE  T \in Good
  <2>1. IsFiniteSet(T)
    BY FS_Subset
  <2>2. CASE T = {}
    BY <2>1, <2>2, SumUnfold
  <2>3. CASE T # {}
    <3>1. First(T) \in T
      BY <2>3 DEF First
    <3>2. SumOf(f, T \ {First(T)}) \in Int /\ f[First(T)] \in Int
      BY <3>1, <1>1
    <3> QED BY <2>1, <2>3, <3>2, SumUnfold
  <2> QED BY <2>2, <2>3
<1>2. \A T \in SUBSET S : T \in Good
  <2> HIDE DEF Good
  <2> QED BY <1>1, SubsetInduction
<1> QED BY <1>2

\* Any element of a set may be taken out of its sum.
LEMMA SumRemove ==
  ASSUME NEW f, NEW S, IsFiniteSet(S), \A s \in S : f[s] \in Int, NEW x \in S
  PROVE  SumOf(f, S) = f[x] + SumOf(f, S \ {x})
<1> DEFINE Good == {T \in SUBSET S : \A y \in T : SumOf(f, T) = f[y] + SumOf(f, T \ {y})}
<1>1. ASSUME NEW T \in SUBSET S, \A U \in SUBSET T : U # T => U \in Good
      PROVE  T \in Good
  <2> SUFFICES ASSUME NEW y \in T PROVE SumOf(f, T) = f[y] + SumOf(f, T \ {y})
    OBVIOUS
  <2> DEFINE z == First(T)
  <2>1. z \in T /\ IsFiniteSet(T) /\ IsFiniteSet(T \ {y})
    BY FS_Subset DEF First
  <2>2. SumOf(f, T) = f[z] + SumOf(f, T \ {z})
    BY <2>1, SumUnfold
  <2>3. CASE z # y
    <3>1. SumOf(f, T \ {z}) = f[y] + SumOf(f, (T \ {z}) \ {y})
      <4>1. T \ {z} \in SUBSET T /\ T \ {z} # T /\ y \in T \ {z}
        BY <2>1, <2>3
      <4> HIDE DEF z
      <4> QED BY <4>1, <1>1
    <3>2. SumOf(f, T \ {y}) = f[z] + SumOf(f, (T \ {y}) \ {z})
      <4>1. T \ {y} \in SUBSET T /\ T \ {y} # T /\ z \in T \ {y}
        BY <2>1, <2>3
      <4> HIDE DEF z
      <4> QED BY <4>1, <1>1
    <3>3. (T \ {z}) \ {y} = (T \ {y}) \ {z}
      OBVIOUS
    <3>4. SumOf(f, (T \ {y}) \ {z}) \in Int /\ f[y] \in Int /\ f[z] \in Int
      <4>1. IsFiniteSet((T \ {y}) \ {z})
        BY <2>1, FS_Subset
      <4> QED BY <2>1, <4>1, SumInteger
    <3> DEFINE rest == SumOf(f, (T \ {y}) \ {z})
    <3>5. SumOf(f, T) = f[z] + (f[y] + rest) /\ SumOf(f, T \ {y}) = f[z] + rest
      <4> HIDE DEF z
      <4> QED BY <2>2, <3>1, <3>2, <3>3
    <3> HIDE DEF z, rest
    <3> QED BY <3>4, <3>5 DEF rest
  <2> QED BY <2>2, <2>3
<1>2. \A T \in SUBSET S : T \in Good
  <2> HIDE DEF Good
  <2> QED BY <1>1, SubsetInduction
<1> QED BY <1>2

\* A sum depends on nothing outside of its set.
LEMMA SumAgrees ==
  ASSUME NEW f, NEW g, NEW S, IsFiniteSet(S), \A x \in S : f[x] = g[x]
  PROVE  SumOf(f, S) = SumOf(g, S)
<1> DEFINE Good == {T \in SUBSET S : SumOf(f, T) = SumOf(g, T)}
<1>1. ASSUME NEW T \in SUBSET S, \A U \in SUBSET T : U # T => U \in Good
      PROVE  T \in Good
  <2>1. IsFiniteSet(T)
    BY FS_Subset
  <2>2. CASE T = {}
    BY <2>1, <2>2, SumUnfold
  <2>3. CASE T # {}
    <3>1. First(T) \in T
      BY <2>3 DEF First
    <3>2. SumOf(f, T \ {First(T)}) = SumOf(g, T \ {First(T)}) /\ f[First(T)] = g[First(T)]
      BY <3>1, <1>1
    <3> QED BY <2>1, <2>3, <3>2, SumUnfold
  <2> QED BY <2>2, <2>3
<1>2. \A T \in SUBSET S : T \in Good
  <2> HIDE DEF Good
  <2> QED BY <1>1, SubsetInduction
<1> QED BY <1>2

\* What a sum comes to when one element is added, taken out or given another value.
LEMMA SumGains ==
  ASSUME NEW f, NEW g, NEW S, IsFiniteSet(S), NEW x, x \notin S,
         \A s \in S : f[s] \in Int /\ g[s] = f[s], g[x] \in Int
  PROVE  SumOf(g, S \cup {x}) = SumOf(f, S) + g[x]
<1> DEFINE T == S \cup {x}
<1>1. IsFiniteSet(T) /\ T \ {x} = S /\ x \in T /\ \A s \in T : g[s] \in Int
  BY FS_AddElement
<1> HIDE DEF T
<1>2. SumOf(g, T) = g[x] + SumOf(g, S)
  BY <1>1, SumRemove
<1>3. SumOf(g, S) = SumOf(f, S) /\ SumOf(f, S) \in Int
  BY SumAgrees, SumInteger
<1> QED BY <1>2, <1>3 DEF T

LEMMA SumLoses ==
  ASSUME NEW f, NEW g, NEW S, IsFiniteSet(S), NEW x \in S, NEW T, T = S \ {x},
         \A s \in S : f[s] \in Int, \A s \in S : s # x => g[s] = f[s]
  PROVE  SumOf(g, T) = SumOf(f, S) - f[x]
<1>1. IsFiniteSet(T) /\ (\A s \in T : f[s] \in Int /\ g[s] = f[s])
  BY FS_Subset
<1>2. SumOf(f, S) = f[x] + SumOf(f, T)
  BY SumRemove
<1>3. SumOf(g, T) = SumOf(f, T) /\ SumOf(f, T) \in Int
  BY <1>1, SumAgrees, SumInteger
<1> QED BY <1>2, <1>3

LEMMA SumChanges ==
  ASSUME NEW f, NEW g, NEW S, IsFiniteSet(S), NEW x \in S,
         \A s \in S : f[s] \in Int, \A s \in S : s # x => g[s] = f[s], g[x] \in Int
  PROVE  SumOf(g, S) = SumOf(f, S) - f[x] + g[x]
<1> DEFINE T == S \ {x}
<1>1. IsFiniteSet(T) /\ (\A s \in T : f[s] \in Int /\ g[s] = f[s]) /\ (\A s \in S : g[s] \in Int)
  BY FS_Subset
<1>2. SumOf(f, S) = f[x] + SumOf(f, T) /\ SumOf(g, S) = g[x] + SumOf(g, T)
  BY <1>1, SumRemove
<1> HIDE DEF T
<1>3. SumOf(g, T) = SumOf(f, T) /\ SumOf(f, T) \in Int
  BY <1>1, SumAgrees, SumInteger
<1> QED BY <1>2, <1>3

LEMMA SumOfSubset ==
  ASSUME NEW D, NEW f \in [D -> Nat], NEW S \in SUBSET D, IsFiniteSet(S), NEW R \in SUBSET S
  PROVE  SumOf(f, R) <= SumOf(f, S)
<1> DEFINE Good == {T \in SUBSET S : R \subseteq T => SumOf(f, R) <= SumOf(f, T)}
<1>1. ASSUME NEW T \in SUBSET S, \A U \in SUBSET T : U # T => U \in Good
      PROVE  T \in Good
  <2> SUFFICES ASSUME R \subseteq T PROVE SumOf(f, R) <= SumOf(f, T)
    OBVIOUS
  <2>1. IsFiniteSet(T) /\ IsFiniteSet(R)
    BY FS_Subset
  <2>2. SumOf(f, R) \in Nat
    BY <2>1, SumType
  <2>3. CASE R # T
    <3>1. PICK x \in T : x \notin R
      BY <2>3
    <3>2. SumOf(f, T) = f[x] + SumOf(f, T \ {x})
      BY <2>1, SumRemove
    <3>3. SumOf(f, R) <= SumOf(f, T \ {x})
      BY <3>1, <1>1
    <3>4. SumOf(f, T \ {x}) \in Nat /\ f[x] \in Nat
      BY <2>1, FS_Subset, SumType
    <3> QED BY <2>2, <3>2, <3>3, <3>4
  <2> QED BY <2>2, <2>3
<1>2. \A T \in SUBSET S : T \in Good
  <2> HIDE DEF Good
  <2> QED BY <1>1, SubsetInduction
<1> QED BY <1>2

-----------------------------------------------------------------------------
(* Refunds: the inductive invariant *)

\* What a request has between its steps: a payment, an operation and an amount.
RequestTyped(r) ==
  pc[r] # "idle" => /\ req[r].payment \in Payment
                    /\ req[r].op \in Operation
                    /\ req[r].amount \in Amount \cup {Price}

\* Between the lock and the insert a request holds its payment's row.
HoldsRow(r) == pc[r] \in {"reserve", "insert"} => paymentLock[req[r].payment] = r

\* Refunds of operations that were never FAILED.
Fresh(p) == Live(p, Operation \ failedOnce)
Reserved(p) == Total(Fresh(p))

\* What a request found to be available is so until its insert.
StillAvailable(r) ==
  pc[r] = "insert" => Reserved(req[r].payment) + req[r].amount <= Price

\* A request that is past transaction 1 has a row, and one that stores a refund's id has
\* that refund at Stripe.
RowWritten(r) ==
  /\ pc[r] \in {"stripe", "finalize", "markfailed"} =>
       /\ Exists(req[r].op)
       /\ refund[req[r].op].payment = req[r].payment
  /\ pc[r] = "finalize" => RefundArguments(r) \in stripeRefunds

RequestOK(r) == RequestTyped(r) /\ HoldsRow(r) /\ StillAvailable(r) /\ RowWritten(r)

\* Stripe's refunds are those the rows ask for.
RefundMatchesRow ==
  \A f \in stripeRefunds :
    /\ f.key = f.op /\ Exists(f.op)
    /\ f.payment = refund[f.op].payment /\ f.amount = refund[f.op].amount

\* A stored id is that of the operation's refund.
StoredIdIsOwn ==
  \A op \in Operation : refund[op].stripeId # None =>
    refund[op].stripeId \in stripeRefunds /\ refund[op].stripeId.op = op

FailedIsRemembered == \A op \in Operation : refund[op].status = "failed" => op \in failedOnce

SuccessHasId == \A op \in Operation : refund[op].status = "succeeded" => refund[op].stripeId # None

FinitelyMany == IsFiniteSet({op \in Operation : Exists(op)})

IInv ==
  /\ TypeOK
  /\ \A r \in Request : RequestOK(r)
  /\ RefundMatchesRow
  /\ StoredIdIsOwn
  /\ FailedIsRemembered
  /\ SuccessHasId
  /\ FinitelyMany
  /\ FreshReservationsWithinPayment
  /\ SuccessConfirmedByStripe

-----------------------------------------------------------------------------
(* Refunds: reservations *)

Amounts == [op \in Operation |-> refund[op].amount]

LEMMA TotalIsSum ==
  ASSUME NEW ops \in SUBSET Operation
  PROVE  Total(ops) = SumOf(Amounts, ops)
<1> DEFINE Fold(g) == g = [s \in SUBSET ops |->
                             IF s = {} THEN 0
                             ELSE refund[First(s)].amount + g[s \ {First(s)}]]
<1>1. Total(ops) = (CHOOSE g : Fold(g))[ops]
  BY DEF Total, MapThenSumSet, MapThenFoldSet, First
<1>2. ASSUME NEW g PROVE Fold(g) <=> Folding(Amounts, ops, g)
  <2>1. \A s \in SUBSET ops : s # {} => Amounts[First(s)] = refund[First(s)].amount
    BY DEF Amounts, First
  <2> QED BY <2>1 DEF Folding
<1> HIDE DEF Fold
<1>3. (CHOOSE g : Fold(g)) = (CHOOSE g : Folding(Amounts, ops, g))
  BY <1>2
<1> QED BY <1>1, <1>3 DEF SumOf

LEMMA ReservedIsSum ==
  ASSUME NEW p \in Payment
  PROVE  /\ Reserved(p) = SumOf(Amounts, Fresh(p))
         /\ Reserved(p)' = SumOf(Amounts', Fresh(p)')
         /\ Total(Live(p, Operation)) = SumOf(Amounts, Live(p, Operation))
<1>1. /\ Fresh(p) \in SUBSET Operation /\ Live(p, Operation) \in SUBSET Operation
      /\ Fresh(p)' \in SUBSET Operation
  BY DEF Fresh, Live
<1>2. Reserved(p) = SumOf(Amounts, Fresh(p))
  BY <1>1, TotalIsSum DEF Reserved
<1>3. (Reserved(p) = SumOf(Amounts, Fresh(p)))'
  BY <1>2, PTL
<1>4. Total(Live(p, Operation)) = SumOf(Amounts, Live(p, Operation))
  BY <1>1, TotalIsSum
<1> QED BY <1>2, <1>3, <1>4

LEMMA RowValues ==
  ASSUME NEW row \in RefundRow \cup {NoRefund}
  PROVE  /\ row.amount \in Nat
         /\ row.payment \in Payment => row # NoRefund
         /\ row # NoRefund => row \in RefundRow
<1>1. CASE row \in RefundRow
  <2>1. row.amount \in Amount \cup {Price} /\ row.payment \in Payment
    BY <1>1 DEF RefundRow
  <2>2. NoRefund.payment = None
    BY DEF NoRefund
  <2> QED BY <1>1, <2>1, <2>2, PriceAssumption, AmountAssumption, NoneAssumption
<1>2. CASE row = NoRefund
  BY <1>2, NoneAssumption DEF NoRefund
<1> QED BY <1>1, <1>2

LEMMA RowShape ==
  ASSUME TypeOK
  PROVE  /\ Amounts \in [Operation -> Nat]
         /\ \A op \in Operation : refund[op].payment \in Payment => Exists(op)
<1>1. refund \in [Operation -> RefundRow \cup {NoRefund}]
  BY DEF TypeOK
<1> QED BY <1>1, RowValues DEF Amounts, Exists

LEMMA NextRowShape ==
  ASSUME TypeOK'
  PROVE  Amounts' \in [Operation -> Nat]
<1>1. refund' \in [Operation -> RefundRow \cup {NoRefund}]
  BY DEF TypeOK
<1>2. \A op \in Operation : refund'[op] \in RefundRow \cup {NoRefund}
  BY <1>1
<1>3. \A op \in Operation : refund'[op].amount \in Nat
  BY <1>2, RowValues
<1> QED BY <1>3 DEF Amounts

LEMMA LiveIsFinite ==
  ASSUME TypeOK, FinitelyMany, NEW p \in Payment
  PROVE  /\ Fresh(p) \subseteq Live(p, Operation)
         /\ Live(p, Operation) \subseteq Operation
         /\ IsFiniteSet(Live(p, Operation))
         /\ IsFiniteSet(Fresh(p))
<1>1. Fresh(p) \subseteq Live(p, Operation) /\ Live(p, Operation) \subseteq Operation
  BY DEF Fresh, Live
<1>2. Live(p, Operation) \subseteq {op \in Operation : Exists(op)}
  BY RowShape DEF Live
<1> QED BY <1>1, <1>2, FS_Subset DEF FinitelyMany

\* What is reserved grows by no step that leaves the set of fresh refunds as it is or
\* takes some out of it.
LEMMA ReservedShrinks ==
  ASSUME TypeOK, TypeOK', FinitelyMany, NEW p \in Payment,
         Fresh(p)' \subseteq Fresh(p),
         \A op \in Fresh(p)' : refund'[op].amount = refund[op].amount
  PROVE  Reserved(p) \in Nat /\ Reserved(p)' \in Nat /\ Reserved(p)' <= Reserved(p)
<1> DEFINE old == Fresh(p)
           new == Fresh(p)'
<1>1. /\ old \in SUBSET Operation /\ IsFiniteSet(old)
      /\ new \in SUBSET old /\ IsFiniteSet(new)
  BY LiveIsFinite, FS_Subset
<1>2. Amounts \in [Operation -> Nat] /\ Amounts' \in [Operation -> Nat]
  <2>1. Amounts \in [Operation -> Nat]
    BY RowShape
  <2>2. Amounts' \in [Operation -> Nat]
    BY NextRowShape
  <2> QED BY <2>1, <2>2
<1>3. \A op \in new : Amounts'[op] = Amounts[op]
  BY <1>1 DEF Amounts
<1> HIDE DEF old, new
<1>4. SumOf(Amounts', new) = SumOf(Amounts, new)
  BY <1>1, <1>3, SumAgrees
<1>5. SumOf(Amounts, new) <= SumOf(Amounts, old)
  BY <1>1, <1>2, SumOfSubset
<1>6. SumOf(Amounts, old) \in Nat /\ SumOf(Amounts, new) \in Nat
  BY <1>1, <1>2, SumType
<1> QED BY <1>4, <1>5, <1>6, ReservedIsSum DEF old, new

\* A new refund adds its amount.
LEMMA ReservedGrows ==
  ASSUME TypeOK, TypeOK', FinitelyMany, NEW p \in Payment, NEW op \in Operation,
         ~Exists(op), op \notin failedOnce, Fresh(p)' = Fresh(p) \cup {op},
         \A o \in Fresh(p) : refund'[o].amount = refund[o].amount
  PROVE  Reserved(p)' = Reserved(p) + refund'[op].amount
<1> DEFINE old == Fresh(p)
           new == Fresh(p)'
<1>1. /\ old \in SUBSET Operation /\ IsFiniteSet(old) /\ op \notin old
      /\ new \in SUBSET Operation /\ IsFiniteSet(new) /\ op \in new /\ new \ {op} = old
  <2>1. op \notin old
    BY RowShape DEF Fresh, Live
  <2> QED BY <2>1, LiveIsFinite, FS_AddElement
<1>2. Amounts' \in [Operation -> Nat]
  BY NextRowShape
<1>3. \A o \in old : Amounts'[o] = Amounts[o]
  BY <1>1 DEF Amounts
<1> HIDE DEF old, new
<1>4. SumOf(Amounts', new) = Amounts'[op] + SumOf(Amounts', old)
  BY <1>1, <1>2, SumRemove
<1>5. SumOf(Amounts', old) = SumOf(Amounts, old)
  BY <1>1, <1>3, SumAgrees
<1>6. SumOf(Amounts', old) \in Nat /\ Amounts'[op] \in Nat
  BY <1>1, <1>2, SumType
<1>7. Amounts'[op] = refund'[op].amount
  BY DEF Amounts
<1>8. Reserved(p) = SumOf(Amounts, old) /\ Reserved(p)' = SumOf(Amounts', new)
  BY ReservedIsSum DEF old, new
<1> QED BY <1>4, <1>5, <1>6, <1>7, <1>8

\* A step that keeps the rows, and the FAILED ones among the remembered, reserves nothing.
RowsKept ==
  \A op \in Operation : /\ Exists(op)' = Exists(op)
                        /\ refund'[op].payment = refund[op].payment
                        /\ refund'[op].amount = refund[op].amount

LEMMA NothingReserved ==
  ASSUME IInv, TypeOK', FailedIsRemembered', failedOnce \subseteq failedOnce', RowsKept,
         NEW p \in Payment
  PROVE  Reserved(p) \in Nat /\ Reserved(p)' \in Nat /\ Reserved(p)' <= Reserved(p)
<1>1. Fresh(p)' \subseteq Fresh(p)
  BY DEF Fresh, Live, RowsKept, IInv, FailedIsRemembered
<1>2. \A op \in Fresh(p)' : refund'[op].amount = refund[op].amount
  BY DEF Fresh, Live, RowsKept
<1> QED BY <1>1, <1>2, ReservedShrinks DEF IInv

LEMMA NoneReserved ==
  ASSUME IInv, TypeOK', FailedIsRemembered', failedOnce \subseteq failedOnce', RowsKept
  PROVE  FreshReservationsWithinPayment'
<1> SUFFICES ASSUME NEW p \in Payment PROVE Reserved(p)' <= Price
  BY DEF FreshReservationsWithinPayment, Reserved, Fresh
<1>1. Reserved(p) <= Price
  BY DEF IInv, FreshReservationsWithinPayment, Reserved, Fresh
<1>2. Reserved(p) \in Nat /\ Reserved(p)' \in Nat /\ Reserved(p)' <= Reserved(p)
  BY NothingReserved
<1> QED BY <1>1, <1>2, PriceAssumption

-----------------------------------------------------------------------------
(* Refunds: steps *)

ReqType == [payment : Payment \cup {None}, op : Operation \cup {None},
            amount : Amount \cup {0, Price}, available : 0..Price, loaded : Status]

\* Only request r moves, to the given step with the given local variables.
Moves(r, step, locals) ==
  /\ pc' \in [Request -> Steps] /\ req' \in [Request -> ReqType]
  /\ pc'[r] = step /\ req'[r] = locals
  /\ \A s \in Request \ {r} : pc'[s] = pc[s] /\ req'[s] = req[s]

LEMMA MovesTyped ==
  ASSUME TypeOK, NEW r \in Request, NEW step \in Steps, NEW locals \in ReqType,
         pc' = [pc EXCEPT ![r] = step],
         req' = [req EXCEPT ![r] = locals]
  PROVE  Moves(r, step, locals)
<1>1. pc \in [Request -> Steps] /\ req \in [Request -> ReqType]
  BY DEF TypeOK, ReqType
<1> QED BY <1>1 DEF Moves

\* A request that does not move keeps what is known of it.
LEMMA BystanderKept ==
  ASSUME IInv, NEW s \in Request, pc'[s] = pc[s], req'[s] = req[s],
         \A op \in Operation : Exists(op) =>
           /\ Exists(op)'
           /\ refund'[op].payment = refund[op].payment
           /\ refund'[op].amount = refund[op].amount,
         stripeRefunds \subseteq stripeRefunds',
         \A p \in Payment : paymentLock[p] = s =>
           /\ paymentLock'[p] = s
           /\ Reserved(p) \in Nat /\ Reserved(p)' \in Nat /\ Reserved(p)' <= Reserved(p)
  PROVE  RequestOK(s)'
<1>1. RequestOK(s)
  BY DEF IInv
<1>2. RequestTyped(s)' /\ HoldsRow(s)'
  BY <1>1 DEF RequestOK, RequestTyped, HoldsRow
<1>3. StillAvailable(s)'
  <2> SUFFICES ASSUME pc[s] = "insert"
               PROVE  Reserved(req[s].payment)' + req[s].amount <= Price
    BY DEF StillAvailable
  <2> DEFINE p == req[s].payment
  <2>1. p \in Payment /\ paymentLock[p] = s /\ Reserved(p) + req[s].amount <= Price
    BY <1>1 DEF RequestOK, RequestTyped, HoldsRow, StillAvailable
  <2>2. req[s].amount \in Nat
    BY <1>1, PriceAssumption, AmountAssumption DEF RequestOK, RequestTyped
  <2>3. Reserved(p) \in Nat /\ Reserved(p)' \in Nat /\ Reserved(p)' <= Reserved(p)
    BY <2>1
  <2>4. Reserved(req[s].payment)' = Reserved(p)'
    OBVIOUS
  <2> QED BY <2>1, <2>2, <2>3, <2>4, PriceAssumption
<1>4. RowWritten(s)'
  BY <1>1 DEF RequestOK, RequestTyped, RowWritten, RefundArguments, RefundKey
<1> QED BY <1>2, <1>3, <1>4 DEF RequestOK

\* A step that changes no row and no refund at Stripe keeps what is said of them.
LEMMA RowsQuiet ==
  ASSUME IInv, TypeOK', UNCHANGED <<refund, stripeRefunds, failedOnce>>, processed \subseteq processed'
  PROVE  /\ RefundMatchesRow' /\ StoredIdIsOwn' /\ FailedIsRemembered' /\ SuccessHasId'
         /\ FinitelyMany' /\ FreshReservationsWithinPayment' /\ SuccessConfirmedByStripe'
<1> USE DEF IInv
<1>1. RefundMatchesRow' /\ StoredIdIsOwn' /\ FailedIsRemembered' /\ SuccessHasId'
  BY DEF RefundMatchesRow, StoredIdIsOwn, FailedIsRemembered, SuccessHasId, Exists
<1>2. FinitelyMany'
  BY DEF FinitelyMany, Exists
<1>3. FreshReservationsWithinPayment'
  BY <1>1, NoneReserved DEF RowsKept, Exists
<1>4. SuccessConfirmedByStripe'
  BY DEF SuccessConfirmedByStripe
<1> QED BY <1>1, <1>2, <1>3, <1>4

\* A step of one request that changes no row and no refund at Stripe.
LEMMA RequestStep ==
  ASSUME IInv, NEW r \in Request, NEW step \in Steps, NEW locals \in ReqType,
         pc' = [pc EXCEPT ![r] = step],
         req' = [req EXCEPT ![r] = locals],
         paymentLock' \in [Payment -> Request \cup {None}],
         \A p \in Payment : \A s \in Request \ {r} : paymentLock[p] = s => paymentLock'[p] = s,
         UNCHANGED <<paid, refund, stripeVars, hookVars, failedOnce>>,
         Moves(r, step, locals) => RequestOK(r)'
  PROVE  IInv'
<1> USE DEF IInv
<1>1. UNCHANGED <<paid, refund, stripeRefunds, events, processed, ignored, failedOnce>>
  BY DEF stripeVars, hookVars
<1>2. Moves(r, step, locals)
  BY MovesTyped
<1>3. TypeOK'
  BY <1>1, <1>2 DEF TypeOK, Moves, ReqType
<1>4. ASSUME NEW s \in Request \ {r} PROVE RequestOK(s)'
  <2>1. /\ FailedIsRemembered' /\ RowsKept
    BY <1>1 DEF FailedIsRemembered, RowsKept, Exists
  <2>2. pc'[s] = pc[s] /\ req'[s] = req[s]
    BY <1>2 DEF Moves
  <2>3. \A p \in Payment : paymentLock[p] = s =>
           /\ paymentLock'[p] = s
           /\ Reserved(p) \in Nat /\ Reserved(p)' \in Nat /\ Reserved(p)' <= Reserved(p)
    BY <1>1, <1>3, <2>1, NothingReserved
  <2> QED BY <1>1, <2>1, <2>2, <2>3, BystanderKept DEF RowsKept
<1>5. /\ RefundMatchesRow' /\ StoredIdIsOwn' /\ FailedIsRemembered' /\ SuccessHasId'
      /\ FinitelyMany' /\ FreshReservationsWithinPayment' /\ SuccessConfirmedByStripe'
  BY <1>1, <1>3, RowsQuiet
<1> QED BY <1>2, <1>3, <1>4, <1>5

LEMMA Locals ==
  ASSUME TypeOK
  PROVE  /\ NoReq \in ReqType
         /\ \A r \in Request : req[r] \in ReqType
         /\ \A r \in Request : \A status \in Status : [req[r] EXCEPT !.loaded = status] \in ReqType
         /\ \A op \in Operation : refund[op].status \in Status
<1>1. NoReq \in ReqType
  BY PriceAssumption DEF NoReq, ReqType, Status
<1>2. \A r \in Request : req[r] \in ReqType
  BY DEF TypeOK, ReqType
<1>3. \A r \in Request : \A status \in Status : [req[r] EXCEPT !.loaded = status] \in ReqType
  BY <1>2 DEF ReqType
<1>4. \A op \in Operation : refund[op].status \in Status
  <2>1. \A op \in Operation : refund[op] \in RefundRow \/ refund[op] = NoRefund
    BY DEF TypeOK
  <2> QED BY <2>1 DEF RefundRow, NoRefund, Status
<1> QED BY <1>1, <1>2, <1>3, <1>4

\* A request that is over has nothing to be said about.
LEMMA EndKept ==
  ASSUME IInv, NEW r \in Request, EndRequest(r),
         paymentLock' \in [Payment -> Request \cup {None}],
         \A p \in Payment : \A s \in Request \ {r} : paymentLock[p] = s => paymentLock'[p] = s,
         UNCHANGED <<paid, refund, stripeVars, hookVars, failedOnce>>
  PROVE  IInv'
<1>1. "idle" \in Steps /\ NoReq \in ReqType
  BY Locals DEF Steps, IInv
<1>2. Moves(r, "idle", NoReq) => RequestOK(r)'
  BY DEF Moves, RequestOK, RequestTyped, HoldsRow, StillAvailable, RowWritten
<1> QED BY <1>1, <1>2, RequestStep DEF EndRequest, Goto

LEMMA LockTyped ==
  ASSUME TypeOK, NEW r \in Request, NEW holder \in Request \cup {None}, NEW q,
         \/ paymentLock' = [paymentLock EXCEPT ![q] = holder]
         \/ UNCHANGED paymentLock,
         q \in Payment => paymentLock[q] \in {r, None}
  PROVE  /\ paymentLock' \in [Payment -> Request \cup {None}]
         /\ \A p \in Payment : \A s \in Request \ {r} : paymentLock[p] = s => paymentLock'[p] = s
  BY NoneAssumption DEF TypeOK

LEMMA BeginInv ==
  ASSUME IInv, NEW r \in Request, NEW p \in Payment, NEW op \in Operation,
         NEW amount \in Amount \cup {None}, Begin(r, p, op, amount)
  PROVE  IInv'
<1> DEFINE locals == [NoReq EXCEPT !.payment = p, !.op = op,
                                   !.amount = IF amount = None THEN Price ELSE amount]
<1>1. locals \in ReqType /\ locals.payment = p /\ locals.op = op
      /\ locals.amount \in Amount \cup {Price}
  <2>1. NoReq \in ReqType
    BY Locals DEF IInv
  <2> QED BY <2>1 DEF ReqType, NoReq
<1> HIDE DEF locals
<1>2. Moves(r, "payment", locals) => RequestOK(r)'
  BY <1>1 DEF Moves, RequestOK, RequestTyped, HoldsRow, StillAvailable, RowWritten
<1>3. "payment" \in Steps
  BY DEF Steps
<1>4. paymentLock' \in [Payment -> Request \cup {None}] /\ UNCHANGED paymentLock
  BY DEF Begin, IInv, TypeOK
<1> QED BY <1>1, <1>2, <1>3, <1>4, RequestStep DEF Begin, Goto, locals

LEMMA LockPaymentInv ==
  ASSUME IInv, NEW r \in Request, LockPayment(r)
  PROVE  IInv'
<1> USE DEF IInv
<1>1. req[r].payment \in Payment /\ RequestOK(r)
  BY DEF LockPayment, RequestOK, RequestTyped
<1>2. /\ paymentLock' \in [Payment -> Request \cup {None}]
      /\ \A p \in Payment : \A s \in Request \ {r} : paymentLock[p] = s => paymentLock'[p] = s
      /\ paymentLock'[req[r].payment] = r
  BY <1>1, NoneAssumption DEF LockPayment, PaymentRowFree, TypeOK
<1>3. Moves(r, "reserve", req[r]) => RequestOK(r)'
  BY <1>1, <1>2 DEF LockPayment, Moves, RequestOK, RequestTyped, HoldsRow, StillAvailable,
     RowWritten
<1>4. "reserve" \in Steps /\ req[r] \in ReqType /\ req' = [req EXCEPT ![r] = req[r]]
  BY Locals DEF Steps, LockPayment, TypeOK
<1> QED BY <1>2, <1>3, <1>4, RequestStep DEF LockPayment, Goto

LEMMA RefusePaymentInv ==
  ASSUME IInv, NEW r \in Request, RefusePayment(r)
  PROVE  IInv'
<1>1. paymentLock' \in [Payment -> Request \cup {None}] /\ UNCHANGED paymentLock
  BY DEF RefusePayment, IInv, TypeOK
<1> QED BY <1>1, EndKept DEF RefusePayment

LEMMA AbandonInv ==
  ASSUME IInv, NEW r \in Request, Abandon(r)
  PROVE  IInv'
<1>1. /\ paymentLock' \in [Payment -> Request \cup {None}]
      /\ \A p \in Payment : \A s \in Request \ {r} : paymentLock[p] = s => paymentLock'[p] = s
  BY DEF Abandon, IInv, TypeOK
<1> QED BY <1>1, EndKept DEF Abandon

LEMMA FindRefundInv ==
  ASSUME IInv, NEW r \in Request, FindRefund(r)
  PROVE  IInv'
<1> DEFINE p == req[r].payment
           row == refund[req[r].op]
           locals == [req[r] EXCEPT !.loaded = row.status]
<1> USE DEF IInv
<1>1. RequestOK(r) /\ p \in Payment /\ req[r].op \in Operation /\ paymentLock[p] = r
  BY DEF FindRefund, RequestOK, RequestTyped, HoldsRow
<1>2. /\ paymentLock' \in [Payment -> Request \cup {None}]
      /\ \A q \in Payment : \A s \in Request \ {r} : paymentLock[q] = s => paymentLock'[q] = s
  BY <1>1, LockTyped DEF FindRefund, Unlock
<1>3. UNCHANGED <<paid, refund, stripeVars, hookVars, failedOnce>>
  BY DEF FindRefund
<1>4. CASE row.payment # p \/ row.stripeId # None
  BY <1>2, <1>3, <1>4, EndKept DEF FindRefund
<1>5. CASE ~(row.payment # p \/ row.stripeId # None)
  <2>1. locals \in ReqType /\ "stripe" \in Steps
    BY <1>1, Locals DEF Steps
  <2>2. locals.payment = p /\ locals.op = req[r].op /\ locals.amount = req[r].amount
    BY <1>1, Locals DEF ReqType
  <2>3. pc' = [pc EXCEPT ![r] = "stripe"] /\ req' = [req EXCEPT ![r] = locals] /\ Exists(req[r].op)
    <3>1. req' = [req EXCEPT ![r].loaded = row.status]
      BY <1>5 DEF FindRefund
    <3>2. req' = [req EXCEPT ![r] = locals]
      BY <3>1
    <3> QED BY <1>5, <3>2 DEF FindRefund, Goto
  <2> HIDE DEF locals
  <2>4. Moves(r, "stripe", locals) => RequestOK(r)'
    BY <1>1, <1>3, <1>5, <2>2, <2>3
       DEF Moves, RequestOK, RequestTyped, HoldsRow, StillAvailable, RowWritten, Exists,
           FindRefund
  <2> QED BY <1>2, <1>3, <2>1, <2>3, <2>4, RequestStep
<1> QED BY <1>4, <1>5

LEMMA ReadReservedInv ==
  ASSUME IInv, NEW r \in Request, ReadReserved(r)
  PROVE  IInv'
<1> DEFINE p == req[r].payment
           available == Price - Total(Live(p, Operation))
           locals == [req[r] EXCEPT !.available = available]
<1> USE DEF IInv
<1>1. RequestOK(r) /\ p \in Payment /\ req[r].op \in Operation /\ paymentLock[p] = r
      /\ req[r].amount \in Amount \cup {Price}
  BY DEF ReadReserved, RequestOK, RequestTyped, HoldsRow
<1>2. UNCHANGED <<paid, refund, stripeVars, hookVars, failedOnce>>
  BY DEF ReadReserved
<1>3. CASE req[r].amount > available
  <2>1. /\ paymentLock' \in [Payment -> Request \cup {None}]
        /\ \A q \in Payment : \A s \in Request \ {r} : paymentLock[q] = s => paymentLock'[q] = s
    BY <1>1, <1>3, LockTyped DEF ReadReserved, Unlock
  <2> QED BY <1>2, <1>3, <2>1, EndKept DEF ReadReserved
<1>4. CASE ~(req[r].amount > available)
  <2>1. /\ Total(Live(p, Operation)) \in Nat
        /\ Reserved(p) \in Nat
        /\ Reserved(p) <= Total(Live(p, Operation))
    <3>1. Amounts \in [Operation -> Nat]
      BY RowShape
    <3>2. /\ Fresh(p) \in SUBSET Live(p, Operation) /\ Fresh(p) \in SUBSET Operation
          /\ Live(p, Operation) \in SUBSET Operation
          /\ IsFiniteSet(Live(p, Operation)) /\ IsFiniteSet(Fresh(p))
      BY <1>1, LiveIsFinite
    <3>3. SumOf(Amounts, Fresh(p)) <= SumOf(Amounts, Live(p, Operation))
      BY <3>1, <3>2, SumOfSubset
    <3>4. SumOf(Amounts, Fresh(p)) \in Nat /\ SumOf(Amounts, Live(p, Operation)) \in Nat
      BY <3>1, <3>2, SumType
    <3>5. Reserved(p) = SumOf(Amounts, Fresh(p))
          /\ Total(Live(p, Operation)) = SumOf(Amounts, Live(p, Operation))
      BY <1>1, ReservedIsSum
    <3> QED BY <3>3, <3>4, <3>5
  <2>2. req[r].amount \in Nat \ {0} /\ Price \in Nat
    BY <1>1, PriceAssumption, AmountAssumption
  <2>3. available \in 0..Price /\ Reserved(p) + req[r].amount <= Price
    <3> DEFINE total == Total(Live(p, Operation))
    <3>1. total \in Nat /\ Reserved(p) <= total /\ ~(req[r].amount > Price - total)
      BY <1>4, <2>1
    <3> HIDE DEF total
    <3>2. Price - total \in 0..Price /\ Reserved(p) + req[r].amount <= Price
      BY <2>1, <2>2, <3>1
    <3> QED BY <3>2 DEF total
  <2> HIDE DEF available
  <2>4. locals \in ReqType /\ "insert" \in Steps /\ locals.payment = p /\ locals.op = req[r].op
        /\ locals.amount = req[r].amount
    <3>1. req[r] \in ReqType
      BY Locals
    <3> QED BY <2>3, <3>1 DEF Steps, ReqType
  <2>5. pc' = [pc EXCEPT ![r] = "insert"] /\ req' = [req EXCEPT ![r] = locals]
        /\ UNCHANGED paymentLock
    <3>1. req' = [req EXCEPT ![r].available = available]
      BY <1>4 DEF ReadReserved, available
    <3> QED BY <1>4, <3>1 DEF ReadReserved, Goto, available
  <2>6. paymentLock' \in [Payment -> Request \cup {None}]
    BY <2>5 DEF TypeOK
  <2> HIDE DEF locals
  <2>7. Moves(r, "insert", locals) => RequestOK(r)'
    <3>1. ASSUME NEW q \in Payment PROVE Reserved(q)' = Reserved(q)
      <4>1. Amounts' = Amounts /\ Fresh(q)' = Fresh(q)
        BY <1>2 DEF Amounts, Fresh, Live
      <4> QED BY <4>1, ReservedIsSum
    <3> SUFFICES ASSUME Moves(r, "insert", locals) PROVE RequestOK(r)'
      OBVIOUS
    <3>2. pc'[r] = "insert" /\ req'[r] = locals
      BY DEF Moves
    <3>3. RequestTyped(r)' /\ HoldsRow(r)' /\ RowWritten(r)'
      BY <1>1, <2>4, <2>5, <3>2 DEF RequestTyped, HoldsRow, RowWritten
    <3>4. StillAvailable(r)'
      <4>1. req'[r].payment = req[r].payment /\ req'[r].amount = req[r].amount
        BY <2>4, <3>2
      <4>2. Reserved(req[r].payment)' = Reserved(req[r].payment)
        BY <1>1, <3>1, <4>1
      <4> QED BY <2>3, <4>1, <4>2 DEF StillAvailable
    <3> QED BY <3>3, <3>4 DEF RequestOK
  <2> QED BY <1>2, <2>4, <2>5, <2>6, <2>7, RequestStep
<1> QED BY <1>3, <1>4

\* What an action has to be shown for, when it changes rows or Stripe's refunds.
RowsInv ==
  /\ RefundMatchesRow /\ StoredIdIsOwn /\ FailedIsRemembered /\ SuccessHasId
  /\ FinitelyMany /\ FreshReservationsWithinPayment /\ SuccessConfirmedByStripe

\* A request between transactions 1 and 2: its row, and what it asks Stripe for.
LEMMA AfterInsert ==
  ASSUME IInv, NEW r \in Request, pc[r] \in {"stripe", "finalize", "markfailed"}
  PROVE  /\ req[r].op \in Operation /\ req[r].payment \in Payment
         /\ Exists(req[r].op)
         /\ refund[req[r].op] \in RefundRow
         /\ refund[req[r].op].payment = req[r].payment
         /\ RefundArguments(r) \in StripeRefund
         /\ RefundArguments(r).key = req[r].op /\ RefundArguments(r).op = req[r].op
         /\ RefundArguments(r).payment = req[r].payment
         /\ RefundArguments(r).amount = refund[req[r].op].amount
<1>1. RequestOK(r)
  BY DEF IInv
<1>2. req[r].op \in Operation /\ req[r].payment \in Payment
  BY <1>1 DEF RequestOK, RequestTyped
<1>3. Exists(req[r].op) /\ refund[req[r].op].payment = req[r].payment
  BY <1>1 DEF RequestOK, RowWritten
<1>4. refund[req[r].op] \in RefundRow
  BY <1>2, <1>3 DEF IInv, TypeOK, Exists
<1> QED
  BY <1>2, <1>3, <1>4 DEF RefundArguments, RefundKey, StripeRefund, RefundRow

\* All a refund's request can send to Stripe is the refund of its row.
LEMMA AskStripeInv ==
  ASSUME IInv, NEW r \in Request, NEW step \in {"finalize", "markfailed"}, pc[r] = "stripe",
         pc' = [pc EXCEPT ![r] = step],
         UNCHANGED <<paid, paymentLock, refund, req, events, hookVars, failedOnce>>,
         \/ UNCHANGED stripeRefunds
         \/ stripeRefunds' = stripeRefunds \cup {RefundArguments(r)},
         step = "finalize" => RefundArguments(r) \in stripeRefunds'
  PROVE  IInv'
<1> USE DEF IInv
<1> DEFINE f == RefundArguments(r)
<1>1. UNCHANGED <<paid, paymentLock, refund, events, processed, ignored, failedOnce>>
  BY DEF hookVars
<1>2. /\ req[r].op \in Operation /\ req[r].payment \in Payment /\ Exists(req[r].op)
      /\ refund[req[r].op].payment = req[r].payment
      /\ f \in StripeRefund /\ f.key = req[r].op /\ f.op = req[r].op
      /\ f.payment = req[r].payment /\ f.amount = refund[req[r].op].amount
  BY AfterInsert
<1>3. stripeRefunds \subseteq stripeRefunds' /\ stripeRefunds' \subseteq stripeRefunds \cup {f}
  OBVIOUS
<1> HIDE DEF f
<1>4. Moves(r, step, req[r])
  <2>1. step \in Steps /\ req[r] \in ReqType /\ req' = [req EXCEPT ![r] = req[r]]
    BY Locals DEF Steps, TypeOK
  <2> QED BY <2>1, MovesTyped
<1>5. TypeOK'
  BY <1>1, <1>2, <1>3, <1>4 DEF TypeOK, Moves, ReqType
<1>6. FailedIsRemembered' /\ RowsKept
  BY <1>1 DEF FailedIsRemembered, RowsKept, Exists
<1>7. ASSUME NEW s \in Request \ {r} PROVE RequestOK(s)'
  <2>1. pc'[s] = pc[s] /\ req'[s] = req[s]
    BY <1>4 DEF Moves
  <2>2. \A p \in Payment : paymentLock[p] = s =>
           /\ paymentLock'[p] = s
           /\ Reserved(p) \in Nat /\ Reserved(p)' \in Nat /\ Reserved(p)' <= Reserved(p)
    BY <1>1, <1>5, <1>6, NothingReserved
  <2> QED BY <1>3, <1>6, <2>1, <2>2, BystanderKept DEF RowsKept
<1>8. RequestOK(r)'
  <2>1. RequestTyped(r) /\ pc'[r] = step /\ req'[r] = req[r]
    BY <1>4 DEF RequestOK, Moves
  <2>2. RefundArguments(r)' = RefundArguments(r)
    BY <1>1, <2>1 DEF RefundArguments, RefundKey
  <2> QED BY <1>1, <1>2, <2>1, <2>2 DEF RequestOK, RequestTyped, HoldsRow, StillAvailable,
             RowWritten, Exists
<1>9. RowsInv'
  <2>1. RefundMatchesRow'
    BY <1>1, <1>2, <1>3 DEF RefundMatchesRow, Exists
  <2>2. StoredIdIsOwn' /\ SuccessHasId' /\ SuccessConfirmedByStripe'
    BY <1>1, <1>3 DEF StoredIdIsOwn, SuccessHasId, SuccessConfirmedByStripe
  <2>3. FinitelyMany'
    BY <1>1 DEF FinitelyMany, Exists
  <2> QED BY <1>1, <1>5, <1>6, <2>1, <2>2, <2>3, NoneReserved DEF RowsInv
<1> QED BY <1>5, <1>7, <1>8, <1>9 DEF RowsInv

LEMMA CreateStripeRefundInv ==
  ASSUME IInv, NEW r \in Request, CreateStripeRefund(r)
  PROVE  IInv'
<1>1. RefundArguments(r) \in stripeRefunds'
  BY DEF CreateStripeRefund
<1> QED BY <1>1, AskStripeInv DEF CreateStripeRefund, Goto

LEMMA StripeErrorInv ==
  ASSUME IInv, NEW r \in Request, StripeError(r)
  PROVE  IInv'
  BY AskStripeInv DEF StripeError, Goto

\* A step that writes no payment and no amount to a row, and ends at most some requests.
LEMMA RowsStep ==
  ASSUME IInv, TypeOK', FailedIsRemembered', failedOnce \subseteq failedOnce', RowsKept,
         StoredIdIsOwn', SuccessHasId', SuccessConfirmedByStripe',
         UNCHANGED <<stripeRefunds, paymentLock>>,
         \A s \in Request : pc'[s] = "idle" \/ (pc'[s] = pc[s] /\ req'[s] = req[s])
  PROVE  IInv'
<1> USE DEF IInv
<1>1. ASSUME NEW s \in Request PROVE RequestOK(s)'
  <2>1. CASE pc'[s] = "idle"
    BY <2>1 DEF RequestOK, RequestTyped, HoldsRow, StillAvailable, RowWritten
  <2>2. CASE pc'[s] = pc[s] /\ req'[s] = req[s]
    BY <2>2, BystanderKept, NothingReserved DEF RowsKept
  <2> QED BY <2>1, <2>2
<1>2. RefundMatchesRow'
  <2>1. \A f \in stripeRefunds : f.op \in Operation
    BY DEF TypeOK, StripeRefund
  <2> QED BY <2>1 DEF RefundMatchesRow, RowsKept
<1>3. FinitelyMany'
  BY DEF FinitelyMany, RowsKept
<1> QED BY <1>1, <1>2, <1>3, NoneReserved

LEMMA KeptRows ==
  ASSUME TypeOK, refund' \in [Operation -> RefundRow \cup {NoRefund}],
         \A op \in Operation : /\ refund'[op].payment = refund[op].payment
                               /\ refund'[op].amount = refund[op].amount
  PROVE  RowsKept
<1>1. \A op \in Operation : /\ refund[op] \in RefundRow \cup {NoRefund}
                            /\ refund'[op] \in RefundRow \cup {NoRefund}
  BY DEF TypeOK
<1>2. \A row \in RefundRow : row.payment \in Payment
  BY DEF RefundRow
<1>3. \A op \in Operation : Exists(op)' = Exists(op)
  BY <1>1, <1>2, RowValues DEF Exists
<1> QED BY <1>3 DEF RowsKept

\* The id a row stores is the one refund its operation has at Stripe.
LEMMA OneRefund ==
  ASSUME TypeOK, RefundMatchesRow
  PROVE  \A f, g \in stripeRefunds : f.op = g.op => f = g
<1> SUFFICES ASSUME NEW f \in stripeRefunds, NEW g \in stripeRefunds, f.op = g.op
             PROVE  f = g
  OBVIOUS
<1>1. f \in StripeRefund /\ g \in StripeRefund
  BY DEF TypeOK
<1>2. f.key = g.key /\ f.op = g.op /\ f.payment = g.payment /\ f.amount = g.amount
  BY DEF RefundMatchesRow
<1> QED BY <1>1, <1>2 DEF StripeRefund

LEMMA EndMoves ==
  ASSUME IInv, NEW r \in Request, EndRequest(r)
  PROVE  /\ Moves(r, "idle", NoReq)
         /\ \A s \in Request : pc'[s] = "idle" \/ (pc'[s] = pc[s] /\ req'[s] = req[s])
<1>1. "idle" \in Steps /\ NoReq \in ReqType
  BY Locals DEF Steps, IInv
<1>2. Moves(r, "idle", NoReq)
  BY <1>1, MovesTyped DEF EndRequest, Goto, IInv
<1> QED BY <1>2 DEF Moves

LEMMA MarkRefundFailedInv ==
  ASSUME IInv, NEW r \in Request, MarkRefundFailed(r)
  PROVE  IInv'
<1> DEFINE op == req[r].op
           status == Flushed(refund[op].status, req[r].loaded, "failed")
           row == [refund[op] EXCEPT !.status = status]
<1> USE DEF IInv
<1>1. op \in Operation /\ refund[op] \in RefundRow
  BY AfterInsert DEF MarkRefundFailed
<1>2. status \in {refund[op].status, "failed"} /\ status \in Status
  BY <1>1 DEF Flushed, RefundRow, Status
<1> HIDE DEF status
<1>3. /\ refund' = [refund EXCEPT ![op] = row]
      /\ failedOnce' = IF refund'[op].status = "failed" THEN failedOnce \cup {op} ELSE failedOnce
      /\ EndRequest(r)
      /\ UNCHANGED <<paid, paymentLock, stripeRefunds, events, processed, ignored>>
  <2>1. refund' = [refund EXCEPT ![op].status = Flushed(@, req[r].loaded, "failed")]
    BY DEF MarkRefundFailed
  <2>2. refund' = [refund EXCEPT ![op] = row]
    BY <1>1, <2>1 DEF status
  <2> QED BY <2>2 DEF MarkRefundFailed, stripeVars, hookVars
<1>4. /\ row \in RefundRow /\ row.status = status /\ row.stripeId = refund[op].stripeId
      /\ row.payment = refund[op].payment /\ row.amount = refund[op].amount
  BY <1>1, <1>2 DEF RefundRow
<1> HIDE DEF row
<1>5. /\ refund' \in [Operation -> RefundRow \cup {NoRefund}]
      /\ refund'[op] = row
      /\ \A o \in Operation \ {op} : refund'[o] = refund[o]
  BY <1>1, <1>3, <1>4 DEF TypeOK
<1>6. RowsKept
  BY <1>4, <1>5, KeptRows
<1>7. TypeOK'
  BY <1>1, <1>3, <1>5, EndMoves DEF TypeOK, Moves, ReqType
<1>8. FailedIsRemembered' /\ failedOnce \subseteq failedOnce'
  BY <1>1, <1>3, <1>4, <1>5 DEF FailedIsRemembered
<1>9. StoredIdIsOwn' /\ SuccessHasId' /\ SuccessConfirmedByStripe'
  <2>1. \A o \in Operation : /\ refund'[o].stripeId = refund[o].stripeId
                             /\ refund'[o].status = "succeeded" => refund[o].status = "succeeded"
    BY <1>1, <1>2, <1>4, <1>5
  <2> QED BY <1>3, <2>1 DEF StoredIdIsOwn, SuccessHasId, SuccessConfirmedByStripe
<1> QED BY <1>3, <1>6, <1>7, <1>8, <1>9, EndMoves, RowsStep

LEMMA FinalizeRefundPendingInv ==
  ASSUME IInv, NEW r \in Request, FinalizeRefundPending(r)
  PROVE  IInv'
<1> DEFINE op == req[r].op
           f == RefundArguments(r)
           status == Flushed(refund[op].status, req[r].loaded, "pending")
           row == [refund[op] EXCEPT !.stripeId = f, !.status = status]
<1> USE DEF IInv
<1>1. op \in Operation /\ refund[op] \in RefundRow /\ f \in StripeRefund /\ f.op = op
  BY AfterInsert DEF FinalizeRefundPending
<1>2. status \in {refund[op].status, "pending"} /\ status \in Status
  BY <1>1 DEF Flushed, RefundRow, Status
<1> HIDE DEF status, f
<1>3. /\ refund' = [refund EXCEPT ![op] = row]
      /\ EndRequest(r)
      /\ UNCHANGED <<paid, paymentLock, stripeRefunds, events, processed, ignored, failedOnce>>
  <2>1. refund' = [refund EXCEPT ![op].stripeId = f,
                                 ![op].status = Flushed(@, req[r].loaded, "pending")]
    BY DEF FinalizeRefundPending, f
  <2>2. refund' = [refund EXCEPT ![op] = row]
    BY <1>1, <2>1 DEF status, RefundRow, TypeOK
  <2> QED BY <2>2 DEF FinalizeRefundPending, stripeVars, hookVars
<1>4. /\ row \in RefundRow /\ row.status = status /\ row.stripeId = f
      /\ row.payment = refund[op].payment /\ row.amount = refund[op].amount
  BY <1>1, <1>2 DEF RefundRow
<1> HIDE DEF row
<1>5. /\ refund' \in [Operation -> RefundRow \cup {NoRefund}]
      /\ refund'[op] = row
      /\ \A o \in Operation \ {op} : refund'[o] = refund[o]
  BY <1>1, <1>3, <1>4 DEF TypeOK
<1>6. RowsKept
  BY <1>4, <1>5, KeptRows
<1>7. TypeOK'
  BY <1>1, <1>3, <1>5, EndMoves DEF TypeOK, Moves, ReqType
<1>8. FailedIsRemembered'
  BY <1>1, <1>2, <1>3, <1>4, <1>5 DEF FailedIsRemembered
<1>9. f \in stripeRefunds /\ f # None
  BY <1>1, NoneAssumption DEF FinalizeRefundPending, RequestOK, RowWritten, f
<1>10. StoredIdIsOwn' /\ SuccessHasId'
  BY <1>1, <1>3, <1>4, <1>5, <1>9 DEF StoredIdIsOwn, SuccessHasId
<1>11. \A o \in Operation : refund'[o].status = "succeeded" =>
         refund[o].status = "succeeded" /\ refund'[o].stripeId = refund[o].stripeId
  <2>1. CASE refund[op].status = "succeeded"
    <3>1. refund[op].stripeId \in stripeRefunds /\ refund[op].stripeId.op = op
      BY <1>1, <2>1 DEF SuccessHasId, StoredIdIsOwn
    <3>2. refund[op].stripeId = f
      BY <1>1, <1>9, <3>1, OneRefund
    <3> QED BY <1>4, <1>5, <2>1, <3>2
  <2>2. CASE refund[op].status # "succeeded"
    BY <1>2, <1>4, <1>5, <2>2
  <2> QED BY <2>1, <2>2
<1>12. SuccessConfirmedByStripe'
  BY <1>3, <1>11 DEF SuccessConfirmedByStripe
<1> QED BY <1>3, <1>6, <1>7, <1>8, <1>10, <1>12, EndMoves, RowsStep

LEMMA RefundWebhookInv ==
  ASSUME IInv, NEW e \in events, RefundWebhook(e)
  PROVE  IInv'
<1> DEFINE matches == {op \in Operation :
                         e.refund # None /\ e.type # "pending" /\ refund[op].stripeId = e.refund}
           After(op) == [refund[op] EXCEPT !.status = RefundStatusAfter(e.type, refund[op].status)]
<1> USE DEF IInv
<1>1. UNCHANGED <<paid, paymentLock, pc, req, stripeRefunds, events>> /\ e \in Event
  BY DEF RefundWebhook, stripeVars, TypeOK
<1>2. CASE matches = {}
  <2>1. UNCHANGED <<refund, processed, failedOnce>> /\ ignored' = ignored \cup {e}
    BY <1>2 DEF RefundWebhook
  <2>2. TypeOK'
    BY <1>1, <2>1 DEF TypeOK
  <2>3. /\ FailedIsRemembered' /\ RowsKept
    BY <2>1 DEF FailedIsRemembered, RowsKept, Exists
  <2>4. StoredIdIsOwn' /\ SuccessHasId' /\ SuccessConfirmedByStripe'
    BY <1>1, <2>1, <2>2, RowsQuiet
  <2> QED BY <1>1, <2>1, <2>2, <2>3, <2>4, RowsStep
<1>3. CASE matches # {}
  <2>1. /\ refund' = [op \in Operation |-> IF op \in matches THEN After(op) ELSE refund[op]]
        /\ processed' = processed \cup {e}
        /\ failedOnce' = failedOnce \cup {op \in matches : refund'[op].status = "failed"}
        /\ UNCHANGED ignored
    BY <1>3 DEF RefundWebhook
  <2>2. \A op \in matches :
          /\ op \in Operation /\ refund[op].stripeId = e.refund
          /\ e.refund # None /\ e.type # "pending"
    OBVIOUS
  <2>3. \A op \in matches : refund[op] \in RefundRow
    BY <2>2 DEF TypeOK, NoRefund
  <2>4. \A op \in matches :
          /\ After(op) \in RefundRow
          /\ After(op).stripeId = refund[op].stripeId
          /\ After(op).payment = refund[op].payment
          /\ After(op).amount = refund[op].amount
          /\ After(op).status = RefundStatusAfter(e.type, refund[op].status)
    BY <2>3 DEF RefundRow, RefundStatusAfter, Status
  <2>5. \A op \in Operation : refund'[op] = IF op \in matches THEN After(op) ELSE refund[op]
    BY <2>1
  <2> HIDE DEF matches, After
  <2>6. refund' \in [Operation -> RefundRow \cup {NoRefund}]
    <3>1. \A op \in Operation : refund[op] \in RefundRow \cup {NoRefund}
      BY DEF TypeOK
    <3> QED BY <2>1, <2>4, <3>1
  <2>7. TypeOK'
    BY <1>1, <2>1, <2>2, <2>6 DEF TypeOK
  <2>8. RowsKept
    BY <2>4, <2>5, <2>6, KeptRows
  <2>9. FailedIsRemembered' /\ failedOnce \subseteq failedOnce'
    BY <2>1, <2>5 DEF FailedIsRemembered
  <2>10. \A op \in Operation : refund'[op].stripeId = refund[op].stripeId
    BY <2>4, <2>5
  <2>11. StoredIdIsOwn' /\ SuccessHasId'
    BY <1>1, <2>2, <2>5, <2>10 DEF StoredIdIsOwn, SuccessHasId
  <2>12. SuccessConfirmedByStripe'
    <3> SUFFICES ASSUME NEW op \in Operation, refund'[op].status = "succeeded"
                 PROVE \E d \in processed' : /\ d.refund = refund[op].stripeId
                                             /\ d.type \in {"succeeded", "charge.refunded"}
      BY <2>10 DEF SuccessConfirmedByStripe
    <3>1. CASE refund[op].status = "succeeded"
      BY <2>1, <3>1 DEF SuccessConfirmedByStripe
    <3>2. CASE refund[op].status # "succeeded"
      <4>1. op \in matches /\ RefundStatusAfter(e.type, refund[op].status) = "succeeded"
        BY <2>4, <2>5, <3>2
      <4>2. e.type \in {"succeeded", "charge.refunded"}
        BY <1>1, <2>2, <3>2, <4>1, ReportAssumption DEF RefundStatusAfter, Event
      <4> QED BY <2>1, <2>2, <4>1, <4>2
    <3> QED BY <3>1, <3>2
  <2> QED BY <1>1, <2>7, <2>8, <2>9, <2>11, <2>12, RowsStep
<1> QED BY <1>2, <1>3

LEMMA InsertRefundInv ==
  ASSUME IInv, NEW r \in Request, InsertRefund(r)
  PROVE  IInv'
<1> USE DEF IInv
<1>1. PICK p \in Payment, op \in Operation, amount \in Amount \cup {Price} :
        /\ req[r].payment = p /\ req[r].op = op /\ req[r].amount = amount
        /\ paymentLock[p] = r /\ Reserved(p) + amount <= Price
  BY DEF InsertRefund, RequestOK, RequestTyped, HoldsRow, StillAvailable
<1> DEFINE row == [payment |-> p, amount |-> amount, stripeId |-> None, status |-> "new"]
           locals == [req[r] EXCEPT !.loaded = "new"]
<1>2. /\ ~Exists(op)
      /\ refund' = [refund EXCEPT ![op] = row]
      /\ paymentLock' = [paymentLock EXCEPT ![p] = None]
      /\ UNCHANGED <<paid, stripeRefunds, events, processed, ignored, failedOnce>>
  BY <1>1 DEF InsertRefund, Unlock, stripeVars, hookVars
<1>3. row \in RefundRow /\ row # NoRefund
  BY <1>1, NoneAssumption DEF RefundRow, NoRefund, Status
<1>4. Moves(r, "stripe", locals)
  <2>1. locals \in ReqType /\ "stripe" \in Steps
    BY Locals DEF Steps, Status
  <2>2. pc' = [pc EXCEPT ![r] = "stripe"] /\ req' = [req EXCEPT ![r].loaded = "new"]
    BY DEF InsertRefund, Goto
  <2>3. req' = [req EXCEPT ![r] = locals]
    BY <2>2
  <2> QED BY <2>1, <2>2, <2>3, MovesTyped
<1>5. locals.payment = p /\ locals.op = op /\ locals.amount = amount
  BY <1>1, Locals DEF ReqType
<1>6. row.payment = p /\ row.amount = amount /\ row.stripeId = None /\ row.status = "new"
  OBVIOUS
<1> HIDE DEF row, locals
<1>7. /\ refund'[op] = row
      /\ \A o \in Operation \ {op} : refund'[o] = refund[o]
      /\ refund[op] = NoRefund
      /\ refund' \in [Operation -> RefundRow \cup {NoRefund}]
  BY <1>2, <1>3 DEF TypeOK, Exists
<1>8. /\ paymentLock' \in [Payment -> Request \cup {None}]
      /\ \A q \in Payment : \A s \in Request \ {r} : paymentLock[q] = s => paymentLock'[q] = s
  BY <1>1, <1>2, LockTyped
<1>9. TypeOK'
  BY <1>2, <1>4, <1>7, <1>8 DEF TypeOK, Moves, ReqType
<1>10. /\ Exists(op)'
       /\ \A o \in Operation : Exists(o) => /\ o # op /\ Exists(o)'
                                            /\ refund'[o].payment = refund[o].payment
                                            /\ refund'[o].amount = refund[o].amount
  BY <1>2, <1>3, <1>7 DEF Exists
<1>11. NoRefund.payment \notin Payment
  BY NoneAssumption DEF NoRefund
<1>12. \A q \in Payment \ {p} : Reserved(q) \in Nat /\ Reserved(q)' \in Nat
                                /\ Reserved(q)' <= Reserved(q)
  <2> SUFFICES ASSUME NEW q \in Payment \ {p}
               PROVE Reserved(q) \in Nat /\ Reserved(q)' \in Nat /\ Reserved(q)' <= Reserved(q)
    OBVIOUS
  <2>1. Fresh(q)' \subseteq Fresh(q) /\ op \notin Fresh(q)'
    BY <1>2, <1>6, <1>7 DEF Fresh, Live
  <2>2. \A o \in Fresh(q)' : refund'[o].amount = refund[o].amount
    BY <1>7, <2>1 DEF Fresh, Live
  <2> QED BY <1>9, <2>1, <2>2, ReservedShrinks
<1>13. Reserved(p)' <= Price
  <2>1. Reserved(p) \in Nat /\ amount \in Nat
    <3>1. Reserved(p) = SumOf(Amounts, Fresh(p)) /\ Amounts \in [Operation -> Nat]
      BY ReservedIsSum, RowShape
    <3>2. Fresh(p) \in SUBSET Operation /\ IsFiniteSet(Fresh(p))
      BY LiveIsFinite
    <3> QED BY <3>1, <3>2, SumType, PriceAssumption, AmountAssumption
  <2>2. CASE op \notin failedOnce
    <3>1. Fresh(p)' = Fresh(p) \cup {op}
      BY <1>2, <1>6, <1>7, <1>11, <2>2 DEF Fresh, Live
    <3>2. \A o \in Fresh(p) : refund'[o].amount = refund[o].amount
      BY <1>7, <1>11 DEF Fresh, Live
    <3>3. Reserved(p)' = Reserved(p) + refund'[op].amount
      BY <1>2, <1>9, <2>2, <3>1, <3>2, ReservedGrows
    <3> QED BY <1>1, <1>6, <1>7, <3>3
  <2>3. CASE op \in failedOnce
    <3>1. Fresh(p)' \subseteq Fresh(p) /\ op \notin Fresh(p)'
      BY <1>2, <1>7, <2>3 DEF Fresh, Live
    <3>2. \A o \in Fresh(p)' : refund'[o].amount = refund[o].amount
      BY <1>7, <3>1 DEF Fresh, Live
    <3>3. Reserved(p)' \in Nat /\ Reserved(p)' <= Reserved(p)
      BY <1>9, <3>1, <3>2, ReservedShrinks
    <3> QED BY <1>1, <2>1, <3>3, PriceAssumption
  <2> QED BY <2>2, <2>3
<1>14. ASSUME NEW s \in Request \ {r} PROVE RequestOK(s)'
  <2>1. pc'[s] = pc[s] /\ req'[s] = req[s]
    BY <1>4 DEF Moves
  <2>2. \A q \in Payment : paymentLock[q] = s =>
           /\ paymentLock'[q] = s
           /\ Reserved(q) \in Nat /\ Reserved(q)' \in Nat /\ Reserved(q)' <= Reserved(q)
    BY <1>1, <1>8, <1>12
  <2> QED BY <1>2, <1>10, <2>1, <2>2, BystanderKept
<1>15. RequestOK(r)'
  <2>1. pc'[r] = "stripe" /\ req'[r].payment = p /\ req'[r].op = op /\ req'[r].amount = amount
    BY <1>4, <1>5 DEF Moves
  <2>2. refund'[op].payment = p /\ Exists(op)'
    BY <1>6, <1>7, <1>10
  <2> QED BY <1>1, <2>1, <2>2 DEF RequestOK, RequestTyped, HoldsRow, StillAvailable, RowWritten,
             Exists
<1>16. FreshReservationsWithinPayment'
  <2> SUFFICES ASSUME NEW q \in Payment PROVE Reserved(q)' <= Price
    BY DEF FreshReservationsWithinPayment, Reserved, Fresh
  <2>1. Reserved(q) <= Price
    BY DEF FreshReservationsWithinPayment, Reserved, Fresh
  <2>2. CASE q # p
    BY <1>12, <2>1, <2>2, PriceAssumption
  <2> QED BY <1>13, <2>2
<1>17. FinitelyMany'
  <2>1. {o \in Operation : Exists(o)'} \subseteq {o \in Operation : Exists(o)} \cup {op}
    BY <1>7 DEF Exists
  <2>2. IsFiniteSet({o \in Operation : Exists(o)} \cup {op})
    BY FS_AddElement DEF FinitelyMany
  <2>3. IsFiniteSet({o \in Operation : Exists(o)'})
    BY <2>1, <2>2, FS_Subset
  <2> QED BY <2>3 DEF FinitelyMany
<1>18. RefundMatchesRow'
  <2>1. \A f \in stripeRefunds : f.op \in Operation
    BY DEF TypeOK, StripeRefund
  <2> QED BY <1>2, <1>10, <2>1 DEF RefundMatchesRow
<1>19. StoredIdIsOwn' /\ FailedIsRemembered' /\ SuccessHasId' /\ SuccessConfirmedByStripe'
  BY <1>2, <1>6, <1>7
     DEF StoredIdIsOwn, FailedIsRemembered, SuccessHasId, SuccessConfirmedByStripe
<1> QED BY <1>9, <1>14, <1>15, <1>16, <1>17, <1>18, <1>19

LEMMA OutsideInv ==
  ASSUME IInv,
         \/ \E p \in Payment : PaymentSucceeds(p)
         \/ \E f \in stripeRefunds : RefundSettles(f) \/ ChargeRefunded(f)
  PROVE  IInv'
<1>1. UNCHANGED <<paymentLock, refund, pc, req, stripeRefunds, processed, ignored, failedOnce>>
  BY DEF PaymentSucceeds, RefundSettles, ChargeRefunded, Emit, stripeVars, hookVars
<1>2. paid' \subseteq Payment /\ events' \subseteq Event
  <2>1. CASE \E p \in Payment : PaymentSucceeds(p)
    BY <2>1 DEF PaymentSucceeds, stripeVars, IInv, TypeOK
  <2>2. ASSUME NEW f \in stripeRefunds, RefundSettles(f) \/ ChargeRefunded(f)
        PROVE  paid' \subseteq Payment /\ events' \subseteq Event
    <3>1. PICK e : Emit(e) /\ \E type \in Report : e \in {About(f, type), About(None, type)}
      BY <2>2 DEF RefundSettles, ChargeRefunded
    <3>2. f \in StripeRefund
      BY DEF IInv, TypeOK
    <3>3. e \in Event
      BY <3>1, <3>2 DEF About, Event
    <3> QED BY <3>1, <3>3 DEF Emit, IInv, TypeOK
  <2> QED BY <2>1, <2>2
<1>3. TypeOK'
  BY <1>1, <1>2 DEF IInv, TypeOK
<1>4. RowsKept
  BY <1>1 DEF RowsKept, Exists
<1>5. /\ FailedIsRemembered' /\ StoredIdIsOwn' /\ SuccessHasId' /\ SuccessConfirmedByStripe'
  BY <1>1, <1>3, RowsQuiet
<1> QED BY <1>1, <1>3, <1>4, <1>5, RowsStep

-----------------------------------------------------------------------------
(* Refunds: theorems *)

LEMMA InitInv == Init => IInv
<1> SUFFICES ASSUME Init PROVE IInv
  OBVIOUS
<1>1. NoReq \in ReqType
  BY PriceAssumption DEF NoReq, ReqType, Status
<1>2. req \in [Request -> ReqType]
  BY <1>1 DEF Init
<1>3. TypeOK
  BY <1>2 DEF Init, TypeOK, ReqType, Steps
<1>4. \A r \in Request : RequestOK(r)
  BY DEF Init, RequestOK, RequestTyped, HoldsRow, StillAvailable, RowWritten
<1>5. \A op \in Operation : ~Exists(op) /\ refund[op].status = "new" /\ refund[op].stripeId = None
                            /\ refund[op].payment = None
  BY DEF Init, Exists, NoRefund
<1>6. RefundMatchesRow /\ StoredIdIsOwn /\ FailedIsRemembered /\ SuccessHasId
      /\ SuccessConfirmedByStripe
  BY <1>5 DEF Init, RefundMatchesRow, StoredIdIsOwn, FailedIsRemembered, SuccessHasId,
     SuccessConfirmedByStripe
<1>7. FinitelyMany
  <2>1. {op \in Operation : Exists(op)} = {}
    BY <1>5
  <2> QED BY <2>1, FS_EmptySet DEF FinitelyMany
<1>8. FreshReservationsWithinPayment
  <2> SUFFICES ASSUME NEW p \in Payment PROVE Reserved(p) <= Price
    BY DEF FreshReservationsWithinPayment, Reserved, Fresh
  <2>1. Fresh(p) = {}
    BY <1>5, NoneAssumption DEF Fresh, Live
  <2>2. Reserved(p) = 0
    BY <2>1, ReservedIsSum, SumUnfold, FS_EmptySet
  <2> QED BY <2>2, PriceAssumption
<1> QED BY <1>3, <1>4, <1>6, <1>7, <1>8 DEF IInv

LEMMA NextInv == IInv /\ [Next]_vars => IInv'
<1> SUFFICES ASSUME IInv, [Next]_vars PROVE IInv'
  OBVIOUS
<1>1. CASE UNCHANGED vars
  <2>1. UNCHANGED <<paid, paymentLock, refund, pc, req, stripeRefunds, events, processed,
                    ignored, failedOnce>>
    BY <1>1 DEF vars
  <2>2. TypeOK' /\ RowsKept
    BY <2>1 DEF IInv, TypeOK, RowsKept, Exists
  <2>3. /\ FailedIsRemembered' /\ StoredIdIsOwn' /\ SuccessHasId' /\ SuccessConfirmedByStripe'
    BY <2>1, <2>2, RowsQuiet
  <2> QED BY <2>1, <2>2, <2>3, RowsStep
<1>2. ASSUME NEW r \in Request, NEW p \in Payment, NEW op \in Operation,
             NEW amount \in Amount \cup {None}, Begin(r, p, op, amount)
      PROVE  IInv'
  BY <1>2, BeginInv
<1>3. ASSUME NEW r \in Request, NEW p \in Payment, NEW op \in Operation,
             InitiateFullRefund(r, p, op)
      PROVE  IInv'
  BY <1>3, BeginInv DEF InitiateFullRefund
<1>4. ASSUME NEW r \in Request,
             \/ LockPayment(r) \/ RefusePayment(r) \/ FindRefund(r) \/ ReadReserved(r)
             \/ InsertRefund(r) \/ CreateStripeRefund(r) \/ StripeError(r)
             \/ MarkRefundFailed(r) \/ FinalizeRefundPending(r) \/ Abandon(r)
      PROVE  IInv'
  BY <1>4, LockPaymentInv, RefusePaymentInv, FindRefundInv, ReadReservedInv, InsertRefundInv,
     CreateStripeRefundInv, StripeErrorInv, MarkRefundFailedInv, FinalizeRefundPendingInv,
     AbandonInv
<1>5. CASE \/ \E p \in Payment : PaymentSucceeds(p)
           \/ \E f \in stripeRefunds : RefundSettles(f) \/ ChargeRefunded(f)
  BY <1>5, OutsideInv
<1>6. ASSUME NEW e \in events, RefundWebhook(e) PROVE IInv'
  BY <1>6, RefundWebhookInv
<1> QED BY <1>1, <1>2, <1>3, <1>4, <1>5, <1>6 DEF Next

LEMMA Invariance == Spec => []IInv
  BY InitInv, NextInv, PTL DEF Spec

\* The tables, the handlers' local variables and Stripe's objects keep their shapes.
THEOREM TypeCorrect == Spec => []TypeOK
  BY Invariance, PTL DEF IInv

\* However an operation is retried, Stripe holds at most one refund for it, on the payment
\* and of the amount its row reserved, and the row stores no other refund's id.
THEOREM RefundedOnce == Spec => []OneRefundPerOperation
<1>1. IInv => OneRefundPerOperation
  BY OneRefund DEF IInv, OneRefundPerOperation, RefundMatchesRow, StoredIdIsOwn
<1> QED BY <1>1, Invariance, PTL

\* The refunds that were never FAILED reserve no more than was paid, for any number of
\* concurrent requests.
THEOREM ReservationsBounded == Spec => []FreshReservationsWithinPayment
  BY Invariance, PTL DEF IInv

\* A refund is shown succeeded only after Stripe said so about that refund.
THEOREM SuccessConfirmed == Spec => []SuccessConfirmedByStripe
  BY Invariance, PTL DEF IInv

\* Only the last transaction of a handler takes a refund out of SUCCEEDED, never a webhook.
THEOREM NeverDowngraded == Spec => WebhooksNeverDowngrade
<1> DEFINE Keeps == \A op \in Operation :
      refund[op].status = "succeeded" /\ refund'[op].status # "succeeded" =>
        \E r \in Request : /\ req[r].op = op /\ pc'[r] = "idle"
                           /\ pc[r] \in {"finalize", "markfailed"}
<1>1. IInv /\ [Next]_vars => Keeps
  <2> SUFFICES ASSUME IInv, [Next]_vars, NEW op \in Operation,
                      refund[op].status = "succeeded", refund'[op].status # "succeeded"
               PROVE  \E r \in Request : /\ req[r].op = op /\ pc'[r] = "idle"
                                         /\ pc[r] \in {"finalize", "markfailed"}
    OBVIOUS
  <2> USE DEF IInv, TypeOK
  <2>1. CASE UNCHANGED refund
    BY <2>1
  <2>2. ASSUME NEW r \in Request, InsertRefund(r) PROVE FALSE
    <3>1. refund[req[r].op].status = "new"
      BY <2>2 DEF InsertRefund, Exists, NoRefund
    <3> QED BY <2>2, <3>1 DEF InsertRefund
  <2>3. ASSUME NEW r \in Request, MarkRefundFailed(r) \/ FinalizeRefundPending(r)
        PROVE  req[r].op = op /\ pc'[r] = "idle" /\ pc[r] \in {"finalize", "markfailed"}
    BY <2>3 DEF MarkRefundFailed, FinalizeRefundPending, EndRequest, Goto
  <2>4. ASSUME NEW e \in events, RefundWebhook(e) PROVE FALSE
    <3> DEFINE after == [refund[op] EXCEPT !.status = RefundStatusAfter(e.type, @)]
    <3>1. refund'[op] \in {refund[op], after}
      BY <2>4 DEF RefundWebhook
    <3>2. RefundStatusAfter(e.type, refund[op].status) = "succeeded"
      BY DEF RefundStatusAfter
    <3>3. refund[op] \in RefundRow
      BY DEF NoRefund
    <3>4. after.status = "succeeded"
      BY <3>2, <3>3 DEF RefundRow
    <3> QED BY <3>1, <3>4
  <2>5. CASE UNCHANGED vars
    BY <2>1, <2>5 DEF vars
  <2>6. ASSUME NEW r \in Request,
             \/ LockPayment(r) \/ RefusePayment(r) \/ FindRefund(r) \/ ReadReserved(r)
             \/ CreateStripeRefund(r) \/ StripeError(r) \/ Abandon(r)
             \/ \E p \in Payment, o \in Operation : \/ InitiateFullRefund(r, p, o)
                  \/ \E amount \in Amount \cup {None} : Begin(r, p, o, amount)
        PROVE  UNCHANGED refund
    BY <2>6 DEF LockPayment, RefusePayment, FindRefund, ReadReserved, CreateStripeRefund,
       StripeError, Abandon, InitiateFullRefund, Begin
  <2>7. CASE \/ \E p \in Payment : PaymentSucceeds(p)
             \/ \E f \in stripeRefunds : RefundSettles(f) \/ ChargeRefunded(f)
    BY <2>1, <2>7 DEF PaymentSucceeds, RefundSettles, ChargeRefunded, Emit
  <2> QED BY <2>1, <2>2, <2>3, <2>4, <2>5, <2>6, <2>7 DEF Next
<1>2. Spec => [][Keeps]_vars
  BY <1>1, Invariance, PTL DEF Spec
<1> QED BY <1>2 DEF WebhooksNeverDowngrade

-----------------------------------------------------------------------------
(* Ratings: the inductive invariant *)

RequestSteps == {"new", "upsert", "stats", "like", "read", "delete", "done"}

RatingCall ==
  [step : RequestSteps, user : User, review : Review, value : Value \cup {Unrated},
   seen : Value \cup {Unrated}, count : Int, sum : Int]

ReviewRow == [step : {"new", "live", "gone"}, count : Int, sum : Int]

DeletionRecord ==
  [step : {"new", "done"}] \cup
  [step : {"transaction"}, review : Review, stats : ReviewRow, ratings : [User -> Value \cup {Unrated}]]

ShapesOK ==
  /\ review \in [Review -> ReviewRow]
  /\ rating \in [Review -> [User -> Value \cup {Unrated}]]
  /\ request \in [RatingRequest -> RatingCall]
  /\ deletion \in [Deletion -> DeletionRecord]
  /\ liked \subseteq Review \X User
  /\ drifted \subseteq Review /\ orphaned \subseteq Review \X User
  /\ faults \in 0..MaxFaults

\* Who works at a review has found it in the collection.
CallOK(q) ==
  LET call == request[q] IN
  /\ call.step = "upsert" => call.value \in Value
  /\ call.step = "like" => call.value = Like
  /\ call.step \notin {"new", "done"} => review[call.review].step # "new"

CallsOK == \A q \in RatingRequest : CallOK(q)

\* A deletion under way has seen its review there.
DeletionsOK == \A d \in Deletion : deletion[d].step = "transaction" => deletion[d].stats.step = "live"

FinitelyRated == \A r \in Review : IsFiniteSet(Owing(r)) /\ IsFiniteSet(RatersOf(r))

Given(r) == MapThenSumSet(LAMBDA u : rating[r][u], RatersOf(r))

\* The counters of a review and what is owed to them come to its ratings.
Balanced(r) ==
  /\ review[r].count + Owed(r, "count") = Cardinality(RatersOf(r))
  /\ review[r].sum + Owed(r, "sum") = Given(r)

BalanceOK == \A r \in Review \ drifted : review[r].step # "gone" => Balanced(r)

RatingsInv == ShapesOK /\ CallsOK /\ DeletionsOK /\ FinitelyRated /\ BalanceOK /\ DeletionTakesRatings

-----------------------------------------------------------------------------
(* Ratings: counters and what is owed to them *)

Column == {"count", "sum"}

Debts(c) == [q \in RatingRequest |-> request[q][c]]

LEMMA OwedIsSum ==
  ASSUME NEW r, NEW c
  PROVE  Owed(r, c) = SumOf(Debts(c), Owing(r))
<1> DEFINE Fold(g) == g = [s \in SUBSET Owing(r) |->
                             IF s = {} THEN 0
                             ELSE request[First(s)][c] + g[s \ {First(s)}]]
<1>1. Owed(r, c) = (CHOOSE g : Fold(g))[Owing(r)]
  BY DEF Owed, MapThenSumSet, MapThenFoldSet, First
<1>2. ASSUME NEW g PROVE Fold(g) <=> Folding(Debts(c), Owing(r), g)
  <2>1. \A s \in SUBSET Owing(r) : s # {} => Debts(c)[First(s)] = request[First(s)][c]
    BY DEF Debts, First, Owing
  <2> QED BY <2>1 DEF Folding
<1> HIDE DEF Fold
<1>3. (CHOOSE g : Fold(g)) = (CHOOSE g : Folding(Debts(c), Owing(r), g))
  BY <1>2
<1> QED BY <1>1, <1>3 DEF SumOf

LEMMA GivenIsSum ==
  ASSUME NEW r
  PROVE  Given(r) = SumOf(rating[r], RatersOf(r))
BY DEF Given, MapThenSumSet, MapThenFoldSet, First, Folding, SumOf

LEMMA NextOwedIsSum ==
  ASSUME NEW r, NEW c
  PROVE  Owed(r, c)' = SumOf(Debts(c)', Owing(r)')
<1>1. (Owed(r, c) = SumOf(Debts(c), Owing(r)))'
  BY OwedIsSum, PTL
<1> QED BY <1>1

LEMMA NextGivenIsSum ==
  ASSUME NEW r
  PROVE  Given(r)' = SumOf(rating'[r], RatersOf(r)')
<1>1. (Given(r) = SumOf(rating[r], RatersOf(r)))'
  BY GivenIsSum, PTL
<1> QED BY <1>1

LEMMA DebtsTyped ==
  ASSUME request \in [RatingRequest -> RatingCall], NEW c \in Column
  PROVE  /\ \A q \in RatingRequest : Debts(c)[q] = request[q][c] /\ Debts(c)[q] \in Int
         /\ \A r : Owing(r) \subseteq RatingRequest
BY DEF Debts, Column, RatingCall, Owing

LEMMA NextDebtsTyped ==
  ASSUME request' \in [RatingRequest -> RatingCall], NEW c \in Column
  PROVE  /\ \A q \in RatingRequest : Debts(c)'[q] = request'[q][c] /\ Debts(c)'[q] \in Int
BY DEF Debts, Column, RatingCall

LEMMA OwedTyped ==
  ASSUME ShapesOK, FinitelyRated, NEW r \in Review, NEW c \in Column
  PROVE  Owed(r, c) \in Int
<1>1. IsFiniteSet(Owing(r)) /\ \A q \in Owing(r) : Debts(c)[q] \in Int
  BY DebtsTyped DEF ShapesOK, FinitelyRated
<1>2. SumOf(Debts(c), Owing(r)) \in Int
  BY <1>1, SumInteger
<1> QED BY <1>2, OwedIsSum

LEMMA OwedSame ==
  ASSUME ShapesOK, ShapesOK', FinitelyRated, NEW r \in Review, NEW c \in Column,
         Owing(r)' = Owing(r), \A q \in Owing(r) : request'[q][c] = request[q][c]
  PROVE  Owed(r, c)' = Owed(r, c)
<1>1. IsFiniteSet(Owing(r)) /\ \A q \in Owing(r) : Debts(c)'[q] = Debts(c)[q]
  BY DebtsTyped, NextDebtsTyped DEF ShapesOK, FinitelyRated
<1>2. SumOf(Debts(c)', Owing(r)) = SumOf(Debts(c), Owing(r))
  BY <1>1, SumAgrees
<1> QED BY <1>2, OwedIsSum, NextOwedIsSum

LEMMA OwedGains ==
  ASSUME ShapesOK, ShapesOK', FinitelyRated, NEW r \in Review, NEW c \in Column,
         NEW q \in RatingRequest, q \notin Owing(r), Owing(r)' = Owing(r) \cup {q},
         \A p \in Owing(r) : request'[p][c] = request[p][c]
  PROVE  Owed(r, c)' = Owed(r, c) + request'[q][c]
<1>1. /\ IsFiniteSet(Owing(r))
      /\ \A p \in Owing(r) : Debts(c)[p] \in Int /\ Debts(c)'[p] = Debts(c)[p]
      /\ Debts(c)'[q] \in Int /\ Debts(c)'[q] = request'[q][c]
  BY DebtsTyped, NextDebtsTyped DEF ShapesOK, FinitelyRated
<1>2. SumOf(Debts(c)', Owing(r) \cup {q}) = SumOf(Debts(c), Owing(r)) + Debts(c)'[q]
  BY <1>1, SumGains
<1> QED BY <1>1, <1>2, OwedIsSum, NextOwedIsSum

LEMMA OwedLoses ==
  ASSUME ShapesOK, ShapesOK', FinitelyRated, NEW r \in Review, NEW c \in Column,
         NEW q \in Owing(r), Owing(r)' = Owing(r) \ {q},
         \A p \in Owing(r) \ {q} : request'[p][c] = request[p][c]
  PROVE  Owed(r, c)' = Owed(r, c) - request[q][c]
<1>1. /\ IsFiniteSet(Owing(r))
      /\ \A p \in Owing(r) : Debts(c)[p] \in Int
      /\ \A p \in Owing(r) : p # q => Debts(c)'[p] = Debts(c)[p]
      /\ Debts(c)[q] = request[q][c]
  BY DebtsTyped, NextDebtsTyped DEF ShapesOK, FinitelyRated
<1>2. SumOf(Debts(c)', Owing(r)') = SumOf(Debts(c), Owing(r)) - Debts(c)[q]
  BY <1>1, SumLoses
<1> QED BY <1>1, <1>2, OwedIsSum, NextOwedIsSum

\* Whose ratings count, and what they come to, when u gives v, changes a rating or takes
\* it back.
LEMMA RatersTyped ==
  ASSUME ShapesOK, FinitelyRated, NEW r \in Review
  PROVE  /\ RatersOf(r) \subseteq User /\ IsFiniteSet(RatersOf(r))
         /\ \A u \in RatersOf(r) : rating[r][u] \in Value /\ rating[r][u] \in Int
         /\ Given(r) \in Int /\ Cardinality(RatersOf(r)) \in Nat
<1>1. /\ RatersOf(r) \subseteq User /\ IsFiniteSet(RatersOf(r))
      /\ \A u \in RatersOf(r) : rating[r][u] \in Value /\ rating[r][u] \in Int
  <2>1. rating[r] \in [User -> Value \cup {Unrated}]
    BY DEF ShapesOK
  <2>2. \A u \in RatersOf(r) : u \in User /\ rating[r][u] \in Value
    BY <2>1 DEF RatersOf
  <2>3. IsFiniteSet(RatersOf(r))
    BY DEF FinitelyRated
  <2>4. \A v \in Value : v \in Int
    BY ValueAssumption
  <2>5. RatersOf(r) \subseteq User
    BY DEF RatersOf
  <2> QED BY <2>2, <2>3, <2>4, <2>5
<1>2. SumOf(rating[r], RatersOf(r)) \in Int
  BY <1>1, SumInteger
<1> QED BY <1>1, <1>2, GivenIsSum, FS_CardinalityType

LEMMA GivenSame ==
  ASSUME NEW r \in Review, rating'[r] = rating[r]
  PROVE  RatersOf(r)' = RatersOf(r) /\ Given(r)' = Given(r)
<1>1. RatersOf(r)' = RatersOf(r)
  BY DEF RatersOf
<1> QED BY <1>1, GivenIsSum, NextGivenIsSum

LEMMA RatersMove ==
  ASSUME ShapesOK, NEW r \in Review, NEW u \in User, NEW v,
         rating' = [rating EXCEPT ![r][u] = v]
  PROVE  /\ rating'[r] = [rating[r] EXCEPT ![u] = v]
         /\ rating'[r][u] = v
         /\ \A w \in User \ {u} : rating'[r][w] = rating[r][w]
         /\ v = Unrated => RatersOf(r)' = RatersOf(r) \ {u}
         /\ v # Unrated => RatersOf(r)' = RatersOf(r) \cup {u}
         /\ \A s \in Review \ {r} : rating'[s] = rating[s]
<1>1. /\ rating'[r] = [rating[r] EXCEPT ![u] = v]
      /\ rating'[r][u] = v /\ \A w \in User \ {u} : rating'[r][w] = rating[r][w]
      /\ \A s \in Review \ {r} : rating'[s] = rating[s]
  BY DEF ShapesOK
<1> QED BY <1>1 DEF RatersOf

LEMMA RatingGiven ==
  ASSUME ShapesOK, FinitelyRated, NEW r \in Review, NEW u \in User, NEW v \in Value,
         rating' = [rating EXCEPT ![r][u] = v]
  PROVE  /\ Given(r)' = Given(r) + SumDelta(rating[r][u], v)
         /\ Cardinality(RatersOf(r)') = Cardinality(RatersOf(r)) + CountDelta(rating[r][u])
         /\ IsFiniteSet(RatersOf(r)')
<1>1. /\ rating'[r][u] = v /\ v \in Int /\ v # Unrated
      /\ \A w \in User \ {u} : rating'[r][w] = rating[r][w]
      /\ RatersOf(r)' = RatersOf(r) \cup {u}
  <2>1. v \in Int /\ v # Unrated
    BY ValueAssumption
  <2>2. rating'[r][u] = v /\ \A w \in User \ {u} : rating'[r][w] = rating[r][w]
    BY DEF ShapesOK
  <2>3. v # Unrated => RatersOf(r)' = RatersOf(r) \cup {u}
    BY RatersMove
  <2> QED BY <2>1, <2>2, <2>3
<1>2. /\ RatersOf(r) \subseteq User /\ IsFiniteSet(RatersOf(r))
      /\ \A w \in RatersOf(r) : rating[r][w] \in Int
      /\ Given(r) \in Int /\ Cardinality(RatersOf(r)) \in Nat
  BY RatersTyped
<1>3. CASE rating[r][u] = Unrated
  <2>1. u \notin RatersOf(r)
    BY <1>3 DEF RatersOf
  <2>2. \A w \in RatersOf(r) : rating[r][w] \in Int /\ rating'[r][w] = rating[r][w]
    BY <1>1, <1>2, <2>1
  <2>3. SumOf(rating'[r], RatersOf(r) \cup {u}) = SumOf(rating[r], RatersOf(r)) + rating'[r][u]
    <3> DEFINE f == rating[r]
               g == rating'[r]
               S == RatersOf(r)
    <3>1. /\ IsFiniteSet(S) /\ u \notin S /\ g[u] \in Int
          /\ \A s \in S : f[s] \in Int /\ g[s] = f[s]
      BY <1>1, <1>2, <2>1, <2>2
    <3> HIDE DEF f, g, S
    <3>2. SumOf(g, S \cup {u}) = SumOf(f, S) + g[u]
      BY <3>1, SumGains
    <3> QED BY <3>2 DEF f, g, S
  <2>4. Given(r)' = Given(r) + v
    BY <1>1, <2>3, GivenIsSum, NextGivenIsSum
  <2>5. /\ Cardinality(RatersOf(r) \cup {u}) = Cardinality(RatersOf(r)) + 1
        /\ IsFiniteSet(RatersOf(r) \cup {u})
    BY <1>2, <2>1, FS_AddElement
  <2>6. CountDelta(rating[r][u]) = 1 /\ SumDelta(rating[r][u], v) = v
    BY <1>3 DEF SumDelta, CountDelta
  <2> QED BY <1>1, <2>4, <2>5, <2>6
<1>4. CASE rating[r][u] # Unrated
  <2>1. u \in RatersOf(r) /\ RatersOf(r)' = RatersOf(r)
    BY <1>1, <1>4 DEF RatersOf
  <2>2. SumOf(rating'[r], RatersOf(r)) = SumOf(rating[r], RatersOf(r)) - rating[r][u] + rating'[r][u]
    <3> DEFINE f == rating[r]
               g == rating'[r]
               S == RatersOf(r)
    <3>1. /\ IsFiniteSet(S) /\ u \in S /\ g[u] \in Int
          /\ (\A s \in S : f[s] \in Int) /\ (\A s \in S : s # u => g[s] = f[s])
      BY <1>1, <1>2, <2>1
    <3> HIDE DEF f, g, S
    <3>2. SumOf(g, S) = SumOf(f, S) - f[u] + g[u]
      BY <3>1, SumChanges
    <3> QED BY <3>2 DEF f, g, S
  <2>3. Given(r)' = Given(r) - rating[r][u] + v
    BY <1>1, <2>1, <2>2, GivenIsSum, NextGivenIsSum
  <2>4. rating[r][u] \in Int
    BY <1>2, <2>1
  <2>5. CountDelta(rating[r][u]) = 0 /\ SumDelta(rating[r][u], v) = v - rating[r][u]
    BY <1>4 DEF SumDelta, CountDelta
  <2>6. Given(r)' = Given(r) + SumDelta(rating[r][u], v)
    BY <1>1, <1>2, <2>3, <2>4, <2>5
  <2>7. Cardinality(RatersOf(r)') = Cardinality(RatersOf(r)) /\ IsFiniteSet(RatersOf(r)')
    BY <1>2, <2>1
  <2> QED BY <1>2, <2>5, <2>6, <2>7
<1> QED BY <1>3, <1>4

LEMMA RatingTakenBack ==
  ASSUME ShapesOK, FinitelyRated, NEW r \in Review, NEW u \in User, rating[r][u] # Unrated,
         rating' = [rating EXCEPT ![r][u] = Unrated]
  PROVE  /\ Given(r)' = Given(r) - rating[r][u]
         /\ Cardinality(RatersOf(r)') = Cardinality(RatersOf(r)) - 1
         /\ IsFiniteSet(RatersOf(r)') /\ rating[r][u] \in Int
<1>1. /\ \A w \in User \ {u} : rating'[r][w] = rating[r][w]
      /\ RatersOf(r)' = RatersOf(r) \ {u}
  BY RatersMove
<1>2. /\ RatersOf(r) \subseteq User /\ IsFiniteSet(RatersOf(r))
      /\ \A w \in RatersOf(r) : rating[r][w] \in Int
      /\ Given(r) \in Int /\ Cardinality(RatersOf(r)) \in Nat
  BY RatersTyped
<1>3. u \in RatersOf(r)
  BY DEF RatersOf
<1>4. SumOf(rating'[r], RatersOf(r) \ {u}) = SumOf(rating[r], RatersOf(r)) - rating[r][u]
  <2> DEFINE f == rating[r]
             g == rating'[r]
             S == RatersOf(r)
             T == S \ {u}
  <2>1. /\ IsFiniteSet(S) /\ u \in S /\ T = S \ {u}
        /\ (\A s \in S : f[s] \in Int) /\ (\A s \in S : s # u => g[s] = f[s])
    BY <1>1, <1>2, <1>3
  <2> HIDE DEF f, g, S, T
  <2>2. SumOf(g, T) = SumOf(f, S) - f[u]
    BY <2>1, SumLoses
  <2> QED BY <2>2 DEF f, g, S, T
<1>5. /\ Cardinality(RatersOf(r) \ {u}) = Cardinality(RatersOf(r)) - 1
      /\ IsFiniteSet(RatersOf(r) \ {u})
  BY <1>2, <1>3, FS_RemoveElement
<1> QED BY <1>1, <1>2, <1>3, <1>4, <1>5, GivenIsSum, NextGivenIsSum

-----------------------------------------------------------------------------
(* Ratings: steps of the requests *)

LEMMA ReviewUserExist ==
  /\ NewRequest \in RatingCall /\ Done \in RatingCall
  /\ NewRequest.step = "new" /\ Done.step = "done"
<1>1. (CHOOSE r \in Review : TRUE) \in Review
  BY AuthorAssumption
<1>2. (CHOOSE u \in User : TRUE) \in User
  BY <1>1, AuthorAssumption
<1>3. NewRequest \in RatingCall /\ NewRequest.step = "new"
  <2> DEFINE r0 == CHOOSE r \in Review : TRUE
             u0 == CHOOSE u \in User : TRUE
  <2>1. NewRequest = [step |-> "new", user |-> u0, review |-> r0, value |-> Unrated,
                      seen |-> Unrated, count |-> 0, sum |-> 0]
    BY DEF NewRequest
  <2>2. r0 \in Review /\ u0 \in User
    BY <1>1, <1>2
  <2> HIDE DEF r0, u0
  <2> QED BY <2>1, <2>2 DEF RatingCall, RequestSteps
<1> QED BY <1>3 DEF Done, RatingCall, RequestSteps

LEMMA CallMoves ==
  ASSUME ShapesOK, NEW q \in RatingRequest, NEW x \in RatingCall, SetRequest(q, x)
  PROVE  /\ request' \in [RatingRequest -> RatingCall]
         /\ request'[q] = x
         /\ \A p \in RatingRequest : p # q => request'[p] = request[p]
BY DEF ShapesOK, SetRequest

LEMMA OwingMoves ==
  ASSUME ShapesOK, NEW q \in RatingRequest, NEW x \in RatingCall, SetRequest(q, x), NEW r
  PROVE  /\ x.step = "stats" /\ x.review = r => Owing(r)' = Owing(r) \cup {q}
         /\ x.step # "stats" \/ x.review # r => Owing(r)' = Owing(r) \ {q}
         /\ \A p \in Owing(r) : p # q => request'[p] = request[p]
BY CallMoves DEF Owing

LEMMA CallsKept ==
  ASSUME ShapesOK, CallsOK, NEW q \in RatingRequest, NEW x \in RatingCall, SetRequest(q, x),
         CallOK(q)', \A r \in Review : review[r].step # "new" => review'[r].step # "new"
  PROVE  CallsOK'
<1> SUFFICES ASSUME NEW p \in RatingRequest PROVE CallOK(p)'
  BY DEF CallsOK
<1>1. CASE p = q
  BY <1>1
<1>2. CASE p # q
  <2>1. request'[p] = request[p] /\ request[p].review \in Review
    BY <1>2, CallMoves DEF ShapesOK, RatingCall
  <2> QED BY <2>1 DEF CallsOK, CallOK
<1> QED BY <1>1, <1>2

LEMMA OwingFinite ==
  ASSUME ShapesOK, FinitelyRated, NEW q \in RatingRequest, NEW x \in RatingCall, SetRequest(q, x),
         NEW r \in Review
  PROVE  IsFiniteSet(Owing(r)')
<1>1. IsFiniteSet(Owing(r) \cup {q}) /\ IsFiniteSet(Owing(r) \ {q})
  BY FS_AddElement, FS_RemoveElement DEF FinitelyRated
<1> QED BY <1>1, OwingMoves

\* A review whose counters, ratings and debts nothing happens to stays balanced.
LEMMA BalanceSame ==
  ASSUME ShapesOK, ShapesOK', FinitelyRated, NEW r \in Review, rating'[r] = rating[r],
         review'[r].count = review[r].count, review'[r].sum = review[r].sum,
         Owing(r)' = Owing(r), \A p \in Owing(r) : request'[p] = request[p],
         Balanced(r)
  PROVE  Balanced(r)'
<1>1. /\ Owed(r, "count")' = Owed(r, "count")
      /\ Owed(r, "sum")' = Owed(r, "sum")
  BY OwedSame DEF Column
<1>2. Given(r)' = Given(r) /\ Cardinality(RatersOf(r))' = Cardinality(RatersOf(r))
  BY GivenSame
<1> QED BY <1>1, <1>2 DEF Balanced

\* A request that owes nothing goes on and will owe nothing.
LEMMA QuietInv ==
  ASSUME RatingsInv, NEW q \in RatingRequest, NEW x \in RatingCall, SetRequest(q, x),
         x.step # "stats", request[q].step # "stats", CallOK(q)',
         UNCHANGED <<review, rating, deletion, drifted, orphaned>>,
         liked' \subseteq Review \X User, faults' \in 0..MaxFaults
  PROVE  RatingsInv'
<1> USE DEF RatingsInv
<1>1. ShapesOK'
  BY CallMoves DEF ShapesOK
<1>2. CallsOK'
  BY CallsKept
<1>3. \A r \in Review : Owing(r)' = Owing(r) /\ \A p \in Owing(r) : request'[p] = request[p]
  <2> TAKE r \in Review
  <2>1. q \notin Owing(r)
    BY DEF Owing
  <2> QED BY <2>1, OwingMoves
<1>4. FinitelyRated'
  BY <1>3 DEF FinitelyRated, RatersOf
<1>5. BalanceOK'
  <2> SUFFICES ASSUME NEW r \in Review \ drifted', review'[r].step # "gone" PROVE Balanced(r)'
    BY DEF BalanceOK
  <2>1. Balanced(r)
    BY DEF BalanceOK
  <2> QED BY <1>1, <1>3, <2>1, BalanceSame
<1>6. DeletionsOK' /\ DeletionTakesRatings'
  BY DEF DeletionsOK, DeletionTakesRatings, RatersOf
<1> QED BY <1>1, <1>2, <1>4, <1>5, <1>6

LEMMA EnsureInv ==
  ASSUME RatingsInv, NEW q \in RatingRequest, NEW u \in User, NEW r \in Review,
         EnsureToRemove(q, u, r) \/ \E v \in Value : EnsureToRate(q, u, r, v)
  PROVE  RatingsInv'
<1>1. PICK x \in RatingCall :
        /\ SetRequest(q, x) /\ x.step \in {"upsert", "read"} /\ x.review = r
        /\ x.step = "upsert" => x.value \in Value
  <2>1. CASE EnsureToRemove(q, u, r)
    <3> DEFINE x == [NewRequest EXCEPT !.step = "read", !.user = u, !.review = r]
    <3>1. x \in RatingCall /\ x.step = "read" /\ x.review = r
      BY ReviewUserExist DEF RatingCall, RequestSteps
    <3> QED BY <2>1, <3>1 DEF EnsureToRemove
  <2>2. ASSUME NEW v \in Value, EnsureToRate(q, u, r, v)
        PROVE  \E x \in RatingCall : /\ SetRequest(q, x) /\ x.step \in {"upsert", "read"} /\ x.review = r
                                     /\ x.step = "upsert" => x.value \in Value
    <3> DEFINE x == [NewRequest EXCEPT !.step = "upsert", !.user = u, !.review = r, !.value = v]
    <3>1. x \in RatingCall /\ x.step = "upsert" /\ x.review = r /\ x.value = v
      BY ReviewUserExist DEF RatingCall, RequestSteps
    <3> QED BY <2>2, <3>1 DEF EnsureToRate
  <2> QED BY <2>1, <2>2
<1>2. /\ request[q].step = "new" /\ review[r].step = "live"
      /\ UNCHANGED <<review, rating, deletion, liked, drifted, orphaned, faults>>
  BY DEF EnsureToRemove, EnsureToRate, IsLive
<1>3. CallOK(q)'
  BY <1>1, <1>2, CallMoves DEF CallOK, RatingsInv
<1>4. liked' \subseteq Review \X User /\ faults' \in 0..MaxFaults
  BY <1>2 DEF RatingsInv, ShapesOK
<1> QED BY <1>1, <1>2, <1>3, <1>4, QuietInv

LEMMA PublishLikedInv ==
  ASSUME RatingsInv, NEW q \in RatingRequest, PublishLiked(q)
  PROVE  RatingsInv'
<1>1. /\ request[q].step = "like" /\ SetRequest(q, Done)
      /\ UNCHANGED <<review, rating, deletion, drifted, orphaned, faults>>
  BY DEF PublishLiked
<1>2. liked' \subseteq Review \X User
  <2>1. request[q].user \in User /\ request[q].review \in Review
    BY DEF RatingsInv, ShapesOK, RatingCall
  <2> QED BY <2>1 DEF PublishLiked, RatingsInv, ShapesOK
<1>3. CallOK(q)'
  BY <1>1, CallMoves, ReviewUserExist DEF CallOK, RatingsInv
<1>4. faults' \in 0..MaxFaults
  BY <1>1 DEF RatingsInv, ShapesOK
<1> QED BY <1>1, <1>2, <1>3, <1>4, ReviewUserExist, QuietInv

LEMMA ReadRatingInv ==
  ASSUME RatingsInv, NEW q \in RatingRequest, ReadRating(q)
  PROVE  RatingsInv'
<1> DEFINE x == [request[q] EXCEPT !.step = "delete",
                                   !.seen = rating[request[q].review][request[q].user]]
<1>1. /\ request[q].step = "read" /\ SetRequest(q, x)
      /\ UNCHANGED <<review, rating, deletion, liked, drifted, orphaned, faults>>
  BY DEF ReadRating
<1>2. x \in RatingCall /\ x.step = "delete" /\ x.review = request[q].review
  <2>1. request[q] \in RatingCall /\ request[q].user \in User /\ request[q].review \in Review
    BY DEF RatingsInv, ShapesOK, RatingCall
  <2>2. rating[request[q].review][request[q].user] \in Value \cup {Unrated}
    BY <2>1 DEF RatingsInv, ShapesOK
  <2> QED BY <2>1, <2>2 DEF RatingCall, RequestSteps
<1> HIDE DEF x
<1>3. review[request[q].review].step # "new"
  BY <1>1 DEF RatingsInv, CallsOK, CallOK
<1>4. CallOK(q)'
  BY <1>1, <1>2, <1>3, CallMoves DEF CallOK, RatingsInv
<1>5. liked' \subseteq Review \X User /\ faults' \in 0..MaxFaults
  BY <1>1 DEF RatingsInv, ShapesOK
<1> QED BY <1>1, <1>2, <1>4, <1>5, QuietInv

LEMMA CrashInv ==
  ASSUME RatingsInv, NEW q \in RatingRequest, Crash(q)
  PROVE  RatingsInv'
<1> USE DEF RatingsInv
<1>1. /\ SetRequest(q, Done) /\ Done \in RatingCall /\ Done.step = "done"
      /\ UNCHANGED <<review, rating, deletion, liked, orphaned>>
      /\ drifted' = IF request[q].step = "stats" THEN drifted \cup {request[q].review} ELSE drifted
  BY ReviewUserExist DEF Crash
<1>2. faults' \in 0..MaxFaults
  BY FaultsAssumption DEF Crash, Fault, ShapesOK
<1>3. CallOK(q)'
  BY <1>1, CallMoves DEF CallOK
<1>4. CASE request[q].step # "stats"
  <2>1. UNCHANGED <<review, rating, deletion, drifted, orphaned>> /\ liked' \subseteq Review \X User
    BY <1>1, <1>4 DEF ShapesOK
  <2> QED BY <1>1, <1>2, <1>3, <1>4, <2>1, QuietInv
<1>5. CASE request[q].step = "stats"
  <2>1. request[q].review \in Review /\ drifted' = drifted \cup {request[q].review}
    BY <1>1, <1>5 DEF ShapesOK, RatingCall
  <2>2. ShapesOK'
    BY <1>1, <1>2, <2>1, CallMoves DEF ShapesOK
  <2>3. CallsOK'
    BY <1>1, <1>3, CallsKept
  <2>4. FinitelyRated'
    <3>1. \A r \in Review : IsFiniteSet(Owing(r)')
      BY <1>1, OwingFinite
    <3> QED BY <1>1, <3>1 DEF FinitelyRated, RatersOf
  <2>5. BalanceOK'
    <3> SUFFICES ASSUME NEW r \in Review \ drifted', review'[r].step # "gone" PROVE Balanced(r)'
      BY DEF BalanceOK
    <3>1. Balanced(r) /\ request[q].review # r
      BY <1>1, <2>1 DEF BalanceOK
    <3>2. q \notin Owing(r)
      BY <3>1 DEF Owing
    <3>3. Owing(r)' = Owing(r) /\ \A p \in Owing(r) : request'[p] = request[p]
      BY <1>1, <3>2, OwingMoves
    <3> QED BY <1>1, <2>2, <3>1, <3>3, BalanceSame
  <2>6. DeletionsOK' /\ DeletionTakesRatings'
    BY <1>1 DEF DeletionsOK, DeletionTakesRatings, RatersOf
  <2> QED BY <2>2, <2>3, <2>4, <2>5, <2>6
<1> QED BY <1>4, <1>5

LEMMA UpsertInv ==
  ASSUME RatingsInv, NEW q \in RatingRequest, Upsert(q)
  PROVE  RatingsInv'
<1> USE DEF RatingsInv
<1>1. PICK u \in User, r \in Review, v \in Value :
        /\ u = request[q].user /\ r = request[q].review /\ v = request[q].value
        /\ request[q].step = "upsert" /\ review[r].step # "new"
  BY DEF Upsert, ShapesOK, RatingCall, CallsOK, CallOK
<1>2. PICK before \in Value \cup {Unrated} : before = rating[r][u]
  BY DEF ShapesOK
<1> DEFINE x == [request[q] EXCEPT !.step = "stats", !.count = CountDelta(before), !.sum = SumDelta(before, v)]
<1>3. /\ rating' = [rating EXCEPT ![r][u] = v] /\ SetRequest(q, x)
      /\ orphaned' = IF IsLive(r) THEN orphaned ELSE orphaned \cup {<<r, u>>}
      /\ UNCHANGED <<review, deletion, liked, drifted, faults>>
  BY <1>1, <1>2 DEF Upsert
<1>4. CountDelta(before) \in Int /\ SumDelta(before, v) \in Int
  <2>1. v \in Int /\ (before # Unrated => before \in Int)
    BY ValueAssumption
  <2> QED BY <2>1 DEF CountDelta, SumDelta
<1>5. /\ x \in RatingCall /\ x.step = "stats" /\ x.review = r
      /\ x.count = CountDelta(before) /\ x.sum = SumDelta(before, v)
  BY <1>1, <1>4 DEF ShapesOK, RatingCall, RequestSteps
<1> HIDE DEF x
<1>6. ShapesOK'
  <2>1. rating' \in [Review -> [User -> Value \cup {Unrated}]]
    BY <1>3 DEF ShapesOK
  <2> QED BY <1>3, <1>5, <2>1, CallMoves DEF ShapesOK
<1>7. CallsOK'
  <2>1. CallOK(q)'
    BY <1>1, <1>3, <1>5, CallMoves DEF CallOK
  <2> QED BY <1>3, <1>5, <2>1, CallsKept
<1>8. /\ rating'[r] = [rating[r] EXCEPT ![u] = v]
      /\ \A s \in Review \ {r} : rating'[s] = rating[s]
  BY <1>3 DEF ShapesOK
<1>9. /\ Given(r)' = Given(r) + SumDelta(before, v)
      /\ Cardinality(RatersOf(r)') = Cardinality(RatersOf(r)) + CountDelta(before)
      /\ IsFiniteSet(RatersOf(r)')
  BY <1>2, <1>3, RatingGiven
<1>10. FinitelyRated'
  <2>1. \A s \in Review : IsFiniteSet(Owing(s)')
    BY <1>3, <1>5, OwingFinite
  <2>2. \A s \in Review : s # r => IsFiniteSet(RatersOf(s)')
    BY <1>8, GivenSame DEF FinitelyRated
  <2> QED BY <1>9, <2>1, <2>2 DEF FinitelyRated
<1>11. q \notin Owing(r) /\ \A s \in Review : q \notin Owing(s)
  BY <1>1 DEF Owing
<1>12. BalanceOK'
  <2> SUFFICES ASSUME NEW s \in Review \ drifted', review'[s].step # "gone" PROVE Balanced(s)'
    BY DEF BalanceOK
  <2>1. Balanced(s)
    BY <1>3 DEF BalanceOK
  <2>2. CASE s # r
    <3>0. q \notin Owing(s) /\ x.review # s
      BY <1>5, <1>11, <2>2
    <3>1. /\ Owing(s)' = Owing(s) \ {q}
          /\ \A p \in Owing(s) : p # q => request'[p] = request[p]
      BY <1>3, <1>5, <3>0, OwingMoves
    <3>2. Owing(s)' = Owing(s) /\ \A p \in Owing(s) : request'[p] = request[p]
      BY <3>0, <3>1
    <3> QED BY <1>3, <1>6, <1>8, <2>1, <2>2, <3>2, BalanceSame
  <2>3. CASE s = r
    <3>1. Owing(r)' = Owing(r) \cup {q} /\ \A p \in Owing(r) : request'[p] = request[p]
      BY <1>3, <1>5, <1>11, OwingMoves
    <3>2. request'[q] = x
      BY <1>3, <1>5, CallMoves
    <3>3. /\ Owed(r, "count")' = Owed(r, "count") + request'[q]["count"]
          /\ Owed(r, "sum")' = Owed(r, "sum") + request'[q]["sum"]
      BY <1>6, <1>11, <3>1, OwedGains DEF Column
    <3>4. /\ Owed(r, "count") \in Int /\ Owed(r, "sum") \in Int
          /\ review[r].count \in Int /\ review[r].sum \in Int
          /\ Given(r) \in Int /\ Cardinality(RatersOf(r)) \in Nat
      BY OwedTyped, RatersTyped DEF Column, ShapesOK, ReviewRow
    <3> QED BY <1>3, <1>4, <1>5, <1>9, <2>1, <2>3, <3>2, <3>3, <3>4 DEF Balanced
  <2> QED BY <2>2, <2>3
<1>13. DeletionTakesRatings'
  <2> SUFFICES ASSUME NEW s \in Review, review'[s].step = "gone", NEW w \in RatersOf(s)'
               PROVE  <<s, w>> \in orphaned'
    BY DEF DeletionTakesRatings
  <2>1. CASE s = r /\ w = u
    BY <1>3, <2>1 DEF IsLive
  <2>2. CASE s # r \/ w # u
    <3>1. w \in RatersOf(s)
      BY <1>8, <2>2 DEF RatersOf, ShapesOK
    <3> QED BY <1>3, <3>1 DEF DeletionTakesRatings
  <2> QED BY <2>1, <2>2
<1>14. DeletionsOK'
  BY <1>3 DEF DeletionsOK
<1> QED BY <1>6, <1>7, <1>10, <1>12, <1>13, <1>14

LEMMA UpdateStatsInv ==
  ASSUME RatingsInv, NEW q \in RatingRequest, UpdateStats(q)
  PROVE  RatingsInv'
<1> USE DEF RatingsInv
<1>1. PICK r \in Review : r = request[q].review /\ request[q].step = "stats" /\ review[r].step # "new"
  BY DEF UpdateStats, ShapesOK, RatingCall, CallsOK, CallOK
<1>2. PICK x \in RatingCall : /\ SetRequest(q, x) /\ x.step \in {"like", "done"}
                              /\ x.step = "like" => x.value = Like /\ x.review = r
  <2>1. CASE IsLike(request[q].value)
    <3> DEFINE x == [request[q] EXCEPT !.step = "like"]
    <3>1. x \in RatingCall /\ x.step = "like" /\ x.value = Like /\ x.review = r
      BY <1>1, <2>1 DEF ShapesOK, RatingCall, RequestSteps, IsLike
    <3> QED BY <2>1, <3>1 DEF UpdateStats
  <2>2. CASE ~IsLike(request[q].value)
    BY <2>2, ReviewUserExist DEF UpdateStats
  <2> QED BY <2>1, <2>2
<1>3. /\ review' = IF review[r].step # "live" THEN review
                   ELSE [review EXCEPT ![r].count = @ + request[q].count, ![r].sum = @ + request[q].sum]
      /\ UNCHANGED <<rating, deletion, liked, drifted, orphaned, faults>>
  BY <1>1 DEF UpdateStats, IsLive
<1>4. request[q].count \in Int /\ request[q].sum \in Int /\ review[r] \in ReviewRow
  BY DEF ShapesOK, RatingCall
<1>5. /\ review' \in [Review -> ReviewRow]
      /\ \A s \in Review : review'[s].step = review[s].step
      /\ \A s \in Review \ {r} : review'[s] = review[s]
      /\ review[r].step = "live" => /\ review'[r].count = review[r].count + request[q].count
                                    /\ review'[r].sum = review[r].sum + request[q].sum
  <2>1. CASE review[r].step # "live"
    BY <1>3, <2>1 DEF ShapesOK
  <2>2. CASE review[r].step = "live"
    <3>1. review' = [review EXCEPT ![r] = [review[r] EXCEPT !.count = @ + request[q].count, !.sum = @ + request[q].sum]]
      BY <1>3, <2>2 DEF ShapesOK, ReviewRow
    <3>2. [review[r] EXCEPT !.count = @ + request[q].count, !.sum = @ + request[q].sum] \in ReviewRow
      <4>1. PICK row \in ReviewRow, m \in Int, n \in Int : row = review[r] /\ m = request[q].count /\ n = request[q].sum
        BY <1>4
      <4>2. row.count + m \in Int /\ row.sum + n \in Int
        BY DEF ReviewRow
      <4>3. [row EXCEPT !.count = @ + m, !.sum = @ + n] \in ReviewRow
        BY <4>2 DEF ReviewRow
      <4> QED BY <4>1, <4>3
    <3> QED BY <1>4, <2>2, <3>1, <3>2 DEF ShapesOK, ReviewRow
  <2> QED BY <2>1, <2>2
<1>6. ShapesOK'
  BY <1>2, <1>3, <1>5, CallMoves DEF ShapesOK
<1>7. CallsOK'
  <2>1. CallOK(q)'
    BY <1>1, <1>2, <1>5, CallMoves DEF CallOK
  <2> QED BY <1>2, <1>5, <2>1, CallsKept
<1>8. \A s \in Review : Owing(s)' = Owing(s) \ {q} /\ \A p \in Owing(s) : p # q => request'[p] = request[p]
  BY <1>2, OwingMoves
<1>9. FinitelyRated'
  <2>1. \A s \in Review : IsFiniteSet(Owing(s)')
    BY <1>2, OwingFinite
  <2> QED BY <1>3, <2>1 DEF FinitelyRated, RatersOf
<1>10. BalanceOK'
  <2> SUFFICES ASSUME NEW s \in Review \ drifted', review'[s].step # "gone" PROVE Balanced(s)'
    BY DEF BalanceOK
  <2>1. Balanced(s) /\ review[s].step # "gone"
    BY <1>3, <1>5 DEF BalanceOK
  <2>2. CASE s # r
    <3>1. q \notin Owing(s)
      BY <1>1, <2>2 DEF Owing
    <3>2. Owing(s)' = Owing(s) /\ \A p \in Owing(s) : request'[p] = request[p]
      BY <1>8, <3>1
    <3>3. review'[s] = review[s] /\ rating'[s] = rating[s]
      BY <1>3, <1>5, <2>2
    <3> QED BY <1>6, <2>1, <3>2, <3>3, BalanceSame
  <2>3. CASE s = r
    <3>1. q \in Owing(r) /\ review[r].step = "live"
      BY <1>1, <2>1, <2>3, <1>4 DEF Owing, ReviewRow
    <3>2. Owing(r)' = Owing(r) \ {q} /\ \A p \in Owing(r) \ {q} : request'[p] = request[p]
      BY <1>8
    <3>3. /\ Owed(r, "count")' = Owed(r, "count") - request[q]["count"]
          /\ Owed(r, "sum")' = Owed(r, "sum") - request[q]["sum"]
      BY <1>6, <3>1, <3>2, OwedLoses DEF Column
    <3>4. /\ Owed(r, "count") \in Int /\ Owed(r, "sum") \in Int
          /\ review[r].count \in Int /\ review[r].sum \in Int
      BY OwedTyped DEF Column, ShapesOK, ReviewRow
    <3>5. RatersOf(r)' = RatersOf(r) /\ Given(r)' = Given(r)
      BY <1>3, GivenSame
    <3>6. /\ review'[r].count = review[r].count + request[q].count
          /\ review'[r].sum = review[r].sum + request[q].sum
      BY <1>5, <3>1
    <3> QED BY <1>4, <2>1, <2>3, <3>3, <3>4, <3>5, <3>6 DEF Balanced
  <2> QED BY <2>2, <2>3
<1>11. DeletionsOK' /\ DeletionTakesRatings'
  BY <1>3, <1>5 DEF DeletionsOK, DeletionTakesRatings, RatersOf
<1> QED BY <1>6, <1>7, <1>9, <1>10, <1>11

LEMMA DeleteRatingInv ==
  ASSUME RatingsInv, NEW q \in RatingRequest, DeleteRating(q)
  PROVE  RatingsInv'
<1> USE DEF RatingsInv
<1>1. PICK u \in User, r \in Review, seen \in Value \cup {Unrated} :
        /\ u = request[q].user /\ r = request[q].review /\ seen = request[q].seen
        /\ request[q].step = "delete" /\ review[r].step # "new"
  BY DEF DeleteRating, ShapesOK, RatingCall, CallsOK, CallOK
<1>2. PICK before \in Value \cup {Unrated} : before = rating[r][u]
  BY DEF ShapesOK
<1>3. /\ rating' = [rating EXCEPT ![r][u] = Unrated]
      /\ drifted' = IF before \in {Unrated, seen} THEN drifted ELSE drifted \cup {r}
      /\ UNCHANGED <<review, deletion, liked, orphaned, faults>>
  BY <1>1, <1>2 DEF DeleteRating
<1>4. PICK x \in RatingCall :
        /\ SetRequest(q, x) /\ x.step \in {"stats", "done"}
        /\ x.step = "done" <=> (before = Unrated \/ seen = Unrated)
        /\ x.step = "stats" => x.review = r /\ x.count = -1 /\ x.sum = -seen /\ x.sum \in Int
  <2>1. CASE before = Unrated \/ seen = Unrated
    BY <1>1, <1>2, <2>1, ReviewUserExist DEF DeleteRating
  <2>2. CASE ~(before = Unrated \/ seen = Unrated)
    <3> DEFINE x == [request[q] EXCEPT !.step = "stats", !.count = -1, !.sum = -seen]
    <3>1. SetRequest(q, x)
      BY <1>1, <1>2, <2>2 DEF DeleteRating
    <3>2. -1 \in Int /\ -seen \in Int
      BY <2>2, ValueAssumption
    <3>3. x \in RatingCall /\ x.step = "stats" /\ x.review = r /\ x.count = -1 /\ x.sum = -seen
      BY <1>1, <3>2 DEF ShapesOK, RatingCall, RequestSteps
    <3> HIDE DEF x
    <3> QED BY <2>2, <3>1, <3>2, <3>3
  <2> QED BY <2>1, <2>2
<1>5. ShapesOK'
  <2>1. rating' \in [Review -> [User -> Value \cup {Unrated}]]
    BY <1>3 DEF ShapesOK
  <2> QED BY <1>3, <1>4, <2>1, CallMoves DEF ShapesOK
<1>6. CallsOK'
  <2>1. CallOK(q)'
    BY <1>1, <1>3, <1>4, CallMoves DEF CallOK
  <2> QED BY <1>3, <1>4, <2>1, CallsKept
<1>7. /\ rating'[r] = [rating[r] EXCEPT ![u] = Unrated]
      /\ \A s \in Review \ {r} : rating'[s] = rating[s]
      /\ RatersOf(r)' = RatersOf(r) \ {u}
  <2>1. Unrated = Unrated => RatersOf(r)' = RatersOf(r) \ {u}
    BY <1>3, RatersMove
  <2>2. /\ rating'[r] = [rating[r] EXCEPT ![u] = Unrated]
        /\ \A s \in Review \ {r} : rating'[s] = rating[s]
    BY <1>3 DEF ShapesOK
  <2> QED BY <2>1, <2>2
<1>8. \A s \in Review \ {r} : RatersOf(s)' = RatersOf(s)
  BY <1>7, GivenSame
<1>9. FinitelyRated'
  <2>1. \A s \in Review : IsFiniteSet(Owing(s)')
    BY <1>4, OwingFinite
  <2>2. IsFiniteSet(RatersOf(r)')
    BY <1>7, FS_RemoveElement DEF FinitelyRated
  <2> QED BY <1>8, <2>1, <2>2 DEF FinitelyRated
<1>10. \A s \in Review : q \notin Owing(s)
  BY <1>1 DEF Owing
<1>11. ASSUME NEW s \in Review, rating'[s] = rating[s], Balanced(s),
              x.step # "stats" \/ x.review # s
       PROVE  Balanced(s)'
  <2>1. Owing(s)' = Owing(s) \ {q} /\ \A p \in Owing(s) : p # q => request'[p] = request[p]
    BY <1>4, <1>11, OwingMoves
  <2>2. Owing(s)' = Owing(s) /\ \A p \in Owing(s) : request'[p] = request[p]
    BY <1>10, <2>1
  <2> QED BY <1>3, <1>5, <1>11, <2>2, BalanceSame
<1>12. BalanceOK'
  <2> SUFFICES ASSUME NEW s \in Review \ drifted', review'[s].step # "gone" PROVE Balanced(s)'
    BY DEF BalanceOK
  <2>1. Balanced(s)
    BY <1>3 DEF BalanceOK
  <2>2. CASE s # r
    BY <1>4, <1>7, <1>11, <2>1, <2>2
  <2>3. CASE s = r /\ before = Unrated
    <3>1. rating'[r] = rating[r]
      BY <1>2, <1>7, <2>3 DEF ShapesOK
    <3> QED BY <1>4, <1>11, <2>1, <2>3, <3>1
  <2>4. CASE s = r /\ before # Unrated
    <3>1. before = seen /\ seen \in Int
      BY <1>3, <2>4, ValueAssumption
    <3>2. x.step = "stats" /\ x.review = r /\ x.count = -1 /\ x.sum = -seen
      BY <1>4, <2>4, <3>1
    <3>3. Owing(r)' = Owing(r) \cup {q} /\ \A p \in Owing(r) : request'[p] = request[p]
      BY <1>4, <1>10, <3>2, OwingMoves
    <3>4. request'[q] = x
      BY <1>4, CallMoves
    <3>5. /\ Owed(r, "count")' = Owed(r, "count") + request'[q]["count"]
          /\ Owed(r, "sum")' = Owed(r, "sum") + request'[q]["sum"]
      BY <1>5, <1>10, <3>3, OwedGains DEF Column
    <3>6. /\ Given(r)' = Given(r) - seen
          /\ Cardinality(RatersOf(r)') = Cardinality(RatersOf(r)) - 1
      BY <1>2, <1>3, <2>4, <3>1, RatingTakenBack
    <3>7. /\ Owed(r, "count") \in Int /\ Owed(r, "sum") \in Int
          /\ review[r].count \in Int /\ review[r].sum \in Int
          /\ Given(r) \in Int /\ Cardinality(RatersOf(r)) \in Nat
      BY OwedTyped, RatersTyped DEF Column, ShapesOK, ReviewRow
    <3> QED BY <1>3, <2>1, <2>4, <3>1, <3>2, <3>4, <3>5, <3>6, <3>7 DEF Balanced
  <2> QED BY <2>2, <2>3, <2>4
<1>13. DeletionTakesRatings' /\ DeletionsOK'
  BY <1>3, <1>7, <1>8 DEF DeletionTakesRatings, DeletionsOK
<1> QED BY <1>5, <1>6, <1>9, <1>12, <1>13

-----------------------------------------------------------------------------
(* Ratings: steps of the reviews and their deletions *)

\* When no request moves, what is left are the reviews whose counters and ratings stay,
\* and those that somebody has deleted.
LEMMA ReviewsMoveInv ==
  ASSUME RatingsInv, ShapesOK', DeletionsOK', UNCHANGED <<request, drifted>>,
         \A r \in Review : /\ review[r].step # "new" => review'[r].step # "new"
                           /\ RatersOf(r)' \subseteq RatersOf(r)
                           /\ review'[r].step # "gone" => /\ review[r].step # "gone"
                                                          /\ review'[r].count = review[r].count
                                                          /\ review'[r].sum = review[r].sum
                                                          /\ rating'[r] = rating[r],
         DeletionTakesRatings'
  PROVE  RatingsInv'
<1> USE DEF RatingsInv
<1>1. CallsOK'
  BY DEF CallsOK, CallOK, ShapesOK, RatingCall
<1>2. \A r \in Review : Owing(r)' = Owing(r)
  BY DEF Owing
<1>3. FinitelyRated'
  BY <1>2, FS_Subset DEF FinitelyRated
<1>4. BalanceOK'
  BY <1>2, BalanceSame DEF BalanceOK
<1> QED BY <1>1, <1>3, <1>4

LEMMA WriteReviewInv ==
  ASSUME RatingsInv, NEW r \in Review, WriteReview(r)
  PROVE  RatingsInv'
<1> USE DEF RatingsInv
<1>1. /\ review[r].step = "new" /\ review' = [review EXCEPT ![r].step = "live"]
      /\ UNCHANGED <<rating, request, deletion, liked, drifted, orphaned, faults>>
  BY DEF WriteReview
<1>2. /\ review' \in [Review -> ReviewRow]
      /\ \A s \in Review : review'[s].count = review[s].count /\ review'[s].sum = review[s].sum
      /\ \A s \in Review \ {r} : review'[s] = review[s]
      /\ review'[r].step = "live"
  BY <1>1 DEF ShapesOK, ReviewRow
<1>3. ShapesOK' /\ DeletionsOK'
  BY <1>1, <1>2 DEF ShapesOK, DeletionsOK
<1>4. \A s \in Review : RatersOf(s)' = RatersOf(s)
  BY <1>1 DEF RatersOf
<1>5. DeletionTakesRatings'
  BY <1>1, <1>2, <1>4 DEF DeletionTakesRatings
<1> QED BY <1>1, <1>2, <1>3, <1>4, <1>5, ReviewsMoveInv

LEMMA DeletionQuietInv ==
  ASSUME RatingsInv, NEW d \in Deletion, NEW x \in DeletionRecord, deletion' = [deletion EXCEPT ![d] = x],
         x.step = "transaction" => x.stats.step = "live",
         UNCHANGED <<review, rating, request, liked, drifted, orphaned, faults>>
  PROVE  RatingsInv'
<1> USE DEF RatingsInv
<1>1. ShapesOK' /\ DeletionsOK'
  BY DEF ShapesOK, DeletionsOK
<1>2. \A s \in Review : RatersOf(s)' = RatersOf(s)
  BY DEF RatersOf
<1>3. DeletionTakesRatings'
  BY <1>2 DEF DeletionTakesRatings
<1> QED BY <1>1, <1>2, <1>3, ReviewsMoveInv

LEMMA BeginDeleteInv ==
  ASSUME RatingsInv, NEW d \in Deletion, NEW r \in Review, BeginDelete(d, r)
  PROVE  RatingsInv'
<1> DEFINE x == [step |-> "transaction", review |-> r, stats |-> review[r], ratings |-> rating[r]]
<1>1. review[r] \in ReviewRow /\ rating[r] \in [User -> Value \cup {Unrated}]
  BY DEF RatingsInv, ShapesOK
<1>2. x \in DeletionRecord /\ x.step = "transaction" /\ x.stats.step = "live"
  BY <1>1 DEF DeletionRecord, BeginDelete, IsLive
<1> QED BY <1>2, DeletionQuietInv DEF BeginDelete

LEMMA AbortDeleteInv ==
  ASSUME RatingsInv, NEW d \in Deletion, AbortDelete(d)
  PROVE  RatingsInv'
<1>1. [step |-> "done"] \in DeletionRecord
  BY DEF DeletionRecord
<1> QED BY <1>1, DeletionQuietInv DEF AbortDelete

LEMMA CommitDeleteInv ==
  ASSUME RatingsInv, NEW d \in Deletion, CommitDelete(d)
  PROVE  RatingsInv'
<1> USE DEF RatingsInv
<1>1. PICK r \in Review : /\ r = deletion[d].review /\ deletion[d].step = "transaction"
                          /\ review[r] = deletion[d].stats /\ review[r].step = "live"
  <2>1. deletion[d] \in DeletionRecord /\ deletion[d].step = "transaction"
    BY DEF ShapesOK, CommitDelete
  <2>2. deletion[d].review \in Review /\ deletion[d].stats.step = "live"
    BY <2>1 DEF DeletionRecord, DeletionsOK
  <2> QED BY <2>1, <2>2 DEF CommitDelete, Conflict
<1>2. /\ review' = [review EXCEPT ![r] = [NewReview EXCEPT !.step = "gone"]]
      /\ rating' = [rating EXCEPT ![r] = [u \in User |-> IF u \in DeletedRatings(d) THEN Unrated ELSE @[u]]]
      /\ orphaned' = orphaned \cup {<<r, u>> : u \in {x \in RatersOf(r) : deletion[d].ratings[x] = Unrated}}
      /\ deletion' = [deletion EXCEPT ![d] = [step |-> "done"]]
      /\ UNCHANGED <<request, liked, drifted, faults>>
  BY <1>1 DEF CommitDelete
<1>3. /\ review' \in [Review -> ReviewRow] /\ review'[r].step = "gone"
      /\ \A s \in Review \ {r} : review'[s] = review[s]
  BY <1>2 DEF ShapesOK, ReviewRow, NewReview
<1>4. /\ rating' \in [Review -> [User -> Value \cup {Unrated}]]
      /\ \A u \in User : rating'[r][u] = IF u \in DeletedRatings(d) THEN Unrated ELSE rating[r][u]
      /\ \A s \in Review \ {r} : rating'[s] = rating[s]
  BY <1>2 DEF ShapesOK
<1>5. /\ \A s \in Review \ {r} : RatersOf(s)' = RatersOf(s)
      /\ \A u \in RatersOf(r)' : u \in RatersOf(r) /\ deletion[d].ratings[u] = Unrated
  BY <1>4 DEF RatersOf, DeletedRatings
<1>6. ShapesOK'
  <2>1. deletion' \in [Deletion -> DeletionRecord]
    BY <1>2 DEF ShapesOK, DeletionRecord
  <2>2. orphaned' \subseteq Review \X User
    BY <1>2 DEF ShapesOK, RatersOf
  <2> QED BY <1>2, <1>3, <1>4, <2>1, <2>2 DEF ShapesOK
<1>7. DeletionsOK'
  BY <1>2 DEF DeletionsOK, ShapesOK
<1>8. DeletionTakesRatings'
  <2> SUFFICES ASSUME NEW s \in Review, review'[s].step = "gone", NEW u \in RatersOf(s)'
               PROVE  <<s, u>> \in orphaned'
    BY DEF DeletionTakesRatings
  <2>1. CASE s = r
    BY <1>2, <1>5, <2>1
  <2>2. CASE s # r
    BY <1>2, <1>3, <1>5, <2>2 DEF DeletionTakesRatings
  <2> QED BY <2>1, <2>2
<1> QED BY <1>1, <1>2, <1>3, <1>4, <1>5, <1>6, <1>7, <1>8, ReviewsMoveInv

-----------------------------------------------------------------------------
(* Ratings: theorems *)

LEMMA RatingsInitInv == RatingsInit => RatingsInv
<1> SUFFICES ASSUME RatingsInit PROVE RatingsInv
  OBVIOUS
<1> USE DEF RatingsInit
<1>1. ShapesOK
  BY ReviewUserExist, FaultsAssumption DEF ShapesOK, ReviewRow, NewReview, DeletionRecord
<1>2. CallsOK /\ DeletionsOK
  BY ReviewUserExist DEF CallsOK, CallOK, DeletionsOK
<1>3. \A r \in Review : Owing(r) = {} /\ RatersOf(r) = {}
  BY ReviewUserExist DEF Owing, RatersOf
<1>4. FinitelyRated
  BY <1>3, FS_EmptySet DEF FinitelyRated
<1>5. \A r \in Review : Balanced(r)
  <2> TAKE r \in Review
  <2>1. Owed(r, "count") = 0 /\ Owed(r, "sum") = 0 /\ Given(r) = 0
    BY <1>3, SumUnfold, FS_EmptySet, OwedIsSum, GivenIsSum
  <2>2. Cardinality(RatersOf(r)) = 0
    BY <1>3, FS_EmptySet
  <2>3. review[r].count = 0 /\ review[r].sum = 0
    BY DEF NewReview
  <2> QED BY <2>1, <2>2, <2>3 DEF Balanced
<1>6. BalanceOK /\ DeletionTakesRatings
  BY <1>3, <1>5 DEF BalanceOK, DeletionTakesRatings
<1> QED BY <1>1, <1>2, <1>4, <1>6 DEF RatingsInv

LEMMA RatingsNextInv == RatingsInv /\ [RatingsNext]_ratingsVars => RatingsInv'
<1> SUFFICES ASSUME RatingsInv, [RatingsNext]_ratingsVars PROVE RatingsInv'
  OBVIOUS
<1>1. ASSUME NEW q \in RatingRequest, Serve(q) PROVE RatingsInv'
  BY <1>1, EnsureInv, UpsertInv, UpdateStatsInv, PublishLikedInv, ReadRatingInv,
     DeleteRatingInv, CrashInv DEF Serve
<1>2. CASE \E r \in Review : WriteReview(r)
  BY <1>2, WriteReviewInv
<1>3. CASE \E d \in Deletion : (\E r \in Review : BeginDelete(d, r)) \/ CommitDelete(d) \/ AbortDelete(d)
  BY <1>3, BeginDeleteInv, CommitDeleteInv, AbortDeleteInv
<1>4. CASE UNCHANGED ratingsVars
  <2>1. ShapesOK' /\ DeletionsOK' /\ DeletionTakesRatings' /\ UNCHANGED <<review, rating, request, drifted>>
    BY <1>4 DEF RatingsInv, ratingsVars, ShapesOK, DeletionsOK, DeletionTakesRatings, RatersOf
  <2>2. \A r \in Review : RatersOf(r)' = RatersOf(r)
    BY <2>1 DEF RatersOf
  <2> QED BY <2>1, <2>2, ReviewsMoveInv
<1> QED BY <1>1, <1>2, <1>3, <1>4 DEF RatingsNext

LEMMA RatingsInvariance == RatingsSpec => []RatingsInv
BY RatingsInitInv, RatingsNextInv, PTL DEF RatingsSpec

\* Reviews, ratings and requests stay within their types: a request works for a user and
\* at a review there are, and only a like tells the author (_publish_review_liked).
THEOREM RatingsTypeCorrect == RatingsSpec => []RatingsTypeOK
<1>1. RatingsInv => RatingsTypeOK
  BY DEF RatingsInv, ShapesOK, CallsOK, CallOK, RatingsTypeOK, ReviewRow, RatingCall, RequestSteps, DeletionRecord
<1> QED BY <1>1, RatingsInvariance, PTL

\* rating_count and rating_sum, with what the requests between _upsert or _delete and
\* _update_review_stats have still to add, are the number and the sum of the ratings,
\* for any number of requests at once, but for the reviews a race of a removal or a
\* crash has put wrong.
THEOREM CountersFollow == RatingsSpec => []StatsFollowRatings
<1>1. RatingsInv => StatsFollowRatings
  BY DEF RatingsInv, BalanceOK, Balanced, Given, StatsFollowRatings, IsLive
<1> QED BY <1>1, RatingsInvariance, PTL

\* ReviewService.delete leaves no rating of the review but those given while its
\* transaction ran or after it.
THEOREM DeletionComplete == RatingsSpec => []DeletionTakesRatings
<1>1. RatingsInv => DeletionTakesRatings
  BY DEF RatingsInv
<1> QED BY <1>1, RatingsInvariance, PTL
=============================================================================
