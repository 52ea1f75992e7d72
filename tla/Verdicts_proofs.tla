----------------------------- MODULE Verdicts_proofs -----------------------------
(***************************************************************************)
(* Proofs about the services that come to a verdict on what they read.  Of *)
(* MultisigCompletion: what isComplete() says of an aggregate, for any     *)
(* networks of multisig accounts, signers and inner transactions.  Of      *)
(* BlockProof: what the proofs from REST are worth, for any chains, blocks *)
(* and trees, and however the chain changes between the requests; and that *)
(* a tree that is read from bytes is the one that was written.             *)
(***************************************************************************)
EXTENDS MultisigCompletion, BlockProof, FiniteSetTheorems, SequenceTheorems,
        WellFoundedInduction, TLAPS

-----------------------------------------------------------------------------
(* The completeness of an aggregate.                                        *)

(* Induction over the natural numbers, stated over a set.                   *)
LEMMA LeastOf ==
    ASSUME NEW T, T \subseteq Nat, T # {}
    PROVE  \E x \in T : \A y \in T : x <= y
<1> DEFINE R == OpToRel(<, Nat)
<1>1. \A a, b \in Nat : a < b => <<a, b>> \in R
  BY DEF OpToRel
<1>2. IsWellFoundedOn(R, Nat)
  BY NatLessThanWellFounded
<1> HIDE DEF R
<1>3. PICK x \in T : \A y \in T : ~ (<<y, x>> \in R)
  BY <1>2, WFMin
<1>4. ASSUME NEW y \in T PROVE x <= y
  <2>1. x \in Nat /\ y \in Nat
    OBVIOUS
  <2>2. ~(y < x)
    BY <1>1, <1>3, <2>1
  <2> QED
    BY <2>1, <2>2
<1> QED
  BY <1>4

LEMMA Induct ==
    ASSUME NEW S, 0 \in S, \A n \in Nat : n \in S => n + 1 \in S
    PROVE  \A n \in Nat : n \in S
<1> SUFFICES ASSUME Nat \ S # {} PROVE FALSE
  OBVIOUS
<1>1. PICK x \in Nat \ S : \A y \in Nat \ S : x <= y
  BY LeastOf
<1>2. x - 1 \in Nat /\ x - 1 + 1 = x
  OBVIOUS
<1>3. x - 1 \in S
  BY <1>1, <1>2
<1> QED
  BY <1>2, <1>3

(* What a function defined by steps is: it exists, and stays in its set.    *)
StepFunctions(N, S) == [1..N -> [S -> S]]
IsStepped(f, N, S, a, g) ==
    f \in [0..N -> S] /\ f[0] = a /\ \A n \in 1..N : f[n] = g[n][f[n - 1]]

LEMMA Stepped ==
    ASSUME NEW N \in Nat, NEW S, NEW a \in S, NEW g \in StepFunctions(N, S)
    PROVE  \E f : IsStepped(f, N, S, a, g)
<1> USE DEF StepFunctions
<1> DEFINE Upto(k, f) == f[0] = a /\ \A n \in 1..N : n <= k => f[n] = g[n][f[n - 1]]
           Good == {k \in Nat : \E f \in [0..N -> S] : Upto(k, f)}
<1>1. 0 \in Good
  <2> DEFINE h == [n \in 0..N |-> a]
  <2>1. h \in [0..N -> S] /\ h[0] = a
    OBVIOUS
  <2>2. \A n \in 1..N : ~(n <= 0)
    OBVIOUS
  <2> QED
    BY <2>1, <2>2
<1>2. ASSUME NEW k \in Nat, k \in Good PROVE k + 1 \in Good
  <2>1. PICK f \in [0..N -> S] : Upto(k, f)
    BY <1>2
  <2>2. CASE k + 1 > N
    <3>1. \A n \in 1..N : n <= k
      BY <2>2
    <3>2. Upto(k + 1, f)
      BY <2>1, <3>1
    <3> QED
      BY <3>2
  <2>3. CASE k + 1 <= N
    <3> DEFINE h == [f EXCEPT ![k + 1] = g[k + 1][f[k]]]
    <3>1. k \in 0..N /\ k + 1 \in 1..N /\ k + 1 \in 0..N
      BY <2>3
    <3>2. g[k + 1][f[k]] \in S
      BY <3>1
    <3>3. h \in [0..N -> S] /\ h[k + 1] = g[k + 1][f[k]]
      BY <3>1, <3>2
    <3>4. \A n \in 0..N : n <= k => h[n] = f[n]
      BY <3>1
    <3> HIDE DEF h
    <3>5. ASSUME NEW n \in 1..N, n <= k + 1 PROVE h[n] = g[n][h[n - 1]]
      <4>1. CASE n = k + 1
        <5>1. k <= k /\ k \in 0..N /\ n - 1 = k
          BY <4>1, <3>1
        <5> QED BY <3>3, <3>4, <4>1, <5>1
      <4>2. CASE n <= k
        <5>1. n - 1 \in 0..N /\ n - 1 <= k /\ n \in 0..N
          BY <4>2
        <5> QED BY <2>1, <3>4, <4>2, <5>1
      <4> QED BY <3>5, <4>1, <4>2
    <3>6. 0 \in 0..N /\ 0 <= k
      OBVIOUS
    <3>7. h[0] = a
      BY <2>1, <3>4, <3>6
    <3>8. Upto(k + 1, h)
      BY <3>5, <3>7
    <3> QED
      BY <3>3, <3>8
  <2> QED
    BY <2>2, <2>3
<1> HIDE DEF Good
<1>3. N \in Good
  BY <1>1, <1>2, Induct
<1>4. PICK f \in [0..N -> S] : Upto(N, f)
  BY <1>3 DEF Good
<1>5. \A n \in 1..N : n <= N
  OBVIOUS
<1>6. IsStepped(f, N, S, a, g)
  BY <1>4, <1>5 DEF IsStepped
<1> QED
  BY <1>6

LEMMA StaysIn ==
    ASSUME NEW N \in Nat, NEW S, NEW f, f[0] \in S,
           \A n \in 1..N : f[n - 1] \in S => f[n] \in S
    PROVE  \A n \in 0..N : f[n] \in S
<1> DEFINE Good == {k \in Nat : k <= N => f[k] \in S}
<1>1. 0 \in Good
  OBVIOUS
<1>2. ASSUME NEW k \in Nat, k \in Good PROVE k + 1 \in Good
  <2>1. CASE k + 1 > N
    <3>1. ~(k + 1 <= N) /\ k + 1 \in Nat
      BY <2>1
    <3> QED
      BY <3>1
  <2>2. CASE k + 1 <= N
    <3>1. k <= N /\ k + 1 \in 1..N /\ (k + 1) - 1 = k /\ k + 1 \in Nat
      BY <2>2
    <3>2. f[k + 1] \in S
      BY <1>2, <3>1
    <3> QED
      BY <3>1, <3>2
  <2> QED
    BY <2>1, <2>2
<1> HIDE DEF Good
<1>3. \A k \in Nat : k \in Good
  BY <1>1, <1>2, Induct
<1>4. ASSUME NEW n \in 0..N PROVE f[n] \in S
  <2>1. n \in Nat /\ n <= N
    OBVIOUS
  <2> QED
    BY <1>3, <2>1 DEF Good
<1> QED
  BY <1>4

-----------------------------------------------------------------------------
LEMMA DepthType == Depth \in Nat
BY AccountsAssumption, FS_CardinalityType DEF Depth

(* The levels below an account.                                             *)
LEMMA DownLevels ==
    ASSUME network \in Network, NEW root \in Accounts
    PROVE  /\ \A n \in 0..Depth : Down(root)[n] \in SUBSET Accounts
           /\ Down(root)[0] = {root}
           /\ \A n \in 1..Depth : Down(root)[n] = UNION {network.cosignatories[a] : a \in Down(root)[n - 1]}
<1> DEFINE below(A) == UNION {network.cosignatories[a] : a \in A}
           g == [n \in 1..Depth |-> [A \in SUBSET Accounts |-> below(A)]]
           f == Down(root)
<1>1. \A A \in SUBSET Accounts : below(A) \in SUBSET Accounts
  BY DEF Network
<1>2. g \in [1..Depth -> [SUBSET Accounts -> SUBSET Accounts]]
  BY <1>1
<1>3. PICK h : IsStepped(h, Depth, SUBSET Accounts, {root}, g)
  <2>1. g \in StepFunctions(Depth, SUBSET Accounts)
    BY <1>2 DEF StepFunctions
  <2> HIDE DEF g
  <2> QED
    BY <2>1, DepthType, Stepped
<1>4. h = [n \in 0..Depth |-> IF n = 0 THEN {root} ELSE below(h[n - 1])]
  <2>1. ASSUME NEW n \in 0..Depth PROVE h[n] = IF n = 0 THEN {root} ELSE below(h[n - 1])
    <3>1. CASE n # 0
      <4>1. n \in 1..Depth /\ n - 1 \in 0..Depth
        BY <3>1, DepthType
      <4>2. h[n - 1] \in SUBSET Accounts
        BY <1>3, <4>1 DEF IsStepped
      <4>3. g[n][h[n - 1]] = below(h[n - 1])
        BY <4>1, <4>2
      <4> HIDE DEF g, below
      <4> QED
        BY <1>3, <3>1, <4>1, <4>3 DEF IsStepped
    <3> QED
      BY <1>3, <3>1 DEF IsStepped
  <2> HIDE DEF below
  <2> QED
    BY <1>3, <2>1 DEF IsStepped
<1>5. f = [n \in 0..Depth |-> IF n = 0 THEN {root} ELSE below(f[n - 1])]
  BY <1>4 DEF Down
<1> HIDE DEF below, g, f
<1>6. f[0] = {root} /\ \A n \in 1..Depth : f[n] = below(f[n - 1])
  <2>1. 0 \in 0..Depth /\ \A n \in 1..Depth : n \in 0..Depth /\ n # 0
    BY DepthType
  <2>2. \A n \in 0..Depth : f[n] = IF n = 0 THEN {root} ELSE below(f[n - 1])
    BY <1>5
  <2> QED
    BY <2>1, <2>2
<1>7. \A n \in 0..Depth : f[n] \in SUBSET Accounts
  <2>1. f[0] \in SUBSET Accounts
    BY <1>6
  <2>2. \A n \in 1..Depth : f[n - 1] \in SUBSET Accounts => f[n] \in SUBSET Accounts
    BY <1>1, <1>6
  <2> QED
    BY <2>1, <2>2, StaysIn, DepthType
<1> QED
  BY <1>6, <1>7 DEF f, below

(* The levels above an account.                                             *)
LEMMA UpLevels ==
    ASSUME NEW root \in Accounts
    PROVE  /\ \A n \in 0..Depth : Up(root)[n] \in SUBSET Accounts
           /\ Up(root)[0] = {root}
           /\ \A n \in 1..Depth : Up(root)[n] =
                UNION {{m \in Accounts : a \in network.cosignatories[m]} : a \in Up(root)[n - 1]}
<1> DEFINE above(A) == UNION {{m \in Accounts : a \in network.cosignatories[m]} : a \in A}
           g == [n \in 1..Depth |-> [A \in SUBSET Accounts |-> above(A)]]
           f == Up(root)
<1>1. \A A \in SUBSET Accounts : above(A) \in SUBSET Accounts
  OBVIOUS
<1>2. g \in [1..Depth -> [SUBSET Accounts -> SUBSET Accounts]]
  BY <1>1
<1>3. PICK h : IsStepped(h, Depth, SUBSET Accounts, {root}, g)
  <2>1. g \in StepFunctions(Depth, SUBSET Accounts)
    BY <1>2 DEF StepFunctions
  <2> HIDE DEF g
  <2> QED
    BY <2>1, DepthType, Stepped
<1>4. h = [n \in 0..Depth |-> IF n = 0 THEN {root} ELSE above(h[n - 1])]
  <2>1. ASSUME NEW n \in 0..Depth PROVE h[n] = IF n = 0 THEN {root} ELSE above(h[n - 1])
    <3>1. CASE n # 0
      <4>1. n \in 1..Depth /\ n - 1 \in 0..Depth
        BY <3>1, DepthType
      <4>2. h[n - 1] \in SUBSET Accounts
        BY <1>3, <4>1 DEF IsStepped
      <4>3. g[n][h[n - 1]] = above(h[n - 1])
        BY <4>1, <4>2
      <4> HIDE DEF g, above
      <4> QED
        BY <1>3, <3>1, <4>1, <4>3 DEF IsStepped
    <3> QED
      BY <1>3, <3>1 DEF IsStepped
  <2> HIDE DEF above
  <2> QED
    BY <1>3, <2>1 DEF IsStepped
<1>5. f = [n \in 0..Depth |-> IF n = 0 THEN {root} ELSE above(f[n - 1])]
  BY <1>4 DEF Up
<1> HIDE DEF above, g, f
<1>6. f[0] = {root} /\ \A n \in 1..Depth : f[n] = above(f[n - 1])
  <2>1. 0 \in 0..Depth /\ \A n \in 1..Depth : n \in 0..Depth /\ n # 0
    BY DepthType
  <2>2. \A n \in 0..Depth : f[n] = IF n = 0 THEN {root} ELSE above(f[n - 1])
    BY <1>5
  <2> QED
    BY <2>1, <2>2
<1>7. \A n \in 0..Depth : f[n] \in SUBSET Accounts
  <2>1. f[0] \in SUBSET Accounts
    BY <1>6
  <2>2. \A n \in 1..Depth : f[n - 1] \in SUBSET Accounts => f[n] \in SUBSET Accounts
    BY <1>1, <1>6
  <2> QED
    BY <2>1, <2>2, StaysIn, DepthType
<1> QED
  BY <1>6, <1>7 DEF f, above

(* Who can be brought to approve, step by step.                             *)
Enough(a, A, removal) ==
    IsMultisig(network, a) /\ Cardinality(network.cosignatories[a] \intersect A) >= Required(a, removal)

LEMMA AuthorisedSteps ==
    ASSUME ToSet(signers) \in SUBSET Accounts, NEW removal
    PROVE  /\ \A n \in 0..Depth : AuthorisedBy(removal)[n] \in SUBSET Accounts
           /\ AuthorisedBy(removal)[0] = ToSet(signers)
           /\ \A n \in 1..Depth : AuthorisedBy(removal)[n] = AuthorisedBy(removal)[n - 1]
                \union {a \in Accounts : Enough(a, AuthorisedBy(removal)[n - 1], removal)}
<1> DEFINE more(A) == A \union {a \in Accounts : Enough(a, A, removal)}
           g == [n \in 1..Depth |-> [A \in SUBSET Accounts |-> more(A)]]
           f == AuthorisedBy(removal)
           top == ToSet(signers)
<1>1. \A A \in SUBSET Accounts : more(A) \in SUBSET Accounts
  OBVIOUS
<1>2. g \in [1..Depth -> [SUBSET Accounts -> SUBSET Accounts]]
  BY <1>1
<1>3. PICK h : IsStepped(h, Depth, SUBSET Accounts, top, g)
  <2>1. g \in StepFunctions(Depth, SUBSET Accounts) /\ top \in SUBSET Accounts
    BY <1>2 DEF StepFunctions
  <2> HIDE DEF g, top
  <2> QED
    BY <2>1, DepthType, Stepped
<1>4. h = [n \in 0..Depth |-> IF n = 0 THEN top ELSE more(h[n - 1])]
  <2>1. ASSUME NEW n \in 0..Depth PROVE h[n] = IF n = 0 THEN top ELSE more(h[n - 1])
    <3>1. CASE n # 0
      <4>1. n \in 1..Depth /\ n - 1 \in 0..Depth
        BY <3>1, DepthType
      <4>2. h[n - 1] \in SUBSET Accounts
        BY <1>3, <4>1 DEF IsStepped
      <4>3. g[n][h[n - 1]] = more(h[n - 1])
        BY <4>1, <4>2
      <4> HIDE DEF g, more, top
      <4> QED
        BY <1>3, <3>1, <4>1, <4>3 DEF IsStepped
    <3> QED
      BY <1>3, <3>1 DEF IsStepped
  <2> HIDE DEF more, top
  <2> QED
    BY <1>3, <2>1 DEF IsStepped
<1>5. f = [n \in 0..Depth |-> IF n = 0 THEN top ELSE more(f[n - 1])]
  BY <1>4 DEF AuthorisedBy, Enough, Required
<1> HIDE DEF more, g, f, top
<1>6. f[0] = top /\ \A n \in 1..Depth : f[n] = more(f[n - 1])
  <2>1. 0 \in 0..Depth /\ \A n \in 1..Depth : n \in 0..Depth /\ n # 0
    BY DepthType
  <2>2. \A n \in 0..Depth : f[n] = IF n = 0 THEN top ELSE more(f[n - 1])
    BY <1>5
  <2> QED
    BY <2>1, <2>2
<1>7. \A n \in 0..Depth : f[n] \in SUBSET Accounts
  <2>1. f[0] \in SUBSET Accounts
    BY <1>6 DEF top
  <2>2. \A n \in 1..Depth : f[n - 1] \in SUBSET Accounts => f[n] \in SUBSET Accounts
    BY <1>1, <1>6
  <2> QED
    BY <2>1, <2>2, StaysIn, DepthType
<1> QED
  BY <1>6, <1>7 DEF f, more, top

(* The states validateCosignatories goes through.                           *)
State == [received : Seq(Accounts), valid : BOOLEAN]

LEMMA CheckAccountType ==
    ASSUME NEW state \in State, NEW a \in Accounts, NEW removal
    PROVE  CheckAccount(state, a, removal) \in State
<1>1. PassedOn(state.received, a) \in Seq(Accounts)
  BY DEF PassedOn, State
<1>2. [received |-> PassedOn(state.received, a), valid |-> TRUE] \in State
  BY <1>1 DEF State
<1>3. [state EXCEPT !.valid = FALSE] \in State
  BY DEF State
<1> QED
  BY <1>2, <1>3 DEF CheckAccount

LEMMA AccountsSteps ==
    ASSUME NEW state \in State, NEW order \in Seq(Accounts), NEW level, NEW removal
    PROVE  LET f == AccountsChecked(state, order, level, removal)
           IN  /\ \A n \in 0..Len(order) : f[n] \in State
               /\ f[0] = state
               /\ \A n \in 1..Len(order) :
                    f[n] = IF order[n] \in level THEN CheckAccount(f[n - 1], order[n], removal) ELSE f[n - 1]
<1> DEFINE N == Len(order)
           check(n, s) == IF order[n] \in level THEN CheckAccount(s, order[n], removal) ELSE s
           g == [n \in 1..N |-> [s \in State |-> check(n, s)]]
           f == AccountsChecked(state, order, level, removal)
<1>0. N \in Nat /\ \A n \in 1..N : order[n] \in Accounts
  OBVIOUS
<1>1. \A n \in 1..N : \A s \in State : check(n, s) \in State
  BY <1>0, CheckAccountType
<1>2. g \in [1..N -> [State -> State]]
  <2> HIDE DEF N, check
  <2> QED
    BY <1>1
<1>3. PICK h : IsStepped(h, N, State, state, g)
  <2>1. g \in StepFunctions(N, State)
    BY <1>2 DEF StepFunctions
  <2> HIDE DEF g, N
  <2> QED
    BY <2>1, <1>0, Stepped
<1>4. h = [n \in 0..N |-> IF n = 0 THEN state ELSE check(n, h[n - 1])]
  <2> HIDE DEF N
  <2>1. ASSUME NEW n \in 0..N PROVE h[n] = IF n = 0 THEN state ELSE check(n, h[n - 1])
    <3>1. CASE n # 0
      <4>1. n \in 1..N /\ n - 1 \in 0..N
        BY <3>1, <1>0
      <4>2. h[n - 1] \in State
        BY <1>3, <4>1 DEF IsStepped
      <4> HIDE DEF check
      <4>3. g[n][h[n - 1]] = check(n, h[n - 1])
        BY <4>1, <4>2
      <4> HIDE DEF g
      <4> QED
        BY <1>3, <3>1, <4>1, <4>3 DEF IsStepped
    <3> QED
      BY <1>3, <3>1 DEF IsStepped
  <2> HIDE DEF check
  <2> QED
    BY <1>3, <2>1 DEF IsStepped
<1>5. f = [n \in 0..N |-> IF n = 0 THEN state ELSE check(n, f[n - 1])]
  BY <1>4 DEF AccountsChecked
<1> HIDE DEF check, g, f, N
<1>6. f[0] = state /\ \A n \in 1..N : f[n] = check(n, f[n - 1])
  <2>1. 0 \in 0..N /\ \A n \in 1..N : n \in 0..N /\ n # 0
    BY <1>0
  <2>2. \A n \in 0..N : f[n] = IF n = 0 THEN state ELSE check(n, f[n - 1])
    BY <1>5
  <2> QED
    BY <2>1, <2>2
<1>7. \A n \in 0..N : f[n] \in State
  <2>1. f[0] \in State
    BY <1>6
  <2>2. \A n \in 1..N : f[n - 1] \in State => f[n] \in State
    BY <1>1, <1>6
  <2> QED
    BY <2>1, <2>2, <1>0, StaysIn
<1> QED
  BY <1>6, <1>7 DEF f, check, N

LEMMA CheckLevelType ==
    ASSUME NEW state \in State, NEW order \in Seq(Accounts), NEW level, NEW removal
    PROVE  CheckLevel(state, order, level, removal) \in State
<1>1. Len(order) \in 0..Len(order)
  OBVIOUS
<1> QED
  BY <1>1, AccountsSteps DEF CheckLevel

LEMMA LevelsSteps ==
    ASSUME signers \in Seq(Accounts), NEW tx, NEW order \in Seq(Accounts)
    PROVE  LET f == LevelsChecked(tx, order)
           IN  /\ \A n \in 0..(2 * Depth + 1) : f[n] \in State
               /\ f[0] = [received |-> signers, valid |-> FALSE]
               /\ \A n \in 1..(2 * Depth + 1) :
                    f[n] = CheckLevel(f[n - 1], order, MultisigEntries(tx.signer)[Depth + 1 - n], tx.removal)
<1> DEFINE N == 2 * Depth + 1
           check(n, s) == CheckLevel(s, order, MultisigEntries(tx.signer)[Depth + 1 - n], tx.removal)
           g == [n \in 1..N |-> [s \in State |-> check(n, s)]]
           first == [received |-> signers, valid |-> FALSE]
           f == LevelsChecked(tx, order)
<1>0. N \in Nat /\ first \in State
  BY DepthType DEF State
<1>1. \A n \in 1..N : \A s \in State : check(n, s) \in State
  BY CheckLevelType
<1>2. g \in [1..N -> [State -> State]]
  <2> HIDE DEF N, check
  <2> QED
    BY <1>1
<1>3. PICK h : IsStepped(h, N, State, first, g)
  <2>1. g \in StepFunctions(N, State)
    BY <1>2 DEF StepFunctions
  <2> HIDE DEF g, N, first
  <2> QED
    BY <2>1, <1>0, Stepped
<1>4. h = [n \in 0..N |-> IF n = 0 THEN first ELSE check(n, h[n - 1])]
  <2> HIDE DEF N, first
  <2>1. ASSUME NEW n \in 0..N PROVE h[n] = IF n = 0 THEN first ELSE check(n, h[n - 1])
    <3>1. CASE n # 0
      <4>1. n \in 1..N /\ n - 1 \in 0..N
        BY <3>1, <1>0
      <4>2. h[n - 1] \in State
        BY <1>3, <4>1 DEF IsStepped
      <4> HIDE DEF check
      <4>3. g[n][h[n - 1]] = check(n, h[n - 1])
        BY <4>1, <4>2
      <4> HIDE DEF g
      <4> QED
        BY <1>3, <3>1, <4>1, <4>3 DEF IsStepped
    <3> QED
      BY <1>3, <3>1 DEF IsStepped
  <2> HIDE DEF check
  <2> QED
    BY <1>3, <2>1 DEF IsStepped
<1>5. f = [n \in 0..N |-> IF n = 0 THEN first ELSE check(n, f[n - 1])]
  BY <1>4 DEF LevelsChecked
<1> HIDE DEF check, g, f, N, first
<1>6. f[0] = first /\ \A n \in 1..N : f[n] = check(n, f[n - 1])
  <2>1. 0 \in 0..N /\ \A n \in 1..N : n \in 0..N /\ n # 0
    BY <1>0
  <2>2. \A n \in 0..N : f[n] = IF n = 0 THEN first ELSE check(n, f[n - 1])
    BY <1>5
  <2> QED
    BY <2>1, <2>2
<1>7. \A n \in 0..N : f[n] \in State
  <2>1. f[0] \in State
    BY <1>0, <1>6
  <2>2. \A n \in 1..N : f[n - 1] \in State => f[n] \in State
    BY <1>1, <1>6
  <2> QED
    BY <2>1, <2>2, <1>0, StaysIn
<1> QED
  BY <1>6, <1>7 DEF f, check, N, first

-----------------------------------------------------------------------------
(* Counting signatures.                                                     *)
CosignedBy(received, a) == {n \in DOMAIN received : received[n] \in network.cosignatories[a]}

LEMMA CosignedByFinite ==
    ASSUME NEW received \in Seq(Accounts), NEW a
    PROVE  IsFiniteSet(CosignedBy(received, a)) /\ Matched(received, a) = Cardinality(CosignedBy(received, a))
           /\ Matched(received, a) \in Nat
<1>1. IsFiniteSet(1..Len(received)) /\ DOMAIN received = 1..Len(received)
  BY FS_Interval
<1>2. IsFiniteSet(CosignedBy(received, a))
  BY <1>1, FS_Subset DEF CosignedBy
<1>3. Matched(received, a) = Cardinality(CosignedBy(received, a))
  BY DEF Matched, CosignedBy
<1> QED
  BY <1>2, <1>3, FS_CardinalityType

LEMMA FiniteAccounts ==
    ASSUME NEW A \in SUBSET Accounts
    PROVE  IsFiniteSet(A) /\ Cardinality(A) \in Nat
BY AccountsAssumption, FS_Subset, FS_CardinalityType

\* Every cosignatory whose signature was received counts.
LEMMA MatchedAtLeast ==
    ASSUME NEW received \in Seq(Accounts), NEW a, NEW A \in SUBSET Accounts,
           network.cosignatories[a] \intersect A \subseteq ToSet(received)
    PROVE  Cardinality(network.cosignatories[a] \intersect A) <= Matched(received, a)
<1> DEFINE P == CosignedBy(received, a)
           T == {received[n] : n \in P}
           C == network.cosignatories[a] \intersect A
           f == [n \in P |-> received[n]]
<1>1. IsFiniteSet(P) /\ Matched(received, a) = Cardinality(P) /\ Cardinality(P) \in Nat
  BY CosignedByFinite
<1>2. f \in Surjection(P, T)
  <2>1. f \in [P -> T] /\ \A t \in T : \E n \in P : f[n] = t
    OBVIOUS
  <2> HIDE DEF f, T, P
  <2> QED
    BY <2>1 DEF Surjection
<1>3. C \subseteq T
  BY DEF CosignedBy, ToSet
<1> HIDE DEF P, T, C, f
<1>4. IsFiniteSet(T) /\ Cardinality(T) <= Cardinality(P)
  BY <1>1, <1>2, FS_Surjection
<1>5. Cardinality(C) <= Cardinality(T) /\ Cardinality(C) \in Nat /\ Cardinality(T) \in Nat
  <2>1. IsFiniteSet(C) /\ Cardinality(C) <= Cardinality(T)
    BY <1>3, <1>4, FS_Subset
  <2> QED
    BY <2>1, <1>4, FS_CardinalityType
<1>6. Cardinality(C) <= Matched(received, a)
  BY <1>1, <1>4, <1>5
<1> QED
  BY <1>6 DEF C

\* If nobody signed twice, what counts is the cosignatories who signed.
LEMMA MatchedAtMost ==
    ASSUME NEW received \in Seq(Accounts), NEW a,
           \A m, n \in DOMAIN received : received[m] = received[n] => m = n
    PROVE  Matched(received, a) <= Cardinality(network.cosignatories[a] \intersect ToSet(received))
<1> DEFINE P == CosignedBy(received, a)
           C == network.cosignatories[a] \intersect ToSet(received)
           f == [n \in P |-> received[n]]
<1>1. Matched(received, a) = Cardinality(P)
  BY CosignedByFinite
<1>2. f \in Injection(P, C)
  <2>1. f \in [P -> C]
    BY DEF CosignedBy, ToSet
  <2>2. \A m, n \in P : f[m] = f[n] => m = n
    BY DEF CosignedBy
  <2> HIDE DEF f, C, P
  <2> QED
    BY <2>1, <2>2 DEF Injection, IsInjective
<1>3. IsFiniteSet(C)
  <2>1. C \in SUBSET Accounts
    BY DEF ToSet
  <2> QED
    BY <2>1, FiniteAccounts
<1> HIDE DEF P, C, f
<1>4. Cardinality(P) <= Cardinality(C)
  BY <1>2, <1>3, FS_Injection
<1> QED
  BY <1>1, <1>4 DEF C

-----------------------------------------------------------------------------
(* One level.  Those of E get enough from A, whose signatures among their   *)
(* cosignatories have been received.                                        *)
Served(E, A, received, removal) ==
    \A a \in E : Enough(a, A, removal) /\ network.cosignatories[a] \intersect A \subseteq ToSet(received)

LEMMA PassedOnGrows ==
    ASSUME NEW received \in Seq(Accounts), NEW a \in Accounts
    PROVE  ToSet(PassedOn(received, a)) = ToSet(received) \union {a}
<1>1. CASE a \in ToSet(received)
  BY <1>1 DEF PassedOn
<1>2. CASE a \notin ToSet(received)
  <2> DEFINE longer == Append(received, a)
  <2>1. PassedOn(received, a) = longer
    BY <1>2 DEF PassedOn
  <2>2. /\ DOMAIN longer = 1..(Len(received) + 1) /\ longer[Len(received) + 1] = a
        /\ \A n \in 1..Len(received) : longer[n] = received[n]
        /\ DOMAIN received = 1..Len(received) /\ Len(received) \in Nat
    OBVIOUS
  <2> HIDE DEF longer
  <2>3. ToSet(longer) \subseteq ToSet(received) \union {a}
    <3> SUFFICES ASSUME NEW n \in DOMAIN longer PROVE longer[n] \in ToSet(received) \union {a}
      BY DEF ToSet
    <3>1. CASE n = Len(received) + 1
      BY <2>2, <3>1
    <3>2. CASE n \in 1..Len(received)
      BY <2>2, <3>2 DEF ToSet
    <3> QED
      BY <2>2, <3>1, <3>2
  <2>4. a \in ToSet(longer)
    <3>1. Len(received) + 1 \in DOMAIN longer
      BY <2>2
    <3> QED
      BY <2>2, <3>1 DEF ToSet
  <2>5. ToSet(received) \subseteq ToSet(longer)
    <3> SUFFICES ASSUME NEW n \in DOMAIN received PROVE received[n] \in ToSet(longer)
      BY DEF ToSet
    <3>1. n \in DOMAIN longer /\ longer[n] = received[n]
      BY <2>2
    <3> QED
      BY <3>1 DEF ToSet
  <2> QED
    BY <2>1, <2>3, <2>4, <2>5
<1> QED
  BY <1>1, <1>2

LEMMA AccountChecked ==
    ASSUME network \in Network, NEW state \in State, NEW a \in Accounts, NEW removal
    PROVE  /\ ToSet(state.received) \subseteq ToSet(CheckAccount(state, a, removal).received)
           /\ \A A \in SUBSET Accounts :
                Enough(a, A, removal) /\ network.cosignatories[a] \intersect A \subseteq ToSet(state.received)
                  => /\ CheckAccount(state, a, removal).valid
                     /\ a \in ToSet(CheckAccount(state, a, removal).received)
<1>0. state.received \in Seq(Accounts)
  BY DEF State
<1>1. CASE Matched(state.received, a) >= Required(a, removal)
  <2>1. CheckAccount(state, a, removal) = [received |-> PassedOn(state.received, a), valid |-> TRUE]
    BY <1>1 DEF CheckAccount
  <2> QED
    BY <1>0, <2>1, PassedOnGrows
<1>2. CASE ~(Matched(state.received, a) >= Required(a, removal))
  <2>1. CheckAccount(state, a, removal).received = state.received
    BY <1>2 DEF CheckAccount, State
  <2>2. ASSUME NEW A \in SUBSET Accounts, Enough(a, A, removal),
               network.cosignatories[a] \intersect A \subseteq ToSet(state.received)
        PROVE  FALSE
    <3>1. Cardinality(network.cosignatories[a] \intersect A) <= Matched(state.received, a)
      BY <1>0, <2>2, MatchedAtLeast
    <3>2. Cardinality(network.cosignatories[a] \intersect A) \in Nat /\ Matched(state.received, a) \in Nat
          /\ Required(a, removal) \in Nat
      <4>1. network.cosignatories[a] \intersect A \in SUBSET Accounts
        OBVIOUS
      <4>2. Required(a, removal) \in Nat
        BY DEF Required, Network
      <4> QED
        BY <4>1, <4>2, <1>0, FiniteAccounts, CosignedByFinite
    <3> QED
      BY <1>2, <2>2, <3>1, <3>2 DEF Enough
  <2> QED
    BY <2>1, <2>2
<1> QED
  BY <1>1, <1>2

\* After a level, all of E that are on it have been received, and an account that is the
\* only one of its level and in E has made the level valid.
LEMMA AccountsPass ==
    ASSUME network \in Network, NEW state \in State, NEW order \in Seq(Accounts), NEW level,
           NEW removal, NEW A \in SUBSET Accounts, NEW E \in SUBSET Accounts,
           Served(E, A, state.received, removal), NEW n \in 0..Len(order)
    PROVE  LET after == AccountsChecked(state, order, level, removal)[n]
           IN  /\ after \in State
               /\ ToSet(state.received) \subseteq ToSet(after.received)
               /\ \A m \in 1..n : order[m] \in level \intersect E => order[m] \in ToSet(after.received)
               /\ level \subseteq E /\ (\E m \in 1..n : order[m] \in level) => after.valid
<1> DEFINE f == AccountsChecked(state, order, level, removal)
           N == Len(order)
           Kept(k) == ToSet(state.received) \subseteq ToSet(f[k].received)
           Received(k) == \A m \in 1..k : order[m] \in level \intersect E => order[m] \in ToSet(f[k].received)
           Valid(k) == level \subseteq E /\ (\E m \in 1..k : order[m] \in level) => f[k].valid
           Good == {k \in Nat : k <= N => Kept(k) /\ Received(k) /\ Valid(k)}
<1>1. N \in Nat /\ \A k \in 1..N : order[k] \in Accounts
  OBVIOUS
<1>2. /\ \A k \in 0..N : f[k] \in State
      /\ f[0] = state
      /\ \A k \in 1..N : f[k] = IF order[k] \in level THEN CheckAccount(f[k - 1], order[k], removal) ELSE f[k - 1]
  BY AccountsSteps
<1> HIDE DEF f, N
<1>3. 0 \in Good
  <2>1. \A m \in 1..0 : FALSE
    OBVIOUS
  <2>2. Kept(0) /\ Received(0) /\ Valid(0)
    BY <1>2, <2>1
  <2> QED
    BY <2>2
<1>4. ASSUME NEW k \in Nat, k \in Good PROVE k + 1 \in Good
  <2> SUFFICES ASSUME k + 1 <= N PROVE Kept(k + 1) /\ Received(k + 1) /\ Valid(k + 1)
    OBVIOUS
  <2>1. /\ k <= N /\ k + 1 \in 1..N /\ k \in 0..N /\ (k + 1) - 1 = k
        /\ \A m \in 1..(k + 1) : m = k + 1 \/ m \in 1..k
        /\ \A m \in 1..k : m \in 1..(k + 1)
    BY <1>1
  <2>2. Kept(k) /\ Received(k) /\ Valid(k)
    BY <1>4, <2>1
  <2>3. f[k] \in State /\ order[k + 1] \in Accounts
    BY <1>1, <1>2, <2>1
  <2>4. CASE order[k + 1] \notin level
    <3>1. f[k + 1] = f[k]
      BY <1>2, <2>1, <2>4
    <3> QED
      BY <2>1, <2>2, <2>4, <3>1
  <2>5. CASE order[k + 1] \in level
    <3>1. f[k + 1] = CheckAccount(f[k], order[k + 1], removal)
      BY <1>2, <2>1, <2>5
    <3>2. ToSet(f[k].received) \subseteq ToSet(f[k + 1].received)
      BY <2>3, <3>1, AccountChecked
    <3>3. order[k + 1] \in E => f[k + 1].valid /\ order[k + 1] \in ToSet(f[k + 1].received)
      <4> SUFFICES ASSUME order[k + 1] \in E
                   PROVE  f[k + 1].valid /\ order[k + 1] \in ToSet(f[k + 1].received)
        OBVIOUS
      <4>1. /\ Enough(order[k + 1], A, removal)
            /\ network.cosignatories[order[k + 1]] \intersect A \subseteq ToSet(f[k].received)
        BY <2>2 DEF Served
      <4> QED
        BY <2>3, <3>1, <4>1, AccountChecked
    <3>4. Kept(k + 1)
      BY <2>2, <3>2
    <3>5. Received(k + 1)
      BY <2>1, <2>2, <3>2, <3>3
    <3>6. Valid(k + 1)
      BY <2>5, <3>3
    <3> QED
      BY <3>4, <3>5, <3>6
  <2> QED
    BY <2>4, <2>5
<1> HIDE DEF Good
<1>5. \A k \in Nat : k \in Good
  BY <1>3, <1>4, Induct
<1>6. n \in Nat /\ n <= N /\ n \in 0..N
  BY <1>1 DEF N
<1>7. Kept(n) /\ Received(n) /\ Valid(n) /\ f[n] \in State
  BY <1>2, <1>5, <1>6 DEF Good
<1> QED
  BY <1>7 DEF f

LEMMA LevelPasses ==
    ASSUME network \in Network, NEW state \in State, NEW order \in Seq(Accounts), NEW level,
           NEW removal, NEW A \in SUBSET Accounts, NEW E \in SUBSET Accounts,
           Served(E, A, state.received, removal), ~state.valid
    PROVE  LET after == CheckLevel(state, order, level, removal)
           IN  /\ after \in State
               /\ ToSet(state.received) \subseteq ToSet(after.received)
               /\ level \intersect E \intersect ToSet(order) \subseteq ToSet(after.received)
               /\ level \subseteq E /\ level \intersect ToSet(order) # {} => after.valid
<1> DEFINE after == CheckLevel(state, order, level, removal)
           N == Len(order)
<1>1. after = AccountsChecked(state, order, level, removal)[N]
  BY DEF CheckLevel
<1>2. N \in 0..N /\ DOMAIN order = 1..N
  OBVIOUS
<1> HIDE DEF N, after
<1>3. /\ after \in State
      /\ ToSet(state.received) \subseteq ToSet(after.received)
      /\ \A m \in 1..N : order[m] \in level \intersect E => order[m] \in ToSet(after.received)
      /\ level \subseteq E /\ (\E m \in 1..N : order[m] \in level) => after.valid
  BY <1>1, <1>2, AccountsPass DEF N
<1>4. \A a \in ToSet(order) : \E m \in 1..N : order[m] = a
  BY <1>2 DEF ToSet
<1>5. level \intersect E \intersect ToSet(order) \subseteq ToSet(after.received)
  BY <1>3, <1>4
<1>6. level \subseteq E /\ level \intersect ToSet(order) # {} => after.valid
  BY <1>3, <1>4
<1> QED
  BY <1>3, <1>5, <1>6 DEF after

-----------------------------------------------------------------------------
(* The graph: which accounts are multisig accounts, and on which level.     *)
Multisigs == {a \in Accounts : IsMultisig(network, a)}
InnerTransaction == [signer : Accounts, removal : BOOLEAN]

LEMMA Entries ==
    ASSUME NEW root
    PROVE  /\ \A k \in 0..Depth : MultisigEntries(root)[k] = Down(root)[k]
           /\ \A k \in 1..Depth : MultisigEntries(root)[-k] = IF ListsAbove THEN Up(root)[k] ELSE {}
<1>1. ASSUME NEW k \in 0..Depth PROVE MultisigEntries(root)[k] = Down(root)[k]
  <2>1. k \in -Depth..Depth /\ k >= 0
    BY DepthType
  <2> QED
    BY <2>1 DEF MultisigEntries
<1>2. ASSUME NEW k \in 1..Depth PROVE MultisigEntries(root)[-k] = IF ListsAbove THEN Up(root)[k] ELSE {}
  <2>1. -k \in -Depth..Depth /\ ~(-k >= 0) /\ -(-k) = k
    BY DepthType
  <2> QED
    BY <2>1 DEF MultisigEntries
<1> QED
  BY <1>1, <1>2

LEMMA OrderedOnce ==
    ASSUME NEW order \in SetToSeqs(Multisigs)
    PROVE  order \in Seq(Accounts) /\ ToSet(order) = Multisigs
<1> DEFINE N == Cardinality(Multisigs)
<1>1. IsFiniteSet(Multisigs) /\ N \in Nat
  BY FiniteAccounts DEF Multisigs
<1>2. order \in [1..N -> Multisigs] /\ \A i, j \in 1..N : i # j => order[i] # order[j]
  BY DEF SetToSeqs
<1>3. order \in Injection(1..N, Multisigs)
  <2> HIDE DEF N
  <2> QED
    BY <1>2 DEF Injection, IsInjective
<1>4. IsFiniteSet(1..N) /\ Cardinality(1..N) = N
  <2> HIDE DEF N
  <2>1. Cardinality(1..N) = IF 1 > N THEN 0 ELSE N - 1 + 1
    BY <1>1, FS_Interval
  <2> QED
    BY <1>1, <2>1, FS_Interval
<1>5. order \in Surjection(1..N, Multisigs)
  BY <1>1, <1>3, <1>4, FS_Injection
<1> HIDE DEF N
<1>6. \A a \in Multisigs : \E n \in 1..N : order[n] = a
  BY <1>5 DEF Surjection
<1>7. order \in Seq(Accounts)
  <2>1. Multisigs \subseteq Accounts
    BY DEF Multisigs
  <2>2. order \in [1..N -> Accounts]
    BY <1>2, <2>1
  <2> QED
    BY <1>1, <2>2, SeqDef
<1>8. ToSet(order) = Multisigs
  BY <1>2, <1>6 DEF ToSet
<1> QED
  BY <1>7, <1>8

(* Who is authorised in n steps signed, or got enough in n - 1.             *)
LEMMA EnoughGrows ==
    ASSUME network \in Network, NEW removal, NEW a \in Accounts,
           NEW B \in SUBSET Accounts, NEW A \in SUBSET B, Enough(a, A, removal)
    PROVE  Enough(a, B, removal)
<1>1. Cardinality(network.cosignatories[a] \intersect A) <= Cardinality(network.cosignatories[a] \intersect B)
  <2>1. IsFiniteSet(network.cosignatories[a] \intersect B)
    BY FiniteAccounts
  <2>2. network.cosignatories[a] \intersect A \in SUBSET (network.cosignatories[a] \intersect B)
    OBVIOUS
  <2> QED
    BY <2>1, <2>2, FS_Subset
<1>2. /\ Cardinality(network.cosignatories[a] \intersect A) \in Nat
      /\ Cardinality(network.cosignatories[a] \intersect B) \in Nat /\ Required(a, removal) \in Nat
  <2>1. Required(a, removal) \in Nat
    BY DEF Required, Network
  <2>2. network.cosignatories[a] \intersect A \in SUBSET Accounts
        /\ network.cosignatories[a] \intersect B \in SUBSET Accounts
    OBVIOUS
  <2> QED
    BY <2>1, <2>2, FiniteAccounts
<1> QED
  BY <1>1, <1>2 DEF Enough

LEMMA SignedOrEnough ==
    ASSUME network \in Network, ToSet(signers) \in SUBSET Accounts, NEW removal,
           NEW n \in 1..Depth, NEW a \in AuthorisedBy(removal)[n]
    PROVE  a \in ToSet(signers) \/ Enough(a, AuthorisedBy(removal)[n - 1], removal)
<1> DEFINE by == AuthorisedBy(removal)
           Good == {k \in Nat : k + 1 <= Depth =>
                      \A x \in by[k + 1] : x \in ToSet(signers) \/ Enough(x, by[k], removal)}
<1>1. /\ \A k \in 0..Depth : by[k] \in SUBSET Accounts
      /\ by[0] = ToSet(signers)
      /\ \A k \in 1..Depth : by[k] = by[k - 1] \union {x \in Accounts : Enough(x, by[k - 1], removal)}
  BY AuthorisedSteps
<1> HIDE DEF by
<1>2. 0 \in Good
  <2> SUFFICES ASSUME 0 + 1 <= Depth
               PROVE  \A x \in by[0 + 1] : x \in ToSet(signers) \/ Enough(x, by[0], removal)
    OBVIOUS
  <2>1. 0 + 1 \in 1..Depth /\ (0 + 1) - 1 = 0
    BY DepthType
  <2>2. by[0 + 1] = by[0] \union {x \in Accounts : Enough(x, by[0], removal)}
    BY <1>1, <2>1
  <2> QED
    BY <1>1, <2>2
<1>3. ASSUME NEW k \in Nat, k \in Good PROVE k + 1 \in Good
  <2> SUFFICES ASSUME (k + 1) + 1 <= Depth, NEW x \in by[(k + 1) + 1]
               PROVE  x \in ToSet(signers) \/ Enough(x, by[k + 1], removal)
    OBVIOUS
  <2>1. /\ k + 1 <= Depth /\ k \in 0..Depth /\ k + 1 \in 1..Depth /\ (k + 1) - 1 = k /\ k + 1 \in 0..Depth
        /\ (k + 1) + 1 \in 1..Depth /\ ((k + 1) + 1) - 1 = k + 1
    BY DepthType
  <2>2. x \in by[k + 1] \/ Enough(x, by[k + 1], removal)
    BY <1>1, <2>1
  <2>3. ASSUME x \in by[k + 1], x \notin ToSet(signers) PROVE Enough(x, by[k + 1], removal)
    <3>1. Enough(x, by[k], removal)
      BY <1>3, <2>1, <2>3
    <3>2. by[k] \in SUBSET by[k + 1] /\ by[k + 1] \in SUBSET Accounts
      BY <1>1, <2>1
    <3> QED
      BY <2>3, <3>1, <3>2, EnoughGrows
  <2> QED
    BY <2>2, <2>3
<1> HIDE DEF Good
<1>4. n - 1 \in Good /\ (n - 1) + 1 = n /\ n <= Depth
  <2>1. n - 1 \in Nat /\ (n - 1) + 1 = n /\ n <= Depth
    BY DepthType
  <2> QED
    BY <1>2, <1>3, <2>1, Induct
<1> QED
  BY <1>4 DEF Good, by

(* Once a level has been found valid, it stays so.                          *)
LEMMA ValidStays ==
    ASSUME signers \in Seq(Accounts), NEW tx, NEW order \in Seq(Accounts), NEW m \in 0..(2 * Depth + 1),
           LevelsChecked(tx, order)[m].valid
    PROVE  ValidateCosignatories(tx, order)
<1> DEFINE f == LevelsChecked(tx, order)
           N == 2 * Depth + 1
           Good == {k \in Nat : m + k <= N => f[m + k].valid}
<1>1. N \in Nat
  BY DepthType
<1>2. \A n \in 1..N : f[n - 1].valid => f[n] = f[n - 1]
  BY LevelsSteps DEF CheckLevel
<1>3. f[m].valid /\ m \in Nat /\ m <= N
  BY <1>1
<1>4. ValidateCosignatories(tx, order) = f[N].valid
  BY DEF ValidateCosignatories
<1> HIDE DEF f, N
<1>5. 0 \in Good
  BY <1>3
<1>6. ASSUME NEW k \in Nat, k \in Good PROVE k + 1 \in Good
  <2> SUFFICES ASSUME m + (k + 1) <= N PROVE f[m + (k + 1)].valid
    OBVIOUS
  <2>1. m + k <= N /\ m + (k + 1) \in 1..N /\ (m + (k + 1)) - 1 = m + k
    BY <1>1, <1>3
  <2>2. f[m + k].valid
    BY <1>6, <2>1
  <2> QED
    BY <1>2, <2>1, <2>2
<1> HIDE DEF Good
<1>7. N - m \in Good /\ m + (N - m) = N
  <2>1. N - m \in Nat /\ m + (N - m) = N
    BY <1>1, <1>3
  <2> QED
    BY <1>5, <1>6, <2>1, Induct
<1> QED
  BY <1>1, <1>4, <1>7 DEF Good

LEMMA SomeDepth == ASSUME NEW a \in Accounts PROVE Depth >= 1
<1>1. Depth # 0
  BY AccountsAssumption, FS_EmptySet DEF Depth
<1> QED
  BY <1>1, DepthType

LEMMA SignersAreAccounts ==
    ASSUME signers \in Seq(Accounts)
    PROVE  ToSet(signers) \in SUBSET Accounts
BY DEF ToSet

-----------------------------------------------------------------------------
(* From the deepest level upwards, what is authorised has been received     *)
(* when its level is left, unless a level was found valid before.           *)
Left(tx, order, n) ==
    LET state == LevelsChecked(tx, order)[n]
    IN  \/ state.valid
        \/ /\ ToSet(signers) \subseteq ToSet(state.received)
           /\ n >= 1 => AuthorisedBy(tx.removal)[n - 1] \intersect MultisigEntries(tx.signer)[Depth + 1 - n]
                          \subseteq ToSet(state.received)

\* The authorised accounts of the next level have all it takes.
LEMMA NextServed ==
    ASSUME network \in Network, signers \in Seq(Accounts), NEW tx \in InnerTransaction, NEW order \in Seq(Accounts),
           NEW n \in 1..Depth, Left(tx, order, n), ~LevelsChecked(tx, order)[n].valid
    PROVE  Served({a \in AuthorisedBy(tx.removal)[n] \intersect MultisigEntries(tx.signer)[Depth - n] :
                     a \notin ToSet(signers)},
                  AuthorisedBy(tx.removal)[n - 1], LevelsChecked(tx, order)[n].received, tx.removal)
<1> DEFINE by == AuthorisedBy(tx.removal)
           received == LevelsChecked(tx, order)[n].received
           E == {a \in by[n] \intersect MultisigEntries(tx.signer)[Depth - n] : a \notin ToSet(signers)}
<1>1. by[n - 1] \intersect MultisigEntries(tx.signer)[Depth + 1 - n] \subseteq ToSet(received)
  BY DEF Left
<1>2. ASSUME NEW a \in E PROVE Enough(a, by[n - 1], tx.removal)
  BY SignedOrEnough, SignersAreAccounts
<1>3. ASSUME NEW a \in E PROVE network.cosignatories[a] \subseteq MultisigEntries(tx.signer)[Depth + 1 - n]
  <2>1. /\ Depth - n \in 0..Depth /\ Depth + 1 - n \in 1..Depth /\ (Depth + 1 - n) - 1 = Depth - n
        /\ Depth + 1 - n \in 0..Depth /\ tx.signer \in Accounts
    BY DepthType DEF InnerTransaction
  <2>2. /\ MultisigEntries(tx.signer)[Depth - n] = Down(tx.signer)[Depth - n]
        /\ MultisigEntries(tx.signer)[Depth + 1 - n] = Down(tx.signer)[Depth + 1 - n]
    BY <2>1, Entries
  <2>3. Down(tx.signer)[Depth + 1 - n] = UNION {network.cosignatories[x] : x \in Down(tx.signer)[Depth - n]}
    BY <2>1, DownLevels
  <2> QED
    BY <2>2, <2>3
<1> HIDE DEF by, received
<1> QED
  BY <1>1, <1>2, <1>3 DEF Served, by, received

LEMMA NextLeft ==
    ASSUME network \in Network, signers \in Seq(Accounts), NEW tx \in InnerTransaction,
           NEW order \in Seq(Accounts), ToSet(order) = Multisigs,
           NEW n \in 0..Depth, n + 1 <= Depth, Left(tx, order, n)
    PROVE  Left(tx, order, n + 1)
<1> DEFINE f == LevelsChecked(tx, order)
           by == AuthorisedBy(tx.removal)
           level == MultisigEntries(tx.signer)[Depth - n]
           E == {a \in by[n] \intersect level : a \notin ToSet(signers)}
<1>1. /\ n + 1 \in 1..(2 * Depth + 1) /\ n \in 0..(2 * Depth + 1) /\ (n + 1) - 1 = n
      /\ Depth + 1 - (n + 1) = Depth - n /\ n + 1 >= 1
  BY DepthType
<1>2. f[n] \in State /\ f[n + 1] = CheckLevel(f[n], order, level, tx.removal)
  BY <1>1, LevelsSteps
<1>3. /\ \A k \in 0..Depth : by[k] \in SUBSET Accounts
      /\ by[0] = ToSet(signers)
  BY SignersAreAccounts, AuthorisedSteps
<1>4. CASE f[n].valid
  <2>1. f[n + 1].valid
    BY <1>2, <1>4 DEF CheckLevel
  <2> QED
    BY <2>1 DEF Left
<1>5. CASE ~f[n].valid /\ n = 0
  <2>1. ToSet(signers) \subseteq ToSet(f[n].received)
    BY <1>5 DEF Left
  <2>2. ToSet(f[n].received) \subseteq ToSet(f[n + 1].received)
    <3> DEFINE nobody == {}
    <3>1. Served(nobody, nobody, f[n].received, tx.removal) /\ nobody \in SUBSET Accounts
      BY DEF Served
    <3> HIDE DEF nobody, f, level
    <3> QED
      BY <1>2, <1>5, <3>1, LevelPasses
  <2>3. by[n] \subseteq ToSet(f[n + 1].received)
    BY <1>3, <1>5, <2>1, <2>2
  <2> HIDE DEF f, by
  <2> QED
    BY <1>1, <2>1, <2>2, <2>3 DEF Left, f, by
<1>6. CASE ~f[n].valid /\ n # 0
  <2>1. n \in 1..Depth /\ n - 1 \in 0..Depth
    BY <1>6, DepthType
  <2>2. Served(E, by[n - 1], f[n].received, tx.removal)
    BY <1>6, <2>1, NextServed
  <2>3. by[n - 1] \in SUBSET Accounts /\ E \in SUBSET Accounts
    BY <1>3, <2>1
  <2>4. E \subseteq ToSet(order)
    BY <2>2, <2>3 DEF Served, Enough, Multisigs
  <2>5. ToSet(signers) \subseteq ToSet(f[n].received)
    BY <1>6 DEF Left
  <2> HIDE DEF E
  <2>6. /\ ToSet(f[n].received) \subseteq ToSet(f[n + 1].received)
        /\ level \intersect E \intersect ToSet(order) \subseteq ToSet(f[n + 1].received)
    BY <1>2, <1>6, <2>2, <2>3, LevelPasses
  <2>7. by[n] \intersect level \subseteq ToSet(f[n + 1].received)
    BY <2>4, <2>5, <2>6 DEF E
  <2> HIDE DEF f, by, level
  <2> QED
    BY <1>1, <2>5, <2>6, <2>7 DEF Left, f, by, level
<1> QED
  BY <1>4, <1>5, <1>6

\* A multisig account whose requirement is met from the signers upwards is validated.
LEMMA CompleteValidates ==
    ASSUME network \in Network, signers \in Seq(Accounts), NEW tx \in InnerTransaction,
           NEW order \in Seq(Accounts), ToSet(order) = Multisigs,
           IsMultisig(network, tx.signer), tx.signer \notin ToSet(signers),
           tx.signer \in Authorised(tx.removal)
    PROVE  ValidateCosignatories(tx, order)
<1> DEFINE Good == {n \in Nat : n <= Depth => Left(tx, order, n)}
           f == LevelsChecked(tx, order)
           root == tx.signer
<1>0. root \in Accounts /\ Depth \in Nat /\ Depth >= 1
  BY DepthType, SomeDepth DEF InnerTransaction
<1>1. 0 \in Good
  <2>1. f[0] = [received |-> signers, valid |-> FALSE]
    BY LevelsSteps
  <2>2. ~(0 >= 1)
    OBVIOUS
  <2>3. Left(tx, order, 0)
    BY <2>1, <2>2 DEF Left
  <2> QED
    BY <2>3
<1>2. ASSUME NEW n \in Nat, n \in Good PROVE n + 1 \in Good
  <2> SUFFICES ASSUME n + 1 <= Depth PROVE Left(tx, order, n + 1)
    OBVIOUS
  <2>1. n \in 0..Depth /\ n <= Depth
    BY DepthType
  <2>2. Left(tx, order, n)
    BY <1>2, <2>1
  <2> QED
    BY <2>1, <2>2, NextLeft
<1> HIDE DEF Good
<1>3. Left(tx, order, Depth)
  <2>1. Depth \in Good
    BY <1>0, <1>1, <1>2, Induct
  <2> QED
    BY <1>0, <2>1 DEF Good
<1>4. Depth \in 0..(2 * Depth + 1) /\ Depth + 1 \in 1..(2 * Depth + 1) /\ Depth + 1 \in 0..(2 * Depth + 1)
      /\ (Depth + 1) - 1 = Depth /\ Depth + 1 - (Depth + 1) = 0 /\ Depth \in 1..Depth /\ 0 \in 0..Depth
      /\ Depth - Depth = 0 /\ Depth \in 0..Depth /\ Depth - 1 \in 0..Depth
  BY <1>0
<1>5. CASE f[Depth].valid
  BY <1>4, <1>5, ValidStays
<1>6. CASE ~f[Depth].valid
  <2> DEFINE E == {a \in AuthorisedBy(tx.removal)[Depth] \intersect MultisigEntries(root)[0] : a \notin ToSet(signers)}
             A == AuthorisedBy(tx.removal)[Depth - 1]
             level == MultisigEntries(root)[0]
  <2>1. level = {root}
    BY <1>0, <1>4, Entries, DownLevels
  <2>2. Served(E, A, f[Depth].received, tx.removal)
    BY <1>3, <1>4, <1>6, NextServed
  <2>3. level \subseteq E
    BY <2>1 DEF Authorised
  <2>4. A \in SUBSET Accounts /\ E \in SUBSET Accounts
    BY <1>4, SignersAreAccounts, AuthorisedSteps
  <2>5. level \intersect ToSet(order) # {}
    BY <1>0, <2>1 DEF Multisigs
  <2>6. f[Depth] \in State /\ f[Depth + 1] = CheckLevel(f[Depth], order, level, tx.removal)
    <3>1. f[Depth] \in State
      BY <1>4, LevelsSteps
    <3>2. f[Depth + 1] = CheckLevel(f[(Depth + 1) - 1], order, MultisigEntries(tx.signer)[Depth + 1 - (Depth + 1)], tx.removal)
      BY <1>4, LevelsSteps
    <3> HIDE DEF f
    <3> QED
      BY <1>4, <3>1, <3>2
  <2> HIDE DEF E, A, level, f
  <2>7. f[Depth + 1].valid
    BY <1>6, <2>2, <2>3, <2>4, <2>5, <2>6, LevelPasses
  <2> QED
    BY <1>4, <2>7, ValidStays DEF f
<1> QED
  BY <1>5, <1>6

-----------------------------------------------------------------------------
(* A network that is flat around an account: no other multisig account is   *)
(* on a level of its graph.                                                 *)
LEMMA FlatLevels ==
    ASSUME network \in Networks, NEW root \in Accounts, Flat(root), NEW k \in -Depth..Depth
    PROVE  MultisigEntries(root)[k] \intersect Multisigs \subseteq {root}
<1>1. network \in Network /\ \A a \in Accounts : IsMultisig(network, a) <=> network.cosignatories[a] # {}
  BY NetworksAssumption
<1> DEFINE D == Down(root)
           U == Up(root)
           GoodDown == {n \in Nat : n + 1 <= Depth => D[n + 1] \intersect Multisigs = {}}
           GoodUp == {n \in Nat : n + 1 <= Depth => U[n + 1] = {}}
<1>2. /\ \A n \in 0..Depth : D[n] \in SUBSET Accounts
      /\ D[0] = {root}
      /\ \A n \in 1..Depth : D[n] = UNION {network.cosignatories[a] : a \in D[n - 1]}
  BY <1>1, DownLevels
<1>3. /\ U[0] = {root}
      /\ \A n \in 1..Depth : U[n] = UNION {{m \in Accounts : a \in network.cosignatories[m]} : a \in U[n - 1]}
  BY UpLevels
<1>4. /\ \A m \in Accounts : root \notin network.cosignatories[m]
      /\ \A c \in network.cosignatories[root] : ~IsMultisig(network, c)
  BY DEF Flat
<1> HIDE DEF D, U
<1>5. 0 \in GoodDown /\ 0 \in GoodUp
  <2>1. ASSUME 0 + 1 <= Depth PROVE D[0 + 1] \intersect Multisigs = {} /\ U[0 + 1] = {}
    <3>1. 0 + 1 \in 1..Depth /\ (0 + 1) - 1 = 0
      BY <2>1, DepthType
    <3>2. D[0 + 1] = network.cosignatories[root]
      <4>1. D[0 + 1] = UNION {network.cosignatories[a] : a \in D[0]}
        BY <1>2, <3>1
      <4>2. UNION {network.cosignatories[a] : a \in {root}} = network.cosignatories[root]
        OBVIOUS
      <4> QED
        BY <1>2, <4>1, <4>2
    <3>3. U[0 + 1] = {m \in Accounts : root \in network.cosignatories[m]}
      BY <1>3, <3>1
    <3> QED
      BY <1>4, <3>2, <3>3 DEF Multisigs
  <2> QED
    BY <2>1
<1>6. ASSUME NEW n \in Nat, n \in GoodDown PROVE n + 1 \in GoodDown
  <2> SUFFICES ASSUME (n + 1) + 1 <= Depth PROVE D[(n + 1) + 1] \intersect Multisigs = {}
    OBVIOUS
  <2>1. n + 1 <= Depth /\ n + 1 \in 0..Depth /\ (n + 1) + 1 \in 1..Depth /\ ((n + 1) + 1) - 1 = n + 1
    BY DepthType
  <2>2. D[n + 1] \intersect Multisigs = {} /\ D[n + 1] \in SUBSET Accounts
    BY <1>2, <1>6, <2>1
  <2>3. \A a \in D[n + 1] : network.cosignatories[a] = {}
    BY <1>1, <2>2 DEF Multisigs
  <2>4. D[(n + 1) + 1] = UNION {network.cosignatories[a] : a \in D[n + 1]}
    BY <1>2, <2>1
  <2> QED
    BY <2>3, <2>4
<1>7. ASSUME NEW n \in Nat, n \in GoodUp PROVE n + 1 \in GoodUp
  <2> SUFFICES ASSUME (n + 1) + 1 <= Depth PROVE U[(n + 1) + 1] = {}
    OBVIOUS
  <2>1. n + 1 <= Depth /\ (n + 1) + 1 \in 1..Depth /\ ((n + 1) + 1) - 1 = n + 1
    BY DepthType
  <2>2. U[n + 1] = {}
    BY <1>7, <2>1
  <2> QED
    BY <1>3, <2>1, <2>2
<1> HIDE DEF GoodDown, GoodUp
<1>8. \A n \in Nat : n \in GoodDown /\ n \in GoodUp
  BY <1>5, <1>6, <1>7, Induct
<1>9. ASSUME NEW n \in 1..Depth PROVE D[n] \intersect Multisigs = {} /\ U[n] = {}
  <2>1. n - 1 \in Nat /\ (n - 1) + 1 = n /\ n <= Depth
    BY DepthType
  <2> QED
    BY <1>8, <2>1 DEF GoodDown, GoodUp
<1>10. CASE k = 0
  <2>1. 0 \in 0..Depth
    BY DepthType
  <2> QED
    BY <1>2, <1>10, <2>1, Entries DEF D
<1>11. CASE k > 0
  <2>1. k \in 1..Depth /\ k \in 0..Depth
    BY <1>11, DepthType
  <2> QED
    BY <1>9, <2>1, Entries DEF D
<1>12. CASE k < 0
  <2>1. -k \in 1..Depth /\ -(-k) = k
    BY <1>12, DepthType
  <2>2. MultisigEntries(root)[k] = IF ListsAbove THEN U[-k] ELSE {}
    BY <2>1, Entries DEF U
  <2> QED
    BY <1>9, <2>1, <2>2
<1> QED
  BY <1>10, <1>11, <1>12, DepthType

\* A level on which nobody has enough changes nothing.
LEMMA StuckLevel ==
    ASSUME NEW state \in State, ~state.valid, NEW order \in Seq(Accounts), NEW level, NEW removal,
           \A a \in level \intersect ToSet(order) : ~(Matched(state.received, a) >= Required(a, removal))
    PROVE  CheckLevel(state, order, level, removal) = state
<1> DEFINE f == AccountsChecked(state, order, level, removal)
           N == Len(order)
<1>1. N \in Nat /\ DOMAIN order = 1..N
  OBVIOUS
<1>2. /\ f[0] = state
      /\ \A k \in 1..N : f[k] = IF order[k] \in level THEN CheckAccount(f[k - 1], order[k], removal) ELSE f[k - 1]
  BY AccountsSteps
<1>3. CheckLevel(state, order, level, removal) = f[N]
  BY DEF CheckLevel
<1> HIDE DEF f, N
<1>4. f[0] \in {state}
  BY <1>2
<1>5. ASSUME NEW k \in 1..N, f[k - 1] \in {state} PROVE f[k] \in {state}
  <2>1. CASE order[k] \in level
    <3>1. order[k] \in ToSet(order)
      BY <1>1 DEF ToSet
    <3>2. f[k] = CheckAccount(state, order[k], removal)
      BY <1>2, <1>5, <2>1
    <3>3. CheckAccount(state, order[k], removal) = [state EXCEPT !.valid = FALSE]
      BY <2>1, <3>1 DEF CheckAccount
    <3>4. [state EXCEPT !.valid = FALSE] = state
      BY DEF State
    <3> QED
      BY <3>2, <3>3, <3>4
  <2> QED
    BY <1>2, <1>5, <2>1
<1>6. f[N] \in {state}
  <2> DEFINE S == {state}
  <2>1. f[0] \in S /\ \A k \in 1..N : f[k - 1] \in S => f[k] \in S
    BY <1>4, <1>5
  <2> HIDE DEF S
  <2>2. \A n \in 0..N : f[n] \in S
    BY <1>1, <2>1, StaysIn
  <2> QED
    BY <1>1, <2>2 DEF S
<1> QED
  BY <1>3, <1>6

LEMMA SignedOnce ==
    ASSUME signers \in Seq(Accounts), NEW removal, NEW n \in 0..Depth
    PROVE  /\ AuthorisedBy(removal)[0] \subseteq Authorised(removal)
           /\ AuthorisedBy(removal)[n] \subseteq Authorised(removal)
<1> DEFINE by == AuthorisedBy(removal)
           Good(m) == {k \in Nat : m + k <= Depth => by[m] \subseteq by[m + k]}
<1>1. \A k \in 1..Depth : by[k - 1] \subseteq by[k]
  BY SignersAreAccounts, AuthorisedSteps
<1> HIDE DEF by
<1>2. ASSUME NEW m \in 0..Depth PROVE by[m] \subseteq by[Depth]
  <2>1. m \in Nat /\ m <= Depth /\ Depth - m \in Nat /\ m + (Depth - m) = Depth /\ m + 0 = m
    BY DepthType
  <2>2. 0 \in Good(m)
    BY <2>1
  <2>3. ASSUME NEW k \in Nat, k \in Good(m) PROVE k + 1 \in Good(m)
    <3> SUFFICES ASSUME m + (k + 1) <= Depth PROVE by[m] \subseteq by[m + (k + 1)]
      OBVIOUS
    <3>1. m + k <= Depth /\ m + (k + 1) \in 1..Depth /\ (m + (k + 1)) - 1 = m + k
      BY <2>1, DepthType
    <3>2. by[m] \subseteq by[m + k]
      BY <2>3, <3>1
    <3> QED
      BY <1>1, <3>1, <3>2
  <2> HIDE DEF Good
  <2>4. Depth - m \in Good(m)
    BY <2>1, <2>2, <2>3, Induct
  <2> QED
    BY <2>1, <2>4, DepthType DEF Good
<1>3. 0 \in 0..Depth
  BY DepthType
<1> QED
  BY <1>2, <1>3 DEF by, Authorised

\* A multisig account that is validated in a flat network has got enough signatures.
LEMMA ValidatedIsComplete ==
    ASSUME network \in Networks, signers \in Seq(Accounts),
           \A m, n \in DOMAIN signers : signers[m] = signers[n] => m = n,
           NEW tx \in InnerTransaction, NEW order \in Seq(Accounts), ToSet(order) = Multisigs,
           IsMultisig(network, tx.signer), Flat(tx.signer),
           ValidateCosignatories(tx, order)
    PROVE  tx.signer \in Authorised(tx.removal)
<1> DEFINE root == tx.signer
           first == [received |-> signers, valid |-> FALSE]
           f == LevelsChecked(tx, order)
           N == 2 * Depth + 1
<1>0. root \in Accounts /\ network \in Network /\ Depth \in Nat /\ Depth >= 1 /\ N \in Nat
  BY NetworksAssumption, DepthType, SomeDepth DEF InnerTransaction
<1>1. Matched(signers, root) >= Required(root, tx.removal)
  <2> SUFFICES ASSUME ~(Matched(signers, root) >= Required(root, tx.removal)) PROVE FALSE
    OBVIOUS
  <2>1. f[0] = first /\ \A n \in 1..N : f[n] = CheckLevel(f[n - 1], order, MultisigEntries(root)[Depth + 1 - n], tx.removal)
    BY LevelsSteps
  <2>2. first \in State /\ ~first.valid /\ first.received = signers
    BY DEF State
  <2> HIDE DEF f, first
  <2>3. ASSUME NEW n \in 1..N, f[n - 1] \in {first} PROVE f[n] \in {first}
    <3>1. Depth + 1 - n \in -Depth..Depth
      BY <1>0
    <3>2. MultisigEntries(root)[Depth + 1 - n] \intersect ToSet(order) \subseteq {root}
      BY <1>0, <3>1, FlatLevels
    <3>3. CheckLevel(first, order, MultisigEntries(root)[Depth + 1 - n], tx.removal) = first
      BY <2>2, <3>2, StuckLevel
    <3> QED
      BY <2>1, <2>3, <3>3
  <2>4. f[0] \in {first}
    BY <2>1
  <2> HIDE DEF N
  <2>5. \A n \in 0..N : f[n] \in {first}
    <3> DEFINE S == {first}
    <3>1. f[0] \in S /\ \A n \in 1..N : f[n - 1] \in S => f[n] \in S
      BY <2>3, <2>4
    <3> HIDE DEF S
    <3>2. \A n \in 0..N : f[n] \in S
      BY <1>0, <3>1, StaysIn
    <3> QED
      BY <3>2 DEF S
  <2>6. N \in 0..N
    BY <1>0
  <2> QED
    BY <2>2, <2>5, <2>6 DEF ValidateCosignatories, f, N
<1> DEFINE got == network.cosignatories[root] \intersect ToSet(signers)
<1>2. Matched(signers, root) <= Cardinality(got) /\ Matched(signers, root) \in Nat
  BY MatchedAtMost, CosignedByFinite
<1>3. Cardinality(got) \in Nat /\ Required(root, tx.removal) \in Nat
  <2>1. got \in SUBSET Accounts
    BY SignersAreAccounts
  <2>2. Required(root, tx.removal) \in Nat
    BY <1>0 DEF Required, Network
  <2> QED
    BY <2>1, <2>2, FiniteAccounts
<1>4. Enough(root, ToSet(signers), tx.removal)
  <2>1. Cardinality(got) >= Required(root, tx.removal)
    BY <1>1, <1>2, <1>3
  <2> QED
    BY <2>1 DEF Enough
<1>5. root \in AuthorisedBy(tx.removal)[1]
  <2>1. 1 \in 1..Depth /\ 1 - 1 = 0
    BY <1>0
  <2> QED
    BY <1>0, <1>4, <2>1, SignersAreAccounts, AuthorisedSteps
<1>6. 1 \in 0..Depth
  BY <1>0
<1> QED
  BY <1>5, <1>6, SignedOnce

-----------------------------------------------------------------------------
(* What isComplete finds for an inner transaction, whichever way it asks.   *)
LEMMA PlainSigner ==
    ASSUME network \in Network, signers \in Seq(Accounts), NEW tx \in InnerTransaction,
           ~IsMultisig(network, tx.signer)
    PROVE  tx.signer \in ToSet(signers) <=> tx.signer \in Authorised(tx.removal)
<1>1. Depth \in 1..Depth /\ 0 \in 0..Depth /\ AuthorisedBy(tx.removal)[0] = ToSet(signers)
  BY DepthType, SomeDepth, SignersAreAccounts, AuthorisedSteps DEF InnerTransaction
<1>2. tx.signer \in ToSet(signers) => tx.signer \in Authorised(tx.removal)
  BY <1>1, SignedOnce
<1>3. tx.signer \in Authorised(tx.removal) => tx.signer \in ToSet(signers)
  BY <1>1, SignersAreAccounts, SignedOrEnough DEF Authorised, Enough
<1> QED
  BY <1>2, <1>3

-----------------------------------------------------------------------------
(* The inductive invariant: who signed is an account that is no multisig    *)
(* account, and once; each verdict is what the reference says, as far as    *)
(* the code gets it right; what is emitted is made of the verdicts.         *)
SignersInv ==
    /\ network \in Networks
    /\ innerTransactions \in [Inner -> InnerTransaction]
    /\ signers \in Seq(Accounts)
    /\ \A a \in ToSet(signers) : ~IsMultisig(network, a)
    /\ \A m, n \in DOMAIN signers : signers[m] = signers[n] => m = n

VerdictsInv ==
    \A i \in Inner : stage[i] = "validated" =>
        /\ innerTransactions[i].signer \in Authorised(innerTransactions[i].removal) => verdict[i]
        /\ verdict[i] /\ Flat(innerTransactions[i].signer) => innerTransactions[i].signer \in Authorised(innerTransactions[i].removal)

ResultInv ==
    /\ stage \in [Inner -> {"info", "graph", "validated"}] /\ verdict \in [Inner -> BOOLEAN]
    /\ emitted \in {"none", "complete", "incomplete", "error"}
    /\ \A i \in Inner : verdict[i] => stage[i] = "validated"
    /\ \A i \in Inner : stage[i] = "graph" => IsMultisig(network, innerTransactions[i].signer)
    /\ emitted \in {"complete", "incomplete"} => \A i \in Inner : stage[i] = "validated"
    /\ emitted = "complete" => \A i \in Inner : verdict[i]
    /\ emitted = "incomplete" => \E i \in Inner : ~verdict[i]

CompletionInv == SignersInv /\ VerdictsInv /\ ResultInv

LEMMA SequenceOfSet ==
    ASSUME NEW S \in SUBSET Accounts
    PROVE  /\ SetToSeq(S) \in Seq(S) /\ ToSet(SetToSeq(S)) \subseteq S
           /\ \A m, n \in DOMAIN SetToSeq(S) : SetToSeq(S)[m] = SetToSeq(S)[n] => m = n
<1> DEFINE N == Cardinality(S)
           s == SetToSeq(S)
<1>1. ExistsBijection(1..N, S) /\ N \in Nat
  BY FiniteAccounts, FS_CardinalityType
<1>2. \E f \in [1..N -> S] : IsInjective(f)
  BY <1>1 DEF ExistsBijection, Bijection, Injection
<1>3. s \in [1..N -> S] /\ IsInjective(s)
  BY <1>2 DEF SetToSeq
<1> HIDE DEF N, s
<1>4. s \in Seq(S)
  BY <1>1, <1>3, SeqDef
<1>5. ToSet(s) \subseteq S
  BY <1>3 DEF ToSet
<1>6. \A m, n \in DOMAIN s : s[m] = s[n] => m = n
  BY <1>3 DEF IsInjective
<1> QED
  BY <1>4, <1>5, <1>6 DEF s

LEMMA InitCompletion ==
    ASSUME CompletionInit PROVE CompletionInv
<1>1. PICK initiator \in Leaves(network) : \E cosigners \in SUBSET (Leaves(network) \ {initiator}) :
         signers = Append(SetToSeq(cosigners), initiator)
  BY DEF CompletionInit
<1>2. PICK cosigners \in SUBSET (Leaves(network) \ {initiator}) : signers = Append(SetToSeq(cosigners), initiator)
  BY <1>1
<1> DEFINE s == SetToSeq(cosigners)
<1>3. initiator \in Accounts /\ cosigners \in SUBSET Accounts /\ initiator \notin cosigners
      /\ \A a \in cosigners \union {initiator} : ~IsMultisig(network, a)
  BY DEF Leaves
<1>4. /\ s \in Seq(cosigners) /\ ToSet(s) \subseteq cosigners
      /\ \A m, n \in DOMAIN s : s[m] = s[n] => m = n
  BY <1>3, SequenceOfSet
<1> HIDE DEF s
<1>5. s \in Seq(Accounts) /\ signers = Append(s, initiator) /\ signers \in Seq(Accounts)
  <2>1. s \in Seq(Accounts)
    BY <1>3, <1>4
  <2> QED
    BY <1>2, <1>3, <2>1 DEF s
<1>6. /\ DOMAIN signers = 1..(Len(s) + 1) /\ Len(s) \in Nat /\ DOMAIN s = 1..Len(s)
      /\ signers[Len(s) + 1] = initiator /\ \A n \in 1..Len(s) : signers[n] = s[n]
  BY <1>3, <1>5
<1>7. \A n \in DOMAIN s : s[n] \in cosigners
  BY <1>4 DEF ToSet
<1>8. ASSUME NEW n \in DOMAIN signers PROVE signers[n] \in cosigners \union {initiator}
  <2>1. n = Len(s) + 1 \/ n \in 1..Len(s)
    BY <1>6
  <2> QED
    BY <1>6, <1>7, <2>1
<1>9. ASSUME NEW m \in DOMAIN signers, NEW n \in DOMAIN signers, signers[m] = signers[n] PROVE m = n
  <2>1. (m = Len(s) + 1 \/ m \in 1..Len(s)) /\ (n = Len(s) + 1 \/ n \in 1..Len(s))
    BY <1>6
  <2>2. CASE m \in 1..Len(s) /\ n \in 1..Len(s)
    BY <1>4, <1>6, <1>9, <2>2
  <2>3. CASE m \in 1..Len(s) /\ n = Len(s) + 1
    BY <1>3, <1>6, <1>7, <1>9, <2>3
  <2>4. CASE m = Len(s) + 1 /\ n \in 1..Len(s)
    BY <1>3, <1>6, <1>7, <1>9, <2>4
  <2> QED
    BY <2>1, <2>2, <2>3, <2>4
<1>10. SignersInv
  BY <1>3, <1>5, <1>8, <1>9 DEF SignersInv, CompletionInit, InnerTransaction, ToSet
<1>11. VerdictsInv /\ ResultInv
  BY DEF CompletionInit, VerdictsInv, ResultInv
<1> QED
  BY <1>10, <1>11 DEF CompletionInv

\* An inner transaction is validated with a verdict that is as good as the code's checks.
LEMMA ValidatedKeeps ==
    ASSUME CompletionInv, NEW i \in Inner, NEW valid \in BOOLEAN, Validated(i, valid), UNCHANGED inputs,
           stage[i] # "validated", emitted = "none",
           innerTransactions[i].signer \in Authorised(innerTransactions[i].removal) => valid,
           valid /\ Flat(innerTransactions[i].signer) => innerTransactions[i].signer \in Authorised(innerTransactions[i].removal)
    PROVE  CompletionInv'
<1>1. UNCHANGED <<network, signers, innerTransactions>>
  BY DEF inputs
<1>2. SignersInv'
  BY <1>1 DEF CompletionInv, SignersInv
<1>3. /\ stage' = [stage EXCEPT ![i] = "validated"] /\ verdict' = [verdict EXCEPT ![i] = valid]
      /\ stage \in [Inner -> {"info", "graph", "validated"}] /\ verdict \in [Inner -> BOOLEAN]
  BY DEF Validated, CompletionInv, ResultInv
<1>4. \A r : Authorised(r)' = Authorised(r)
  BY <1>1 DEF Authorised, AuthorisedBy
<1>5. \A a : Flat(a)' = Flat(a)
  BY <1>1 DEF Flat
<1>6. VerdictsInv'
  BY <1>1, <1>3, <1>4, <1>5 DEF CompletionInv, VerdictsInv
<1>7. ResultInv'
  BY <1>1, <1>3 DEF CompletionInv, ResultInv, Validated
<1> QED
  BY <1>2, <1>6, <1>7 DEF CompletionInv

LEMMA NextCompletion ==
    ASSUME CompletionInv, CompletionNext PROVE CompletionInv'
<1>0. /\ network \in Network /\ network \in Networks /\ signers \in Seq(Accounts)
      /\ \A i \in Inner : innerTransactions[i] \in InnerTransaction
  BY NetworksAssumption DEF CompletionInv, SignersInv
<1>1. ASSUME NEW i \in Inner, InfoArrives(i) PROVE CompletionInv'
  <2>1. emitted = "none" /\ stage[i] = "info" /\ UNCHANGED inputs
    BY <1>1 DEF InfoArrives
  <2>2. CASE IsMultisig(network, innerTransactions[i].signer)
    <3>1. stage' = [stage EXCEPT ![i] = "graph"] /\ UNCHANGED <<verdict, emitted, network, signers, innerTransactions>>
      BY <1>1, <2>2 DEF InfoArrives, inputs
    <3>2. \A r : Authorised(r)' = Authorised(r)
      BY <3>1 DEF Authorised, AuthorisedBy
    <3>3. \A a : Flat(a)' = Flat(a)
      BY <3>1 DEF Flat
    <3>4. SignersInv'
      BY <3>1 DEF CompletionInv, SignersInv
    <3>5. stage \in [Inner -> {"info", "graph", "validated"}]
      BY DEF CompletionInv, ResultInv
    <3>6. VerdictsInv'
      BY <3>1, <3>2, <3>3, <3>5 DEF CompletionInv, VerdictsInv
    <3>7. ResultInv'
      BY <2>1, <2>2, <3>1, <3>5 DEF CompletionInv, ResultInv
    <3> QED
      BY <3>4, <3>6, <3>7 DEF CompletionInv
  <2>3. CASE ~IsMultisig(network, innerTransactions[i].signer)
    <3>1. Validated(i, innerTransactions[i].signer \in ToSet(signers))
      BY <1>1, <2>3 DEF InfoArrives
    <3>2. innerTransactions[i].signer \in ToSet(signers) <=> innerTransactions[i].signer \in Authorised(innerTransactions[i].removal)
      BY <1>0, <2>3, PlainSigner
    <3> DEFINE valid == innerTransactions[i].signer \in ToSet(signers)
    <3>3. valid \in BOOLEAN /\ Validated(i, valid)
      BY <3>1
    <3> HIDE DEF valid
    <3> QED
      BY <2>1, <3>2, <3>3, ValidatedKeeps DEF valid
  <2> QED
    BY <2>2, <2>3
<1>2. ASSUME NEW i \in Inner, GraphArrives(i) PROVE CompletionInv'
  <2>1. emitted = "none" /\ stage[i] = "graph" /\ UNCHANGED inputs
    BY <1>2 DEF GraphArrives
  <2>2. PICK order \in SetToSeqs(Multisigs) : Validated(i, ValidateCosignatories(innerTransactions[i], order))
    BY <1>2 DEF GraphArrives, Multisigs
  <2>3. order \in Seq(Accounts) /\ ToSet(order) = Multisigs
    BY OrderedOnce
  <2>4. IsMultisig(network, innerTransactions[i].signer) /\ innerTransactions[i].signer \notin ToSet(signers)
    BY <2>1 DEF CompletionInv, SignersInv, ResultInv
  <2> DEFINE valid == ValidateCosignatories(innerTransactions[i], order)
  <2>5. innerTransactions[i].signer \in Authorised(innerTransactions[i].removal) => valid
    BY <1>0, <2>3, <2>4, CompleteValidates
  <2>6. valid /\ Flat(innerTransactions[i].signer) => innerTransactions[i].signer \in Authorised(innerTransactions[i].removal)
    BY <1>0, <2>3, <2>4, ValidatedIsComplete DEF CompletionInv, SignersInv
  <2>7. valid \in BOOLEAN
    <3>1. 2 * Depth + 1 \in 0..(2 * Depth + 1)
      BY DepthType
    <3>2. LevelsChecked(innerTransactions[i], order)[2 * Depth + 1] \in State
      BY <1>0, <2>3, <3>1, LevelsSteps
    <3> QED
      BY <3>2 DEF State, ValidateCosignatories
  <2> HIDE DEF valid
  <2>8. Validated(i, valid)
    BY <2>2 DEF valid
  <2> QED
    BY <2>1, <2>5, <2>6, <2>7, <2>8, ValidatedKeeps
<1>3. ASSUME NEW i \in Inner, Fails(i) PROVE CompletionInv'
  <2>1. emitted' = "error" /\ UNCHANGED <<network, signers, innerTransactions, stage, verdict>>
    BY <1>3 DEF Fails, inputs
  <2>2. \A r : Authorised(r)' = Authorised(r)
    BY <2>1 DEF Authorised, AuthorisedBy
  <2>3. \A a : Flat(a)' = Flat(a)
    BY <2>1 DEF Flat
  <2>4. SignersInv' /\ VerdictsInv'
    BY <2>1, <2>2, <2>3 DEF CompletionInv, SignersInv, VerdictsInv
  <2>5. ResultInv'
    BY <2>1 DEF CompletionInv, ResultInv
  <2> QED
    BY <2>4, <2>5 DEF CompletionInv
<1> QED
  BY <1>1, <1>2, <1>3 DEF CompletionNext

LEMMA StutterCompletion ==
    ASSUME CompletionInv, UNCHANGED completionVars PROVE CompletionInv'
<1>1. UNCHANGED <<network, signers, innerTransactions, stage, verdict, emitted>>
  BY DEF completionVars, inputs
<1>2. \A r : Authorised(r)' = Authorised(r)
  BY <1>1 DEF Authorised, AuthorisedBy
<1>3. \A a : Flat(a)' = Flat(a)
  BY <1>1 DEF Flat
<1> QED
  BY <1>1, <1>2, <1>3 DEF CompletionInv, SignersInv, VerdictsInv, ResultInv

LEMMA CompletionInvariant == CompletionSpec => []CompletionInv
<1>1. CompletionInit => CompletionInv
  BY InitCompletion
<1>2. CompletionInv /\ [CompletionNext]_completionVars => CompletionInv'
  BY NextCompletion, StutterCompletion
<1> QED
  BY <1>1, <1>2, PTL DEF CompletionSpec

\* An aggregate that all whom its inner transactions need have signed for is never called
\* incomplete, for any network of multisig accounts, of any depth and even with cycles, in
\* whatever order accounts are listed and answers come (isComplete, validateCosignatories).
THEOREM CompleteIsNeverRefused == CompletionSpec => []CompleteIsAccepted
<1>1. CompletionInv => CompleteIsAccepted
  BY DEF CompletionInv, VerdictsInv, ResultInv, CompleteIsAccepted, Complete
<1> QED
  BY <1>1, CompletionInvariant, PTL

\* An aggregate that is called complete is so, if no multisig account its inner transactions
\* need is a cosignatory of another or has one as cosignatory (validateCosignatories).
THEOREM FlatAcceptanceIsExact == CompletionSpec => []FlatAcceptedIsComplete
<1>1. CompletionInv => FlatAcceptedIsComplete
  BY DEF CompletionInv, VerdictsInv, ResultInv, FlatAcceptedIsComplete, Complete
<1> QED
  BY <1>1, CompletionInvariant, PTL

-----------------------------------------------------------------------------
(* Proofs from REST.                                                        *)

(* Sequences of whatever is in them.                                        *)
Plain(s) == s \in Seq({s[i] : i \in DOMAIN s})

\* A sequence of whatever is in it has a length, and is the function it looks like.
LEMMA PlainHas ==
    ASSUME NEW s, Plain(s)
    PROVE  Len(s) \in Nat /\ DOMAIN s = 1..Len(s) /\ s = [i \in 1..Len(s) |-> s[i]]
BY DEF Plain

\* And a function on 1..m is one.
LEMMA PlainIs ==
    ASSUME NEW m \in Nat, NEW s, s = [i \in 1..m |-> s[i]]
    PROVE  Plain(s) /\ Len(s) = m /\ DOMAIN s = 1..m
<1>1. DOMAIN s = 1..m
  OBVIOUS
<1> DEFINE S == {s[i] : i \in 1..m}
<1>2. s \in [1..m -> S]
  OBVIOUS
<1>3. s \in Seq(S)
  BY <1>2
<1>4. Len(s) = m
  BY <1>1, <1>3
<1> QED
  BY <1>1, <1>3, <1>4 DEF Plain

\* So is every sequence over a set.
LEMMA PlainSeq ==
    ASSUME NEW S, NEW s \in Seq(S)
    PROVE  Plain(s)
<1>1. Len(s) \in Nat /\ s = [i \in 1..Len(s) |-> s[i]]
  OBVIOUS
<1> QED
  BY <1>1, PlainIs

\* Two of them joined: the first, then the second.
LEMMA Joined ==
    ASSUME NEW s, NEW t, Plain(s), Plain(t)
    PROVE  /\ Plain(s \o t) /\ Len(s \o t) = Len(s) + Len(t)
           /\ \A i \in 1..Len(s) : (s \o t)[i] = s[i]
           /\ \A i \in 1..Len(t) : (s \o t)[Len(s) + i] = t[i]
<1> DEFINE S == {s[i] : i \in DOMAIN s} \union {t[i] : i \in DOMAIN t}
<1>1. s \in Seq(S) /\ t \in Seq(S)
  <2>1. Len(s) \in Nat /\ DOMAIN s = 1..Len(s) /\ s = [i \in 1..Len(s) |-> s[i]]
    BY PlainHas
  <2>2. Len(t) \in Nat /\ DOMAIN t = 1..Len(t) /\ t = [i \in 1..Len(t) |-> t[i]]
    BY PlainHas
  <2>3. s \in [1..Len(s) -> S] /\ t \in [1..Len(t) -> S]
    BY <2>1, <2>2
  <2> HIDE DEF S
  <2> QED
    BY <2>1, <2>2, <2>3
<1> HIDE DEF S
<1>2. s \o t \in Seq(S)
  BY <1>1
<1>3. Plain(s \o t)
  BY <1>2, PlainSeq
<1> QED
  BY <1>1, <1>3

\* The same, as one predicate.
IsJoined(w, s, t) ==
    /\ Plain(w) /\ Len(w) = Len(s) + Len(t)
    /\ \A i \in 1..Len(s) : w[i] = s[i]
    /\ \A i \in 1..Len(t) : w[Len(s) + i] = t[i]
\* Two sequences joined are that.
LEMMA JoinedIs ==
    ASSUME NEW s, NEW t, Plain(s), Plain(t)
    PROVE  IsJoined(s \o t, s, t)
BY Joined DEF IsJoined

\* What comes after the first part of a sequence, and the first part.
LEMMA Cut ==
    ASSUME NEW s, NEW t, Plain(s), Plain(t)
    PROVE  /\ SubSeq(s \o t, Len(s) + 1, Len(s \o t)) = t
           /\ SubSeq(s \o t, 1, Len(s)) = s
<1> DEFINE S == {s[i] : i \in DOMAIN s} \union {t[i] : i \in DOMAIN t} 
           u == s \o t
<1>1. Len(s) \in Nat /\ s = [i \in 1..Len(s) |-> s[i]] /\ Len(t) \in Nat /\ t = [i \in 1..Len(t) |-> t[i]]
  BY PlainHas
<1>2. /\ Plain(u) /\ Len(u) = Len(s) + Len(t)
      /\ \A i \in 1..Len(s) : u[i] = s[i]
      /\ \A i \in 1..Len(t) : u[Len(s) + i] = t[i]
  BY Joined
<1> HIDE DEF u
<1>3. u \in Seq({u[i] : i \in DOMAIN u})
  BY <1>2 DEF Plain
<1>4. SubSeq(u, Len(s) + 1, Len(u)) = [i \in 1..Len(t) |-> u[Len(s) + i]]
  <2> DEFINE v == SubSeq(u, Len(s) + 1, Len(u))
             T == {u[i] : i \in DOMAIN u}
             k == Len(s)
             l == Len(t)
  <2>0. u \in Seq(T) /\ Len(u) = k + l /\ k \in Nat /\ l \in Nat
    BY <1>1, <1>2, <1>3
  <2> HIDE DEF T, k, l
  <2>4. Len(SubSeq(u, k + 1, k + l)) = l
        /\ SubSeq(u, k + 1, k + l) = [i \in 1..l |-> u[k + i]]
    BY <2>0
  <2>5. v = SubSeq(u, k + 1, k + l)
    BY <2>0 DEF k
  <2> HIDE DEF v
  <2>1. Len(v) = Len(t) /\ v = [i \in 1..Len(v) |-> v[i]]
    BY <2>4, <2>5 DEF l
  <2>2. \A i \in 1..Len(t) : v[i] = u[Len(s) + i]
    BY <2>4, <2>5 DEF k, l
  <2> HIDE DEF v
  <2>3. v = [i \in 1..Len(t) |-> u[Len(s) + i]]
    BY <2>1, <2>2
  <2> QED
    BY <2>3 DEF v
<1>5. SubSeq(u, 1, Len(s)) = [i \in 1..Len(s) |-> u[i]]
  <2> DEFINE v == SubSeq(u, 1, Len(s))
  <2>1. v = [i \in 1..Len(v) |-> v[i]] /\ Len(v) = Len(s)
    BY <1>1, <1>2, <1>3
  <2>2. \A i \in 1..Len(s) : v[i] = u[i]
    BY <1>1, <1>2, <1>3
  <2> HIDE DEF v
  <2>3. v = [i \in 1..Len(s) |-> u[i]]
    BY <2>1, <2>2
  <2> QED
    BY <2>3 DEF v
<1> QED
  BY <1>1, <1>2, <1>4, <1>5 DEF u

-----------------------------------------------------------------------------
(* Rows in order.                                                           *)
IsOrder(R, S) ==
    /\ \A x, y \in S : <<x, y>> \in R => x # y
    /\ \A x, y, z \in S : <<x, y>> \in R /\ <<y, z>> \in R => <<x, z>> \in R
    /\ \A x, y \in S : x = y \/ <<x, y>> \in R \/ <<y, x>> \in R
UpTo(R, S, x) == {y \in S : y = x \/ <<y, x>> \in R}
Enumerates(s, m, R, S) ==
    /\ s \in [1..m -> S]
    /\ \A j, k \in 1..m : j < k => <<s[j], s[k]>> \in R
    /\ \A x \in S : \E k \in 1..m : s[k] = x

\* The rank of an element: one for each, and every number up to how many there are.
LEMMA Ranks ==
    ASSUME NEW S, NEW R, IsFiniteSet(S), IsOrder(R, S)
    PROVE  /\ Cardinality(S) \in Nat
           /\ \A x \in S : Cardinality(UpTo(R, S, x)) \in 1..Cardinality(S)
           /\ \A x, y \in S : <<x, y>> \in R => Cardinality(UpTo(R, S, x)) < Cardinality(UpTo(R, S, y))
           /\ \A x, y \in S : Cardinality(UpTo(R, S, x)) = Cardinality(UpTo(R, S, y)) => x = y
           /\ \A k \in 1..Cardinality(S) : \E x \in S : Cardinality(UpTo(R, S, x)) = k
<1>1. Cardinality(S) \in Nat
  BY FS_CardinalityType
<1>2. ASSUME NEW x \in S
      PROVE  /\ IsFiniteSet(UpTo(R, S, x)) /\ x \in UpTo(R, S, x)
             /\ Cardinality(UpTo(R, S, x)) \in 1..Cardinality(S)
  <2>1. UpTo(R, S, x) \in SUBSET S /\ x \in UpTo(R, S, x)
    BY DEF UpTo
  <2>2. IsFiniteSet(UpTo(R, S, x)) /\ Cardinality(UpTo(R, S, x)) <= Cardinality(S)
    BY <2>1, FS_Subset
  <2>3. Cardinality(UpTo(R, S, x)) \in Nat /\ Cardinality(UpTo(R, S, x)) # 0
    <3>1. UpTo(R, S, x) # {}
      BY <2>1
    <3> HIDE DEF UpTo
    <3> QED
      BY <2>2, <3>1, FS_CardinalityType, FS_EmptySet
  <2> QED
    BY <1>1, <2>1, <2>2, <2>3
<1>3. ASSUME NEW x \in S, NEW y \in S, <<x, y>> \in R
      PROVE  Cardinality(UpTo(R, S, x)) < Cardinality(UpTo(R, S, y))
  <2>1. UpTo(R, S, x) \in SUBSET UpTo(R, S, y)
    BY <1>3 DEF IsOrder, UpTo
  <2>2. y \notin UpTo(R, S, x)
    <3>1. y # x
      BY <1>3 DEF IsOrder
    <3>2. <<y, x>> \notin R
      BY <1>3 DEF IsOrder
    <3> QED
      BY <3>1, <3>2 DEF UpTo
  <2>3. UpTo(R, S, x) # UpTo(R, S, y)
    BY <1>2, <2>2
  <2>4. Cardinality(UpTo(R, S, x)) <= Cardinality(UpTo(R, S, y)) /\ Cardinality(UpTo(R, S, x)) # Cardinality(UpTo(R, S, y))
    BY <1>2, <2>1, <2>3, FS_Subset
  <2>5. Cardinality(UpTo(R, S, x)) \in Nat /\ Cardinality(UpTo(R, S, y)) \in Nat
    BY <1>1, <1>2
  <2> QED
    BY <2>4, <2>5
<1>4. ASSUME NEW x \in S, NEW y \in S, Cardinality(UpTo(R, S, x)) = Cardinality(UpTo(R, S, y))
      PROVE  x = y
  <2>1. Cardinality(UpTo(R, S, x)) \in Nat
    BY <1>1, <1>2
  <2>2. <<x, y>> \notin R /\ <<y, x>> \notin R
    BY <1>3, <1>4, <2>1
  <2> QED
    BY <2>2 DEF IsOrder
<1> DEFINE rank == [x \in S |-> Cardinality(UpTo(R, S, x))]
<1>5. rank \in Injection(S, 1..Cardinality(S))
  <2>1. rank \in [S -> 1..Cardinality(S)]
    BY <1>2
  <2>2. \A x, y \in S : rank[x] = rank[y] => x = y
    BY <1>4
  <2> DEFINE T == 1..Cardinality(S)
  <2>3. rank \in [S -> T]
    BY <2>1
  <2> HIDE DEF rank, T
  <2>4. rank \in Injection(S, T)
    BY <2>2, <2>3 DEF Injection, IsInjective
  <2> QED
    BY <2>4 DEF T
<1>6. IsFiniteSet(1..Cardinality(S)) /\ Cardinality(1..Cardinality(S)) = Cardinality(S)
  BY <1>1, FS_Interval
<1>7. \A k \in 1..Cardinality(S) : \E x \in S : rank[x] = k
  <2> HIDE DEF rank
  <2>1. rank \in Surjection(S, 1..Cardinality(S))
    BY <1>5, <1>6, FS_Injection
  <2> QED
    BY <2>1 DEF Surjection
<1> QED
  BY <1>1, <1>2, <1>3, <1>4, <1>7

\* A row whose k-th element has the rank k is in order.
LEMMA Ranked ==
    ASSUME NEW S, NEW R, IsFiniteSet(S), IsOrder(R, S), NEW s \in [1..Cardinality(S) -> S],
           \A k \in 1..Cardinality(S) : Cardinality(UpTo(R, S, s[k])) = k
    PROVE  Enumerates(s, Cardinality(S), R, S)
<1>1. ASSUME NEW k \in 1..Cardinality(S)
      PROVE  s[k] \in S /\ Cardinality(UpTo(R, S, s[k])) = k
  OBVIOUS
<1>2. ASSUME NEW j \in 1..Cardinality(S), NEW k \in 1..Cardinality(S), j < k
      PROVE  <<s[j], s[k]>> \in R
  <2>1. s[j] \in S /\ s[k] \in S /\ Cardinality(UpTo(R, S, s[j])) = j /\ Cardinality(UpTo(R, S, s[k])) = k
    BY <1>1
  <2>2. s[j] # s[k]
    BY <1>2, <2>1
  <2>3. <<s[k], s[j]>> \notin R
    <3>1. <<s[k], s[j]>> \in R => k < j
      BY <2>1, Ranks
    <3> QED
      BY <1>2, <3>1
  <2> QED
    BY <2>1, <2>2, <2>3 DEF IsOrder
<1>3. ASSUME NEW x \in S PROVE \E k \in 1..Cardinality(S) : s[k] = x
  <2> DEFINE k == Cardinality(UpTo(R, S, x))
  <2>1. k \in 1..Cardinality(S)
    BY Ranks
  <2>2. s[k] \in S /\ Cardinality(UpTo(R, S, s[k])) = k
    BY <1>1, <2>1
  <2>3. s[k] = x
    BY <2>2, Ranks
  <2> QED
    BY <2>1, <2>3
<1> QED
  BY <1>1, <1>2, <1>3 DEF Enumerates

\* And in a row in order the k-th element has the rank k.
LEMMA RankOf ==
    ASSUME NEW S, NEW R, IsFiniteSet(S), IsOrder(R, S), NEW m \in Nat, NEW s, Enumerates(s, m, R, S)
    PROVE  /\ m = Cardinality(S)
           /\ \A k \in 1..m : s[k] \in S /\ Cardinality(UpTo(R, S, s[k])) = k
<1>1. \A j, k \in 1..m : s[j] \in S /\ s[k] \in S /\ (s[j] = s[k] => j = k)
  <2> SUFFICES ASSUME NEW j \in 1..m, NEW k \in 1..m PROVE s[j] \in S /\ s[k] \in S /\ (s[j] = s[k] => j = k)
    OBVIOUS
  <2>1. s[j] \in S /\ s[k] \in S
    BY DEF Enumerates
  <2>2. (j < k => <<s[j], s[k]>> \in R) /\ (k < j => <<s[k], s[j]>> \in R)
    BY DEF Enumerates
  <2>3. s[j] = s[k] => ~(j < k) /\ ~(k < j)
    BY <2>1, <2>2 DEF IsOrder
  <2> QED
    BY <2>1, <2>3
<1>2. ASSUME NEW k \in 0..m, NEW T, \A j \in 1..k : s[j] \in T, \A x \in T : \E j \in 1..k : s[j] = x
      PROVE  Cardinality(T) = k
  <2> DEFINE row == [j \in 1..k |-> s[j]]
  <2>1. row \in [1..k -> T] /\ \A x \in T : \E j \in 1..k : row[j] = x
    BY <1>2
  <2>2. \A i, j \in 1..k : row[i] = row[j] => i = j
    BY <1>1
  <2> HIDE DEF row
  <2>3. row \in Bijection(1..k, T)
    BY <2>1, <2>2 DEF Bijection, Injection, IsInjective, Surjection
  <2>4. ExistsBijection(1..k, T)
    BY <2>3 DEF ExistsBijection
  <2>5. IsFiniteSet(1..k) /\ Cardinality(1..k) = k
    BY FS_Interval
  <2> QED
    BY <2>4, <2>5, FS_Bijection
<1>3. m = Cardinality(S)
  <2>1. m \in 0..m
    OBVIOUS
  <2>2. \A x \in S : \E j \in 1..m : s[j] = x
    BY DEF Enumerates
  <2> QED
    BY <1>1, <1>2, <2>1, <2>2
<1>4. ASSUME NEW k \in 1..m PROVE Cardinality(UpTo(R, S, s[k])) = k
  <2>1. \A j \in 1..k : s[j] \in UpTo(R, S, s[k])
    BY <1>1 DEF UpTo, Enumerates
  <2>2. ASSUME NEW x \in UpTo(R, S, s[k]) PROVE \E j \in 1..k : s[j] = x
    <3>1. x \in S /\ s[k] \in S
      BY <1>1 DEF UpTo
    <3>2. PICK j \in 1..m : s[j] = x
      BY <3>1 DEF Enumerates
    <3>3. ~(k < j)
      <4>1. SUFFICES ASSUME k < j PROVE FALSE
        OBVIOUS
      <4>2. <<s[k], x>> \in R
        BY <3>2, <4>1 DEF Enumerates
      <4>3. x = s[k] \/ <<x, s[k]>> \in R
        BY DEF UpTo
      <4>4. x # s[k]
        BY <3>1, <4>2 DEF IsOrder
      <4>5. <<s[k], s[k]>> \in R
        BY <3>1, <4>2, <4>3, <4>4 DEF IsOrder
      <4> QED
        BY <3>1, <4>5 DEF IsOrder
    <3> QED
      BY <3>2, <3>3
  <2> QED
    BY <1>2, <2>1, <2>2
<1> QED
  BY <1>1, <1>3, <1>4

\* There is one row in order.
LEMMA OneOrder ==
    ASSUME NEW S, NEW R, IsFiniteSet(S), IsOrder(R, S), NEW m \in Nat, NEW n \in Nat, NEW s, NEW t,
           Enumerates(s, m, R, S), Enumerates(t, n, R, S)
    PROVE  s = t
<1>1. m = n
  BY RankOf
<1>2. \A k \in 1..m : s[k] = t[k]
  <2>1. ASSUME NEW k \in 1..m PROVE s[k] = t[k]
    <3>1. s[k] \in S /\ Cardinality(UpTo(R, S, s[k])) = k
      BY RankOf
    <3>2. t[k] \in S /\ Cardinality(UpTo(R, S, t[k])) = k
      BY <1>1, RankOf
    <3> QED
      BY <3>1, <3>2, Ranks
  <2> QED
    BY <2>1
<1> QED
  BY <1>1, <1>2 DEF Enumerates

Smaller(S) == {xy \in S \X S : xy[1] < xy[2]}
\* Numbers are ordered by their size.
LEMMA SmallerOrders ==
    ASSUME NEW S, S \subseteq Nat
    PROVE  IsOrder(Smaller(S), S) /\ \A x, y \in S : <<x, y>> \in Smaller(S) <=> x < y
<1>1. \A x, y \in S : <<x, y>> \in Smaller(S) <=> x < y
  BY DEF Smaller
<1> QED
  BY <1>1 DEF IsOrder

\* Every rank is that of an element.
LEMMA OneOfRank ==
    ASSUME NEW S, NEW R, IsFiniteSet(S), IsOrder(R, S), NEW k \in 1..Cardinality(S)
    PROVE  \E x \in S : Cardinality(UpTo(R, S, x)) = k
BY Ranks

IsBySize(R, S) == S \subseteq Nat /\ \A x, y \in S : <<x, y>> \in R <=> x < y
\* Ascending gives the numbers of a finite set, the least first.
LEMMA AscendingBy ==
    ASSUME NEW S, NEW R, IsFiniteSet(S), IsOrder(R, S), IsBySize(R, S)
    PROVE  Enumerates(Ascending(S), Cardinality(S), R, S)
<1>0. \A j \in 1..Cardinality(S) : \E x \in S : Cardinality(UpTo(R, S, x)) = j
  BY OneOfRank
<1>1. ASSUME NEW x \in S PROVE UpTo(R, S, x) = {m \in S : m <= x}
  <2>1. \A m \in S : m <= x <=> m = x \/ m < x
    BY DEF IsBySize
  <2> QED
    BY <2>1 DEF UpTo, IsBySize
<1>2. ASSUME NEW k \in 1..Cardinality(S)
      PROVE  Ascending(S)[k] \in S /\ Cardinality(UpTo(R, S, Ascending(S)[k])) = k
  <2>1. PICK n \in S : Cardinality(UpTo(R, S, n)) = k
    BY <1>0
  <2>2. Cardinality({m \in S : m <= n}) = k
    BY <1>1, <2>1
  <2>3. Ascending(S)[k] = CHOOSE x \in S : Cardinality({m \in S : m <= x}) = k
    BY DEF Ascending
  <2>4. Ascending(S)[k] \in S /\ Cardinality({m \in S : m <= Ascending(S)[k]}) = k
    BY <2>2, <2>3
  <2> QED
    BY <1>1, <2>4
<1>3. Ascending(S) \in [1..Cardinality(S) -> S]
  BY <1>2 DEF Ascending
<1> QED
  BY <1>2, <1>3, Ranked

\* Ascending gives the numbers of a finite set, the least first.
LEMMA AscendingIs ==
    ASSUME NEW S, S \subseteq Nat, IsFiniteSet(S)
    PROVE  Cardinality(S) \in Nat /\ Enumerates(Ascending(S), Cardinality(S), Smaller(S), S)
<1>1. IsOrder(Smaller(S), S) /\ IsBySize(Smaller(S), S)
  BY SmallerOrders DEF IsBySize
<1> QED
  BY <1>1, AscendingBy, FS_CardinalityType

\* An interval from 1 is in order as it is.
LEMMA AscendingUpTo ==
    ASSUME NEW n \in Nat
    PROVE  Ascending(1..n) = [k \in 1..n |-> k]
<1> DEFINE s == [k \in 1..n |-> k]
           S == 1..n
<1>1. IsFiniteSet(S) /\ S \subseteq Nat
  BY FS_Interval
<1>2. IsOrder(Smaller(S), S)
  BY <1>1, SmallerOrders
<1>3. Enumerates(s, n, Smaller(S), S)
  BY <1>1, SmallerOrders DEF Enumerates
<1>4. Cardinality(S) \in Nat /\ Enumerates(Ascending(S), Cardinality(S), Smaller(S), S)
  BY <1>1, AscendingIs
<1> HIDE DEF S, s
<1>5. Ascending(S) = s
  BY <1>1, <1>2, <1>3, <1>4, OneOrder
<1> QED
  BY <1>5 DEF S, s

-----------------------------------------------------------------------------
(* The levels of a tree.                                                    *)
NextLevel(below) == IF Len(below) <= 1 THEN below ELSE LevelAbove(below)
AreLevels(f, leaves, N) == f[0] = leaves /\ \A n \in 1..N : f[n] = NextLevel(f[n - 1])

\* The levels of a tree, each made of the one below.
LEMMA LevelsOf ==
    ASSUME NEW leaves, Plain(leaves)
    PROVE  AreLevels(Levels(leaves), leaves, Len(leaves))
<1> DEFINE N == Len(leaves)
           Good == {k \in Nat : \E f : AreLevels(f, leaves, k)}
           Rec(f) == f = [n \in 0..N |-> IF n = 0 THEN leaves
                            ELSE LET below == f[n - 1] IN IF Len(below) <= 1 THEN below ELSE LevelAbove(below)]
<1>0. N \in Nat
  BY PlainHas
<1>1. 0 \in Good
  <2>1. AreLevels([n \in {0} |-> leaves], leaves, 0)
    BY DEF AreLevels
  <2> QED
    BY <2>1
<1>2. ASSUME NEW k \in Nat, k \in Good PROVE k + 1 \in Good
  <2>1. PICK f : AreLevels(f, leaves, k)
    BY <1>2
  <2> DEFINE g == [n \in 0..(k + 1) |-> IF n = k + 1 THEN NextLevel(f[k]) ELSE f[n]]
  <2>2. g[k + 1] = NextLevel(f[k]) /\ \A n \in 0..k : g[n] = f[n]
    OBVIOUS
  <2> HIDE DEF g
  <2>3. ASSUME NEW n \in 1..(k + 1) PROVE g[n] = NextLevel(g[n - 1])
    <3>1. CASE n = k + 1
      <4>1. n - 1 = k /\ k \in 0..k
        BY <3>1
      <4> QED
        BY <2>2, <3>1, <4>1
    <3>2. CASE n # k + 1
      <4>1. n \in 1..k /\ n \in 0..k /\ n - 1 \in 0..k
        BY <3>2
      <4> QED
        BY <2>1, <2>2, <4>1 DEF AreLevels
    <3> QED
      BY <3>1, <3>2
  <2>4. AreLevels(g, leaves, k + 1)
    <3>1. 0 \in 0..k
      OBVIOUS
    <3> QED
      BY <2>1, <2>2, <2>3, <3>1 DEF AreLevels
  <2> QED
    BY <2>4
<1> HIDE DEF Good
<1>3. N \in Good
  BY <1>0, <1>1, <1>2, Induct
<1>4. PICK f : AreLevels(f, leaves, N)
  BY <1>3 DEF Good
<1> DEFINE g == [n \in 0..N |-> f[n]]
<1>5. Rec(g)
  <2>1. ASSUME NEW n \in 0..N
        PROVE  g[n] = IF n = 0 THEN leaves
                      ELSE LET below == g[n - 1] IN IF Len(below) <= 1 THEN below ELSE LevelAbove(below)
    <3>1. CASE n = 0
      BY <1>4, <3>1 DEF AreLevels
    <3>2. CASE n # 0
      <4>1. n \in 1..N /\ n - 1 \in 0..N
        BY <1>0, <3>2
      <4>2. g[n] = f[n] /\ g[n - 1] = f[n - 1]
        BY <4>1
      <4> QED
        BY <1>4, <3>2, <4>1, <4>2 DEF AreLevels, NextLevel
    <3> QED
      BY <3>1, <3>2
  <2> QED
    BY <2>1
<1> HIDE DEF g
<1> DEFINE level == CHOOSE h : Rec(h)
<1>6. Rec(level)
  BY <1>5
<1>7. Levels(leaves) = level
  BY DEF Levels
<1> HIDE DEF level
<1>8. AreLevels(level, leaves, N)
  <2>1. level[0] = leaves
    BY <1>0, <1>6
  <2>2. ASSUME NEW n \in 1..N PROVE level[n] = NextLevel(level[n - 1])
    <3>1. n \in 0..N /\ n # 0
      BY <1>0
    <3> QED
      BY <1>6, <3>1 DEF NextLevel
  <2> QED
    BY <2>1, <2>2 DEF AreLevels
<1> QED
  BY <1>7, <1>8

\* A level has one hash or more.
LEMMA OneOrMore == \A n \in Nat : n >= 1 => (n = 1 \/ n > 1) /\ (n # 1 => n > 1) /\ (n = 1 => n <= 1)
OBVIOUS
\* One is not more than one.
LEMMA OneIs == \A n : n = 1 => n <= 1
OBVIOUS

\* The level above has half the hashes, and fewer unless there is one.
LEMMA NextLevelIs ==
    ASSUME NEW below, Plain(below), Len(below) >= 1
    PROVE  /\ Plain(NextLevel(below)) /\ Len(NextLevel(below)) >= 1
           /\ Len(below) = 1 => Len(NextLevel(below)) = 1
           /\ Len(below) > 1 => /\ NextLevel(below) = LevelAbove(below)
                                /\ Len(NextLevel(below)) = (Len(below) + 1) \div 2
                                /\ Len(NextLevel(below)) + 1 <= Len(below)
<1>0. Len(below) \in Nat
  BY PlainHas
<1>1. CASE Len(below) = 1
  BY <1>1 DEF NextLevel
<1>2. CASE Len(below) > 1
  <2>1. NextLevel(below) = LevelAbove(below)
    BY <1>0, <1>2 DEF NextLevel
  <2> DEFINE m == (Len(below) + 1) \div 2
             up == LevelAbove(below)
  <2>2. m \in Nat /\ m >= 1 /\ m + 1 <= Len(below)
    BY <1>0, <1>2
  <2>3. up = [k \in 1..m |-> up[k]]
    BY DEF LevelAbove
  <2> HIDE DEF m, up
  <2>4. Plain(up) /\ Len(up) = m
    BY <2>2, <2>3, PlainIs
  <2> QED
    BY <1>2, <2>1, <2>2, <2>4 DEF m, up
<1>3. Len(below) = 1 \/ Len(below) > 1
  BY <1>0, OneOrMore, Zenon
<1> QED
  BY <1>1, <1>2, <1>3

\* Every level has a hash, and fewer than the one below until there is one left.
LEMMA LevelsShrink ==
    ASSUME NEW leaves, Plain(leaves), leaves # <<>>
    PROVE  LET N == Len(leaves) lv == Levels(leaves) IN
           /\ N \in Nat /\ N >= 1
           /\ \A n \in 0..N : Plain(lv[n]) /\ Len(lv[n]) \in Nat /\ Len(lv[n]) >= 1
           /\ Len(lv[N]) = 1
<1> DEFINE N == Len(leaves)
           lv == Levels(leaves)
           Shrunk(n) == /\ Plain(lv[n]) /\ Len(lv[n]) >= 1
                        /\ Len(lv[n]) = 1 \/ Len(lv[n]) + n <= N
           Good == {n \in Nat : n <= N => Shrunk(n)}
<1>0. N \in Nat /\ N >= 1
  <2>1. leaves \in Seq({leaves[i] : i \in DOMAIN leaves})
    BY DEF Plain
  <2> QED
    BY <2>1
<1>1. AreLevels(lv, leaves, N)
  BY LevelsOf
<1> HIDE DEF lv
<1>2. 0 \in Good
  BY <1>0, <1>1 DEF AreLevels
<1>3. ASSUME NEW n \in Nat, n \in Good PROVE n + 1 \in Good
  <2>1. CASE n + 1 <= N
    <3>1. n <= N /\ n + 1 \in 1..N /\ (n + 1) - 1 = n
      BY <1>0, <2>1
    <3>2. lv[n + 1] = NextLevel(lv[n])
      BY <1>1, <3>1 DEF AreLevels
    <3>3. Plain(lv[n]) /\ Len(lv[n]) >= 1 /\ (Len(lv[n]) = 1 \/ Len(lv[n]) + n <= N)
      BY <1>3, <3>1
    <3>4. Len(lv[n]) \in Nat
      BY <3>3, PlainHas
    <3>5. Plain(lv[n + 1]) /\ Len(lv[n + 1]) >= 1
      BY <3>2, <3>3, NextLevelIs
    <3>6. Len(lv[n + 1]) \in Nat
      BY <3>5, PlainHas
    <3>7. ASSUME Len(lv[n]) = 1 PROVE Shrunk(n + 1)
      <4>1. Len(lv[n + 1]) = 1
        BY <3>2, <3>3, <3>7, NextLevelIs
      <4> QED
        BY <3>5, <4>1
    <3>8. ASSUME Len(lv[n]) > 1 PROVE Shrunk(n + 1)
      <4> DEFINE a == Len(lv[n])
                 b == Len(lv[n + 1])
      <4>1. b + 1 <= a
        BY <3>2, <3>3, <3>8, NextLevelIs
      <4>2. a \in Nat /\ b \in Nat /\ (a = 1 \/ a + n <= N) /\ a > 1
        BY <3>3, <3>4, <3>6, <3>8, Zenon
      <4> HIDE DEF a, b
      <4>3. b + (n + 1) <= N
        BY <1>0, <4>1, <4>2
      <4> QED
        BY <3>5, <4>3 DEF b
    <3>9. Len(lv[n]) = 1 \/ Len(lv[n]) > 1
      BY <3>3, <3>4, OneOrMore, Zenon
    <3> HIDE DEF Shrunk
    <3>10. Shrunk(n + 1)
      BY <3>7, <3>8, <3>9
    <3> QED
      BY <3>10
  <2>2. CASE ~(n + 1 <= N)
    BY <2>2
  <2> QED
    BY <2>1, <2>2
<1> HIDE DEF Good
<1>4. \A n \in Nat : n \in Good
  BY <1>2, <1>3, Induct
<1>5. ASSUME NEW n \in 0..N
      PROVE  Plain(lv[n]) /\ Len(lv[n]) \in Nat /\ Len(lv[n]) >= 1
  <2>1. n \in Nat /\ n <= N
    BY <1>0
  <2>2. Plain(lv[n]) /\ Len(lv[n]) >= 1
    BY <1>4, <2>1 DEF Good
  <2> QED
    BY <2>2, PlainHas
<1>6. Len(lv[N]) = 1
  <2>1. N \in 0..N /\ N <= N
    BY <1>0
  <2>2. Len(lv[N]) = 1 \/ Len(lv[N]) + N <= N
    BY <1>0, <1>4, <2>1 DEF Good
  <2> QED
    BY <1>0, <1>5, <2>1, <2>2
<1> QED
  BY <1>0, <1>5, <1>6 DEF lv

\* The height is that of the lowest level of one hash, which is the root.
LEMMA HeightIs ==
    ASSUME NEW leaves, Plain(leaves), leaves # <<>>
    PROVE  LET N == Len(leaves) lv == Levels(leaves) H == Height(leaves) IN
           /\ H \in 0..N /\ Len(lv[H]) = 1
           /\ \A n \in 0..N : n < H => Len(lv[n]) > 1
           /\ MerkleRoot(leaves) = lv[H][1]
<1> DEFINE N == Len(leaves)
           lv == Levels(leaves)
           H == Height(leaves)
           T == {n \in 0..N : Len(lv[n]) = 1}
<1>1. /\ N \in Nat /\ N >= 1
      /\ \A n \in 0..N : Plain(lv[n]) /\ Len(lv[n]) \in Nat /\ Len(lv[n]) >= 1
      /\ Len(lv[N]) = 1
  BY LevelsShrink
<1>2. AreLevels(lv, leaves, N)
  BY LevelsOf
<1>3. MerkleRoot(leaves) = lv[N][1]
  BY DEF MerkleRoot
<1>4. H = CHOOSE n \in 0..N : Len(lv[n]) = 1 /\ \A m \in 0..N : m < n => Len(lv[m]) # 1
  BY DEF Height
<1> HIDE DEF lv, N, H
<1>5. H \in 0..N /\ Len(lv[H]) = 1 /\ \A m \in 0..N : m < H => Len(lv[m]) # 1
  <2>1. N \in T /\ T \subseteq Nat
    BY <1>1
  <2>2. PICK h \in T : \A y \in T : h <= y
    BY <2>1, LeastOf
  <2>3. ASSUME NEW m \in 0..N, m < h PROVE Len(lv[m]) # 1
    BY <2>2, <2>3
  <2> QED
    BY <1>4, <2>2, <2>3
<1>6. ASSUME NEW n \in 0..N, n < H PROVE Len(lv[n]) > 1
  <2>1. Len(lv[n]) \in Nat /\ Len(lv[n]) >= 1 /\ Len(lv[n]) # 1
    BY <1>1, <1>5, <1>6
  <2> QED
    BY <2>1, OneOrMore, Zenon
<1>7. lv[N] = lv[H]
  <2> DEFINE Good == {n \in Nat : H <= n /\ n <= N => lv[n] = lv[H]}
  <2>1. 0 \in Good
    BY <1>1, <1>5
  <2>2. ASSUME NEW n \in Nat, n \in Good PROVE n + 1 \in Good
    <3>1. CASE H <= n /\ n + 1 <= N
      <4>1. n + 1 \in 1..N /\ (n + 1) - 1 = n /\ n <= N /\ n \in 0..N
        BY <1>1, <3>1
      <4>2. lv[n] = lv[H]
        BY <2>2, <3>1, <4>1
      <4>3. lv[n + 1] = NextLevel(lv[n])
        BY <1>2, <4>1 DEF AreLevels
      <4>4. NextLevel(lv[n]) = lv[n]
        <5>1. Len(lv[n]) <= 1
          BY <1>5, <4>2, OneIs, Zenon
        <5> QED
          BY <5>1 DEF NextLevel
      <4> QED
        BY <4>2, <4>3, <4>4
    <3>2. CASE H = n + 1
      BY <3>2
    <3>3. CASE ~(H <= n + 1 /\ n + 1 <= N)
      BY <3>3
    <3> QED
      BY <1>1, <1>5, <3>1, <3>2, <3>3
  <2> HIDE DEF Good
  <2>3. N \in Good
    BY <1>1, <2>1, <2>2, Induct
  <2> QED
    BY <1>1, <1>5, <2>3 DEF Good
<1> QED
  BY <1>3, <1>5, <1>6, <1>7 DEF lv, N, H

\* The place of a leaf on a level is half its place below.
LEMMA PlacesAre ==
    ASSUME NEW leaves, Len(leaves) \in Nat, NEW i \in Nat
    PROVE  LET p == Places(leaves, i) IN
           /\ p[0] = i
           /\ \A n \in 1..Len(leaves) : p[n] = (p[n - 1] + 1) \div 2
<1> DEFINE N == Len(leaves)
           Rec(p) == p = [n \in 0..N |-> IF n = 0 THEN i ELSE (p[n - 1] + 1) \div 2]
           g == [n \in 1..N |-> [k \in Nat |-> (k + 1) \div 2]]
<1>1. g \in StepFunctions(N, Nat)
  BY DEF StepFunctions
<1>2. \A n \in 1..N : \A k \in Nat : g[n][k] = (k + 1) \div 2
  OBVIOUS
<1> HIDE DEF g
<1>3. PICK f : IsStepped(f, N, Nat, i, g)
  BY <1>1, Stepped
<1>4. f \in [0..N -> Nat] /\ f[0] = i /\ \A n \in 1..N : f[n] = (f[n - 1] + 1) \div 2
  <2>1. f \in [0..N -> Nat] /\ f[0] = i /\ \A n \in 1..N : f[n] = g[n][f[n - 1]]
    BY <1>3 DEF IsStepped
  <2>2. ASSUME NEW n \in 1..N PROVE f[n] = (f[n - 1] + 1) \div 2
    <3>1. n - 1 \in 0..N
      OBVIOUS
    <3>2. f[n - 1] \in Nat
      BY <2>1, <3>1
    <3> QED
      BY <1>2, <2>1, <3>2
  <2> QED
    BY <2>1, <2>2
<1>5. Rec(f)
  <2>1. f = [n \in 0..N |-> f[n]]
    BY <1>4
  <2>2. \A n \in 0..N : f[n] = IF n = 0 THEN i ELSE (f[n - 1] + 1) \div 2
    BY <1>4
  <2> QED
    BY <2>1, <2>2
<1> DEFINE place == CHOOSE p : Rec(p)
<1>6. Rec(place)
  BY <1>5
<1>7. Places(leaves, i) = place
  BY DEF Places
<1> HIDE DEF place
<1>8. place[0] = i /\ \A n \in 1..N : place[n] = (place[n - 1] + 1) \div 2
  <2>1. 0 \in 0..N /\ \A n \in 1..N : n \in 0..N /\ n # 0
    OBVIOUS
  <2> QED
    BY <1>6, <2>1
<1> QED
  BY <1>7, <1>8

\* The place above one of m is one of half of m, and two places share it.
LEMMA Half ==
    ASSUME NEW m \in Nat, NEW p \in 1..m, m > 1
    PROVE  /\ (p + 1) \div 2 \in 1..((m + 1) \div 2)
           /\ p % 2 = 0 => p = 2 * ((p + 1) \div 2) /\ 2 * ((p + 1) \div 2) <= m
           /\ p % 2 # 0 => /\ p = 2 * ((p + 1) \div 2) - 1
                           /\ 2 * ((p + 1) \div 2) <= m <=> p < m
                           /\ p + 1 = 2 * ((p + 1) \div 2)
OBVIOUS

\* Up to the height the place of a leaf is one of its level.
LEMMA PlaceOnLevel ==
    ASSUME NEW leaves, Plain(leaves), leaves # <<>>, NEW i \in 1..Len(leaves)
    PROVE  \A n \in 0..Height(leaves) : Places(leaves, i)[n] \in 1..Len(Levels(leaves)[n])
<1> DEFINE N == Len(leaves)
           lv == Levels(leaves)
           H == Height(leaves)
           p == Places(leaves, i)
           Good == {n \in Nat : n <= H => p[n] \in 1..Len(lv[n])}
<1>1. /\ N \in Nat
      /\ \A n \in 0..N : Plain(lv[n]) /\ Len(lv[n]) \in Nat /\ Len(lv[n]) >= 1
  BY LevelsShrink
<1>2. AreLevels(lv, leaves, N)
  BY LevelsOf
<1>3. H \in 0..N /\ \A n \in 0..N : n < H => Len(lv[n]) > 1
  BY HeightIs
<1>4. p[0] = i /\ \A n \in 1..N : p[n] = (p[n - 1] + 1) \div 2
  <2>1. i \in Nat
    BY <1>1
  <2> QED
    BY <1>1, <2>1, PlacesAre
<1> HIDE DEF lv, p, H
<1>5. 0 \in Good
  BY <1>2, <1>4 DEF AreLevels
<1>6. ASSUME NEW n \in Nat, n \in Good PROVE n + 1 \in Good
  <2>1. CASE n + 1 <= H
    <3>1. n <= H /\ n < H /\ n + 1 \in 1..N /\ (n + 1) - 1 = n /\ n \in 0..N
      BY <1>1, <1>3, <2>1
    <3> DEFINE m == Len(lv[n])
               m1 == Len(lv[n + 1])
    <3>2. m \in Nat /\ m > 1
      BY <1>1, <1>3, <3>1
    <3>3. lv[n + 1] = NextLevel(lv[n])
      BY <1>2, <3>1 DEF AreLevels
    <3>4. m1 = (m + 1) \div 2
      BY <1>1, <3>1, <3>2, <3>3, NextLevelIs
    <3>5. p[n] \in 1..m
      BY <1>6, <3>1
    <3>6. p[n + 1] = (p[n] + 1) \div 2
      BY <1>4, <3>1
    <3> HIDE DEF m, m1
    <3>7. p[n + 1] \in 1..m1
      <4> DEFINE q == p[n]
      <4> HIDE DEF q
      <4>1. q \in 1..m
        BY <3>5 DEF q
      <4>2. (q + 1) \div 2 \in 1..((m + 1) \div 2)
        BY <3>2, <4>1, Half
      <4> QED
        BY <3>4, <3>6, <4>2 DEF q
    <3> QED
      BY <3>7 DEF m1
  <2>2. CASE ~(n + 1 <= H)
    BY <2>2
  <2> QED
    BY <2>1, <2>2
<1> HIDE DEF Good
<1>7. \A n \in Nat : n \in Good
  BY <1>5, <1>6, Induct
<1>8. ASSUME NEW n \in 0..H PROVE p[n] \in 1..Len(lv[n])
  <2>1. n \in Nat /\ n <= H
    BY <1>1, <1>3
  <2> QED
    BY <1>7, <2>1 DEF Good
<1> QED
  BY <1>8 DEF lv, p, H

\* One item of the path leads from a hash to the one above it.
LEMMA OneUp ==
    ASSUME NEW level, Len(level) \in Nat, Len(level) > 1, NEW p \in 1..Len(level),
           NEW item,
           item = LET mate == IF p % 2 = 0 THEN p - 1 ELSE IF p < Len(level) THEN p + 1 ELSE p
                  IN  [position |-> IF p % 2 = 0 THEN "left" ELSE "right", hash |-> level[mate]]
    PROVE  AddPathItem(level[p], item) = LevelAbove(level)[(p + 1) \div 2]
<1> DEFINE m == Len(level)
           k == (p + 1) \div 2
<1>1. m \in Nat /\ m > 1 /\ p \in 1..m
  OBVIOUS
<1>2. LevelAbove(level) = [j \in 1..((m + 1) \div 2) |-> Hash(level[2 * j - 1], IF 2 * j <= m THEN level[2 * j] ELSE level[2 * j - 1])]
  BY DEF LevelAbove
<1>3. item = LET mate == IF p % 2 = 0 THEN p - 1 ELSE IF p < m THEN p + 1 ELSE p
             IN  [position |-> IF p % 2 = 0 THEN "left" ELSE "right", hash |-> level[mate]]
  OBVIOUS
<1> HIDE DEF m
<1>4. /\ k \in 1..((m + 1) \div 2)
      /\ p % 2 = 0 => p = 2 * k /\ 2 * k <= m
      /\ p % 2 # 0 => p = 2 * k - 1 /\ (2 * k <= m <=> p < m) /\ p + 1 = 2 * k
  BY <1>1, Half
<1> HIDE DEF k
<1>5. LevelAbove(level)[k] = Hash(level[2 * k - 1], IF 2 * k <= m THEN level[2 * k] ELSE level[2 * k - 1])
  BY <1>2, <1>4
<1>6. CASE p % 2 = 0
  <2>1. item.position = "left" /\ item.hash = level[p - 1]
    BY <1>3, <1>6
  <2>2. p = 2 * k /\ 2 * k <= m /\ p - 1 = 2 * k - 1
    BY <1>4, <1>6
  <2>3. AddPathItem(level[p], item) = Hash(level[2 * k - 1], level[2 * k])
    BY <2>1, <2>2 DEF AddPathItem
  <2> QED
    BY <1>5, <2>2, <2>3 DEF k
<1>7. CASE p % 2 # 0
  <2>1. item.position = "right" /\ item.hash = level[IF p < m THEN p + 1 ELSE p]
    BY <1>3, <1>7
  <2>2. p = 2 * k - 1 /\ (2 * k <= m <=> p < m) /\ p + 1 = 2 * k
    BY <1>4, <1>7
  <2>3. AddPathItem(level[p], item) = Hash(level[p], item.hash)
    BY <2>1 DEF AddPathItem
  <2> QED
    BY <1>5, <2>1, <2>2, <2>3 DEF k
<1> QED
  BY <1>6, <1>7

\* The path the node gives for a leaf leads validateInBlock() from the leaf to the Merkle root,
\* for leaves of any number and at any place, odd levels included.
THEOREM PathProves ==
    ASSUME NEW leaves, Plain(leaves), leaves # <<>>, NEW i \in 1..Len(leaves)
    PROVE  ValidateInBlock(leaves[i], PathOf(leaves, i), MerkleRoot(leaves))
<1> DEFINE N == Len(leaves)
           lv == Levels(leaves)
           H == Height(leaves)
           p == Places(leaves, i)
           path == PathOf(leaves, i)
           leaf == leaves[i]
           Rec(h) == h = [n \in 0..Len(path) |-> IF n = 0 THEN leaf ELSE AddPathItem(h[n - 1], path[n])]
           hash == CHOOSE h : Rec(h)
           g == [n \in 0..H |-> lv[n][p[n]]]
<1>1. /\ N \in Nat
      /\ \A n \in 0..N : Plain(lv[n]) /\ Len(lv[n]) \in Nat /\ Len(lv[n]) >= 1
  BY LevelsShrink
<1>2. AreLevels(lv, leaves, N)
  BY LevelsOf
<1>3. H \in 0..N /\ Len(lv[H]) = 1 /\ (\A n \in 0..N : n < H => Len(lv[n]) > 1) /\ MerkleRoot(leaves) = lv[H][1]
  BY HeightIs
<1>4. p[0] = i /\ \A n \in 1..N : p[n] = (p[n - 1] + 1) \div 2
  <2>1. i \in Nat
    BY <1>1
  <2> QED
    BY <1>1, <2>1, PlacesAre
<1>5. \A n \in 0..H : p[n] \in 1..Len(lv[n])
  BY PlaceOnLevel
<1>6. path = [n \in 1..H |-> LET level == lv[n - 1]
                                 place == p[n - 1]
                                 mate  == IF place % 2 = 0 THEN place - 1 ELSE IF place < Len(level) THEN place + 1 ELSE place
                             IN  [position |-> IF place % 2 = 0 THEN "left" ELSE "right", hash |-> level[mate]]]
  BY DEF PathOf
<1>7. ValidateInBlock(leaf, path, MerkleRoot(leaves)) =
        IF path = <<>> THEN leaf = MerkleRoot(leaves) ELSE hash[Len(path)] = MerkleRoot(leaves)
  BY DEF ValidateInBlock
<1> HIDE DEF lv, H, p, path, leaf
<1>8. Len(path) = H
  <2>1. path = [n \in 1..H |-> path[n]] /\ H \in Nat
    BY <1>1, <1>3, <1>6
  <2> HIDE DEF N
  <2> QED
    BY <2>1, PlainIs
<1>9. g[0] = leaf
  <2>1. lv[0] = leaves
    BY <1>2 DEF AreLevels
  <2> QED
    BY <1>1, <1>3, <1>4, <2>1 DEF leaf
<1>10. ASSUME NEW n \in 1..H PROVE g[n] = AddPathItem(g[n - 1], path[n])
  <2>1. n \in 1..N /\ n - 1 \in 0..N /\ n - 1 < H /\ n - 1 \in 0..H /\ n \in 0..H
    BY <1>1, <1>3
  <2>2. Len(lv[n - 1]) \in Nat /\ Len(lv[n - 1]) > 1 /\ p[n - 1] \in 1..Len(lv[n - 1])
    BY <1>1, <1>3, <1>5, <2>1
  <2>3. path[n] = LET level == lv[n - 1]
                      place == p[n - 1]
                      mate  == IF place % 2 = 0 THEN place - 1 ELSE IF place < Len(level) THEN place + 1 ELSE place
                  IN  [position |-> IF place % 2 = 0 THEN "left" ELSE "right", hash |-> level[mate]]
    BY <1>6
  <2>4. AddPathItem(lv[n - 1][p[n - 1]], path[n]) = LevelAbove(lv[n - 1])[(p[n - 1] + 1) \div 2]
    BY <2>2, <2>3, OneUp
  <2>5. lv[n] = LevelAbove(lv[n - 1])
    <3>1. lv[n] = NextLevel(lv[n - 1])
      BY <1>2, <2>1 DEF AreLevels
    <3> QED
      BY <1>1, <2>1, <2>2, <3>1, NextLevelIs
  <2>6. p[n] = (p[n - 1] + 1) \div 2
    BY <1>4, <2>1
  <2> QED
    BY <2>1, <2>4, <2>5, <2>6
<1> HIDE DEF g
<1>11. Rec(g)
  <2>1. ASSUME NEW n \in 0..H PROVE g[n] = IF n = 0 THEN leaf ELSE AddPathItem(g[n - 1], path[n])
    <3>1. n = 0 \/ n \in 1..H
      BY <1>1, <1>3
    <3> QED
      BY <1>9, <1>10, <3>1
  <2>2. g = [n \in 0..H |-> g[n]]
    BY DEF g
  <2> QED
    BY <1>8, <2>1, <2>2
<1>12. Rec(hash)
  BY <1>11
<1> HIDE DEF hash
<1>13. \A n \in 0..H : hash[n] = g[n]
  <2>1. hash[0] = g[0]
    BY <1>1, <1>3, <1>8, <1>9, <1>12
  <2>2. ASSUME NEW n \in 1..H, hash[n - 1] = g[n - 1] PROVE hash[n] = g[n]
    <3>1. n \in 0..H /\ n # 0
      BY <1>1, <1>3
    <3> QED
      BY <1>8, <1>10, <1>12, <2>2, <3>1
  <2>3. H \in Nat
    BY <1>1, <1>3
  <2> DEFINE Agree == {n \in Nat : n <= H => hash[n] = g[n]}
  <2>4. 0 \in Agree
    BY <2>1
  <2>5. ASSUME NEW n \in Nat, n \in Agree PROVE n + 1 \in Agree
    <3>1. CASE n + 1 <= H
      <4>1. n <= H /\ n + 1 \in 1..H /\ (n + 1) - 1 = n
        BY <2>3, <3>1
      <4>2. hash[n] = g[n]
        BY <2>5, <4>1
      <4> QED
        BY <2>2, <4>1, <4>2
    <3>2. CASE ~(n + 1 <= H)
      BY <3>2
    <3> QED
      BY <3>1, <3>2
  <2> HIDE DEF Agree
  <2>6. \A n \in Nat : n \in Agree
    BY <2>4, <2>5, Induct
  <2> QED
    BY <2>3, <2>6 DEF Agree
<1>14. g[H] = MerkleRoot(leaves)
  <2>1. H \in 0..H
    BY <1>1, <1>3
  <2>2. p[H] = 1
    <3>1. p[H] \in 1..1
      BY <1>3, <1>5, <2>1, Zenon
    <3> QED
      BY <3>1
  <2> QED
    BY <1>3, <2>1, <2>2 DEF g
<1>15. hash[H] = MerkleRoot(leaves)
  <2>1. H \in 0..H
    BY <1>1, <1>3
  <2> QED
    BY <1>13, <1>14, <2>1
<1>16. path = <<>> => leaf = MerkleRoot(leaves)
  <2>1. path = <<>> => H = 0
    BY <1>8
  <2> QED
    BY <1>9, <1>14, <2>1
<1> QED
  BY <1>7, <1>8, <1>15, <1>16 DEF path, leaf

-----------------------------------------------------------------------------
(* What an object made of the JSON of a class serialises to.                *)
SlotsAgree(class, schema) ==
    /\ DOMAIN schema = DOMAIN class.serialized /\ DOMAIN class.dto = DOMAIN class.info
    /\ \A i \in DOMAIN schema :
         /\ \E j \in DOMAIN class.info : class.info[j] = class.serialized[i]
         /\ \A j \in DOMAIN class.info : class.info[j] = class.serialized[i] => class.dto[j] = schema[i]

\* A class whose slots agree with the schema serialises what it read to what was stored.
LEMMA SerializedAgain ==
    ASSUME NEW class, NEW schema, SlotsAgree(class, schema), NEW version
    PROVE  /\ Serialize(class, FromDto(class, Dto(class, version))) = [i \in DOMAIN schema |-> <<schema[i], version>>]
           /\ \A f \in ToSet(class.serialized) : FromDto(class, Dto(class, version))[f][2] = version
<1> DEFINE info == FromDto(class, Dto(class, version))
<1>1. ASSUME NEW i \in DOMAIN schema
      PROVE  info[class.serialized[i]] = <<schema[i], version>>
  <2> DEFINE f == class.serialized[i]
             k == CHOOSE j \in DOMAIN class.info : class.info[j] = f
  <2>1. k \in DOMAIN class.info /\ class.info[k] = f
    BY DEF SlotsAgree
  <2>2. f \in ToSet(class.info) /\ class.dto[k] = schema[i] /\ k \in DOMAIN class.dto
    BY <2>1 DEF SlotsAgree, ToSet
  <2>3. info[f] = Dto(class, version)[class.dto[k]]
    BY <2>2 DEF FromDto
  <2> HIDE DEF k
  <2>4. class.dto[k] \in ToSet(class.dto)
    BY <2>2 DEF ToSet
  <2>5. Dto(class, version)[class.dto[k]] = <<class.dto[k], version>>
    BY <2>4 DEF Dto
  <2> QED
    BY <2>2, <2>3, <2>5
<1> HIDE DEF info
<1>2. DOMAIN class.serialized = DOMAIN schema
  BY DEF SlotsAgree
<1>3. Serialize(class, info) = [i \in DOMAIN schema |-> <<schema[i], version>>]
  BY <1>1, <1>2 DEF Serialize
<1>4. ASSUME NEW f \in ToSet(class.serialized) PROVE info[f][2] = version
  <2>1. PICK i \in DOMAIN schema : f = class.serialized[i]
    BY <1>2 DEF ToSet
  <2> QED
    BY <1>1, <2>1
<1> QED
  BY <1>3, <1>4 DEF info

\* Every kind of entity serialises to what the node hashes.
LEMMA EntitiesAgree == \A kind \in EntityKinds : SlotsAgree(Entities[kind], Schema[kind])
<1>1. SlotsAgree(Entities["account"], Schema["account"])
  BY DEF SlotsAgree, Entities, Schema, Class, AccountDto, AccountInfo, AccountSerialized
<1>2. SlotsAgree(Entities["multisig"], Schema["multisig"])
  BY DEF SlotsAgree, Entities, Schema, Class, MultisigDto, MultisigAccountInfo, MultisigSerialized
<1>3. SlotsAgree(Entities["mosaic"], Schema["mosaic"])
  BY DEF SlotsAgree, Entities, Schema, Class, MosaicDto, MosaicInfo, MosaicSerialized
<1>4. SlotsAgree(Entities["secretLock"], Schema["secretLock"])
  BY DEF SlotsAgree, Entities, Schema, Class, SecretLockDto, SecretLockInfo, SecretLockSerialized
<1>5. SlotsAgree(Entities["hashLock"], Schema["hashLock"])
  BY DEF SlotsAgree, Entities, Schema, Class, HashLockDto, HashLockInfo, HashLockSerialized
<1>6. SlotsAgree(Entities["accountRestriction"], Schema["accountRestriction"])
  BY DEF SlotsAgree, Entities, Schema, Class, AccountRestrictionDto, AccountRestrictions, AccountRestrictionSerialized
<1>7. SlotsAgree(Entities["addressRestriction"], Schema["addressRestriction"])
  BY DEF SlotsAgree, Entities, Schema, Class, AddressRestrictionDto, MosaicAddressRestriction, AddressRestrictionSerialized
<1>8. SlotsAgree(Entities["globalRestriction"], Schema["globalRestriction"])
  BY DEF SlotsAgree, Entities, Schema, Class, GlobalRestrictionDto, MosaicGlobalRestriction, GlobalRestrictionSerialized
<1>9. SlotsAgree(Entities["metadata"], Schema["metadata"])
  BY DEF SlotsAgree, Entities, Schema, Class, MetadataDto, MetadataEntry, MetadataSerialized
<1>10. SlotsAgree(Entities["namespace"], Schema["namespace"])
  BY DEF SlotsAgree, Entities, Schema, Class, NamespaceDto, NamespaceInfo, NamespaceSerialized
<1>11. EntityKinds = {"account", "multisig", "mosaic", "secretLock", "hashLock", "accountRestriction", "addressRestriction", "globalRestriction", "metadata", "namespace"}
  BY DEF EntityKinds, AccountToMultisig, LocksToMetadata
<1> QED
  BY <1>1, <1>2, <1>3, <1>4, <1>5, <1>6, <1>7, <1>8, <1>9, <1>10, <1>11

\* And every type of receipt.
LEMMA ReceiptsAgree == \A type \in DOMAIN ClassOfType : SlotsAgree(Receipts[ClassOfType[type]], Schema[ClassOfType[type]])
<1>1. SlotsAgree(Receipts["balanceTransfer"], Schema["balanceTransfer"])
  BY DEF SlotsAgree, Receipts, Schema, Class, BalanceTransferDto, BalanceTransferReceipt, BalanceTransferSerialized
<1>2. SlotsAgree(Receipts["balanceChange"], Schema["balanceChange"])
  BY DEF SlotsAgree, Receipts, Schema, Class, BalanceChangeDto, BalanceChangeReceipt, BalanceChangeSerialized
<1>3. SlotsAgree(Receipts["artifactExpiry"], Schema["artifactExpiry"])
  BY DEF SlotsAgree, Receipts, Schema, Class, ArtifactExpiryDto, ArtifactExpiryReceipt, ArtifactExpirySerialized
<1>4. SlotsAgree(Receipts["inflation"], Schema["inflation"])
  BY DEF SlotsAgree, Receipts, Schema, Class, InflationDto, InflationReceipt, InflationSerialized
<1>5. SlotsAgree(Receipts["addressResolution"], Schema["addressResolution"])
  BY DEF SlotsAgree, Receipts, Schema, Class, AddressResolutionDto, ResolutionStatement, ResolutionSerialized
<1>6. SlotsAgree(Receipts["mosaicResolution"], Schema["mosaicResolution"])
  BY DEF SlotsAgree, Receipts, Schema, Class, MosaicResolutionDto, ResolutionStatement, ResolutionSerialized
<1>7. \A type \in DOMAIN ClassOfType : ClassOfType[type] \in {"balanceTransfer", "balanceChange", "artifactExpiry", "inflation", "addressResolution", "mosaicResolution"}
  BY DEF ClassOfType
<1> QED
  BY <1>1, <1>2, <1>3, <1>4, <1>5, <1>6, <1>7

\* The info of an entity serialises to what the node stored, each part of the version it had.
LEMMA ReadsAsStored ==
    ASSUME NEW kind \in EntityKinds, NEW version
    PROVE  LET info == FromDto(Entities[kind], Dto(Entities[kind], version))
           IN  /\ Serialize(Entities[kind], info) = Stored(kind, version)
               /\ \A f \in ToSet(Entities[kind].serialized) : info[f][2] = version
BY EntitiesAgree, SerializedAgain DEF Stored

\* The hash of a statement that was read is its leaf.
LEMMA StatementHashed ==
    ASSUME NEW statement \in Statements
    PROVE  GenerateHash(statement) = StatementLeaf(statement)
<1>1. ASSUME NEW i \in DOMAIN statement.types
      PROVE  LET class == Receipts[ClassOfType[statement.types[i]]]
             IN  Serialize(class, FromDto(class, Dto(class, statement.version)))
                   = Stored(ClassOfType[statement.types[i]], statement.version)
  <2>1. statement.types[i] \in DOMAIN ClassOfType
    <3>1. statement.types \in Seq(DOMAIN ClassOfType)
      BY StatementsAssumption DEF StatementsAssumption
    <3> QED
      BY <3>1
  <2> QED
    BY <2>1, ReceiptsAgree, SerializedAgain DEF Stored
<1>2. [i \in DOMAIN statement.types |->
         LET type  == statement.types[i]
             class == Receipts[ClassOfType[type]]
         IN  <<type>> \o Serialize(class, FromDto(class, Dto(class, statement.version)))]
      = [i \in DOMAIN statement.types |->
          LET type == statement.types[i] IN <<type>> \o Stored(ClassOfType[type], statement.version)]
  BY <1>1
<1> QED
  BY <1>2 DEF GenerateHash, StatementLeaf

-----------------------------------------------------------------------------
(* The paths below a namespace's root, in order.                            *)
IsPaths(C) ==
    /\ IsFiniteSet(C)
    /\ \A p \in C : /\ p \in Seq(Nat) /\ Len(p) \in {1, 2}
                    /\ Len(p) = 2 => <<p[1]>> \in C
Earlier(C) == {pq \in C \X C : Before(pq[1], pq[2])}

\* The node's order of paths is an order.
LEMMA EarlierIs ==
    ASSUME NEW C, IsPaths(C)
    PROVE  /\ \A p, q \in C : <<p, q>> \in Earlier(C) <=> Before(p, q)
           /\ IsOrder(Earlier(C), C)
<1>1. \A p, q \in C : <<p, q>> \in Earlier(C) <=> Before(p, q)
  BY DEF Earlier
<1>2. ASSUME NEW p \in C
      PROVE  /\ Len(p) \in {1, 2} /\ p[1] \in Nat /\ (Len(p) = 2 => p[2] \in Nat)
             /\ Len(p) = 1 => p = <<p[1]>>
             /\ Len(p) = 2 => p = <<p[1], p[2]>>
  <2>1. p \in Seq(Nat) /\ Len(p) \in {1, 2}
    BY DEF IsPaths
  <2>2. p[1] \in Nat /\ (Len(p) = 2 => p[2] \in Nat)
    BY <2>1
  <2>3. p = [i \in 1..Len(p) |-> p[i]]
    BY <2>1
  <2>4. Len(p) = 1 => p = <<p[1]>>
    BY <2>3
  <2>5. Len(p) = 2 => p = <<p[1], p[2]>>
    BY <2>3
  <2> QED
    BY <2>1, <2>2, <2>4, <2>5
<1>3. ASSUME NEW p \in C, NEW q \in C, Before(p, q) PROVE p # q
  BY <1>2, <1>3 DEF Before
<1>4. ASSUME NEW p \in C, NEW q \in C, NEW r \in C, Before(p, q), Before(q, r) PROVE Before(p, r)
  <2>1. /\ Len(p) \in {1, 2} /\ p[1] \in Nat /\ (Len(p) = 2 => p[2] \in Nat)
        /\ Len(q) \in {1, 2} /\ q[1] \in Nat /\ (Len(q) = 2 => q[2] \in Nat)
        /\ Len(r) \in {1, 2} /\ r[1] \in Nat /\ (Len(r) = 2 => r[2] \in Nat)
    BY <1>2
  <2> QED
    BY <1>4, <2>1 DEF Before
<1>5. ASSUME NEW p \in C, NEW q \in C PROVE p = q \/ Before(p, q) \/ Before(q, p)
  <2>1. /\ Len(p) \in {1, 2} /\ p[1] \in Nat /\ (Len(p) = 2 => p[2] \in Nat)
        /\ Len(q) \in {1, 2} /\ q[1] \in Nat /\ (Len(q) = 2 => q[2] \in Nat)
    BY <1>2
  <2>2. p[1] = q[1] /\ Len(p) = Len(q) /\ (Len(p) = 2 => p[2] = q[2]) => p = q
    <3>1. (Len(p) = 1 => p = <<p[1]>>) /\ (Len(q) = 1 => q = <<q[1]>>)
      BY <1>2
    <3>2. (Len(p) = 2 => p = <<p[1], p[2]>>) /\ (Len(q) = 2 => q = <<q[1], q[2]>>)
      BY <1>2
    <3> QED
      BY <2>1, <3>1, <3>2
  <2> QED
    BY <2>1, <2>2 DEF Before
<1> QED
  BY <1>1, <1>3, <1>4, <1>5 DEF IsOrder

\* And Ordered gives the paths in it.
LEMMA OrderedIs ==
    ASSUME NEW C, IsPaths(C)
    PROVE  Cardinality(C) \in Nat /\ Enumerates(Ordered(C), Cardinality(C), Earlier(C), C)
<1> DEFINE R == Earlier(C)
<1>1. (\A p, q \in C : <<p, q>> \in R <=> Before(p, q)) /\ IsOrder(R, C) /\ IsFiniteSet(C)
  BY EarlierIs DEF IsPaths
<1> HIDE DEF R
<1>2. ASSUME NEW p \in C PROVE UpTo(R, C, p) = {q \in C : q = p \/ Before(q, p)}
  BY <1>1 DEF UpTo
<1>3. ASSUME NEW k \in 1..Cardinality(C)
      PROVE  Ordered(C)[k] \in C /\ Cardinality(UpTo(R, C, Ordered(C)[k])) = k
  <2>1. PICK p \in C : Cardinality(UpTo(R, C, p)) = k
    BY <1>1, OneOfRank
  <2>2. Cardinality({q \in C : q = p \/ Before(q, p)}) = k
    BY <1>2, <2>1
  <2>3. Ordered(C)[k] = CHOOSE x \in C : Cardinality({q \in C : q = x \/ Before(q, x)}) = k
    BY DEF Ordered
  <2>4. Ordered(C)[k] \in C /\ Cardinality({q \in C : q = Ordered(C)[k] \/ Before(q, Ordered(C)[k])}) = k
    BY <2>2, <2>3
  <2> QED
    BY <1>2, <2>4
<1>4. Ordered(C) \in [1..Cardinality(C) -> C]
  BY <1>3 DEF Ordered
<1>5. Enumerates(Ordered(C), Cardinality(C), R, C)
  BY <1>1, <1>3, <1>4, Ranked
<1> QED
  BY <1>1, <1>5, FS_CardinalityType DEF R

\* Two rows in order, the first before the second, are a row in order.
LEMMA RowsJoined ==
    ASSUME NEW R, NEW S, NEW T, NEW m \in Nat, NEW n \in Nat, NEW s, NEW t,
           Enumerates(s, m, R, S), Enumerates(t, n, R, T), \A x \in S : \A y \in T : <<x, y>> \in R
    PROVE  s \o t \in Seq(S \union T) /\ Len(s \o t) = m + n /\ Enumerates(s \o t, m + n, R, S \union T)
<1> DEFINE U == S \union T
           u == s \o t
<1>1. s \in [1..m -> S] /\ t \in [1..n -> T]
  BY DEF Enumerates
<1>2. s \in Seq(U) /\ t \in Seq(U) /\ Len(s) = m /\ Len(t) = n
  <2>1. s \in [1..m -> U] /\ t \in [1..n -> U]
    BY <1>1
  <2> HIDE DEF U
  <2> QED
    BY <2>1
<1>3. u \in Seq(U) /\ Len(u) = m + n
  BY <1>2
<1>4. /\ \A i \in 1..m : u[i] = s[i]
      /\ \A i \in (m + 1)..(m + n) : i - m \in 1..n /\ u[i] = t[i - m]
  BY <1>2
<1> HIDE DEF u, U
<1>5. u \in [1..(m + n) -> U]
  <2>1. u \in [1..Len(u) -> U]
    BY <1>3
  <2> QED
    BY <1>3, <2>1
<1>6. ASSUME NEW x \in S \union T PROVE \E k \in 1..(m + n) : u[k] = x
  <2>1. CASE x \in S
    <3>1. PICK k \in 1..m : s[k] = x
      BY <2>1 DEF Enumerates
    <3>2. k \in 1..(m + n) /\ u[k] = x
      BY <1>4, <3>1
    <3> QED
      BY <3>2
  <2>2. CASE x \in T
    <3>1. PICK k \in 1..n : t[k] = x
      BY <2>2 DEF Enumerates
    <3>2. m + k \in (m + 1)..(m + n) /\ (m + k) - m = k /\ m + k \in 1..(m + n)
      OBVIOUS
    <3>3. u[m + k] = x
      BY <1>4, <3>1, <3>2
    <3> QED
      BY <3>2, <3>3
  <2> QED
    BY <2>1, <2>2
<1>7. ASSUME NEW j \in 1..(m + n), NEW k \in 1..(m + n), j < k PROVE <<u[j], u[k]>> \in R
  <2>1. CASE k <= m
    <3>1. j \in 1..m /\ k \in 1..m
      BY <1>7, <2>1
    <3> QED
      BY <1>4, <1>7, <3>1 DEF Enumerates
  <2>2. CASE j > m
    <3>1. j \in (m + 1)..(m + n) /\ k \in (m + 1)..(m + n) /\ j - m \in 1..n /\ k - m \in 1..n /\ j - m < k - m
      BY <1>7, <2>2
    <3> QED
      BY <1>4, <3>1 DEF Enumerates
  <2>3. CASE j <= m /\ k > m
    <3>1. j \in 1..m /\ k \in (m + 1)..(m + n) /\ k - m \in 1..n
      BY <1>7, <2>3
    <3>2. u[j] \in S /\ u[k] \in T
      BY <1>1, <1>4, <3>1
    <3> QED
      BY <3>2
  <2> QED
    BY <2>1, <2>2, <2>3
<1> QED
  BY <1>3, <1>5, <1>6, <1>7 DEF Enumerates, u, U

\* Rows one after another, each before the next.
LEMMA Flattened ==
    ASSUME NEW C, NEW R, NEW N \in Nat, NEW rows, NEW T, NEW U, \A x : x \in U <=> \E i \in 1..N : x \in T[i],
           rows = [i \in 1..N |-> rows[i]],
           \A i \in 1..N : T[i] \subseteq C,
           \A i \in 1..N : rows[i] \in Seq(C) /\ Enumerates(rows[i], Len(rows[i]), R, T[i]),
           \A i, j \in 1..N : i < j => \A x \in T[i] : \A y \in T[j] : <<x, y>> \in R
    PROVE  LET all == FlattenSeq(rows)
           IN  \E m \in Nat : Enumerates(all, m, R, U)
<1> DEFINE Rec(f) == f = [i \in 1..Len(rows) |-> IF i = 1 THEN rows[i] ELSE f[i - 1] \o rows[i]]
           flatten == CHOOSE f : Rec(f)
           UpFrom(k) == UNION {T[i] : i \in 1..k}
           Good == {k \in Nat : k <= N => k = 0 \/ (/\ flatten[k] \in Seq(C)
                                                    /\ Enumerates(flatten[k], Len(flatten[k]), R, UpFrom(k)))}
<1>1. Len(rows) = N /\ DOMAIN rows = 1..N
  BY PlainIs
<1>2. Rec(flatten)
  <2> DEFINE g == [i \in 1..N |-> [s \in Seq(C) |-> s \o rows[i]]]
  <2>1. g \in StepFunctions(N, Seq(C))
    BY DEF StepFunctions
  <2>2. \A i \in 1..N : \A s \in Seq(C) : g[i][s] = s \o rows[i]
    OBVIOUS
  <2> HIDE DEF g
  <2>3. <<>> \in Seq(C)
    OBVIOUS
  <2>4. PICK h : IsStepped(h, N, Seq(C), <<>>, g)
    BY <2>1, <2>3, Stepped
  <2>5. h \in [0..N -> Seq(C)] /\ h[0] = <<>> /\ \A i \in 1..N : h[i] = g[i][h[i - 1]]
    BY <2>4 DEF IsStepped
  <2>6. ASSUME NEW i \in 1..N PROVE h[i] = IF i = 1 THEN rows[i] ELSE h[i - 1] \o rows[i]
    <3>1. i - 1 \in 0..N /\ rows[i] \in Seq(C)
      OBVIOUS
    <3>2. h[i] = h[i - 1] \o rows[i]
      BY <2>2, <2>5, <3>1
    <3>3. CASE i = 1
      <4>1. h[i - 1] = <<>>
        BY <2>5, <3>3
      <4>2. <<>> \o rows[i] = rows[i]
        BY <3>1
      <4> QED
        BY <3>2, <3>3, <4>1, <4>2
    <3> QED
      BY <3>2, <3>3
  <2> DEFINE f == [i \in 1..N |-> h[i]]
  <2>7. ASSUME NEW i \in 1..N PROVE f[i] = IF i = 1 THEN rows[i] ELSE f[i - 1] \o rows[i]
    <3>1. i # 1 => i - 1 \in 1..N
      OBVIOUS
    <3> QED
      BY <2>6, <3>1
  <2>8. Rec(f)
    <3>1. f = [i \in 1..N |-> f[i]]
      OBVIOUS
    <3> HIDE DEF f
    <3> QED
      BY <1>1, <2>7, <3>1
  <2> QED
    BY <2>8
<1>3. FlattenSeq(rows) = IF N = 0 THEN rows ELSE flatten[N]
  BY <1>1 DEF FlattenSeq
<1> HIDE DEF flatten
<1>4. \A i \in 1..N : flatten[i] = IF i = 1 THEN rows[i] ELSE flatten[i - 1] \o rows[i]
  BY <1>1, <1>2
<1>5. 0 \in Good
  OBVIOUS
<1>6. ASSUME NEW k \in Nat, k \in Good PROVE k + 1 \in Good
  <2>1. CASE k + 1 <= N /\ k = 0
    <3>1. 1 \in 1..N /\ flatten[1] = rows[1]
      BY <1>4, <2>1
    <3>2. UpFrom(1) = T[1]
      <4>1. 1..1 = {1}
        OBVIOUS
      <4> QED
        BY <4>1
    <3>3. flatten[1] \in Seq(C) /\ Enumerates(flatten[1], Len(flatten[1]), R, UpFrom(1))
      BY <3>1, <3>2
    <3> HIDE DEF UpFrom
    <3> QED
      BY <2>1, <3>3
  <2>2. CASE k + 1 <= N /\ k # 0
    <3>1. k + 1 \in 1..N /\ k + 1 # 1 /\ (k + 1) - 1 = k /\ k <= N
      BY <2>2
    <3>2. flatten[k + 1] = flatten[k] \o rows[k + 1]
      BY <1>4, <3>1
    <3>3. flatten[k] \in Seq(C) /\ Enumerates(flatten[k], Len(flatten[k]), R, UpFrom(k))
      BY <1>6, <2>2, <3>1
    <3>4. rows[k + 1] \in Seq(C) /\ Enumerates(rows[k + 1], Len(rows[k + 1]), R, T[k + 1])
      BY <3>1
    <3>5. \A x \in UpFrom(k) : \A y \in T[k + 1] : <<x, y>> \in R
      <4>1. ASSUME NEW x \in UpFrom(k), NEW y \in T[k + 1] PROVE <<x, y>> \in R
        <5>1. PICK i \in 1..k : x \in T[i]
          OBVIOUS
        <5>2. i \in 1..N /\ i < k + 1
          BY <3>1
        <5> QED
          BY <3>1, <5>1, <5>2
      <4> QED
        BY <4>1
    <3>6. UpFrom(k + 1) = UpFrom(k) \union T[k + 1]
      <4>1. 1..(k + 1) = (1..k) \union {k + 1}
        OBVIOUS
      <4> QED
        BY <4>1
    <3> DEFINE a == flatten[k]
               b == rows[k + 1]
               m == Len(a)
               n == Len(b)
               S1 == UpFrom(k)
               T1 == T[k + 1]
    <3>7. a \in Seq(C) /\ b \in Seq(C) /\ m \in Nat /\ n \in Nat
      BY <3>3, <3>4
    <3>8. Enumerates(a, m, R, S1) /\ Enumerates(b, n, R, T1) /\ \A x \in S1 : \A y \in T1 : <<x, y>> \in R
      BY <3>3, <3>4, <3>5
    <3> HIDE DEF UpFrom, a, b, m, n, S1, T1
    <3>12. Enumerates(a \o b, m + n, R, S1 \union T1)
      BY <3>7, <3>8, RowsJoined
    <3>9. Enumerates(a \o b, m + n, R, UpFrom(k) \union T[k + 1])
      BY <3>12 DEF S1, T1
    <3>10. a \o b \in Seq(C) /\ Len(a \o b) = m + n
      BY <3>7 DEF m, n
    <3>11. flatten[k + 1] \in Seq(C) /\ Enumerates(flatten[k + 1], Len(flatten[k + 1]), R, UpFrom(k + 1))
      <4>1. flatten[k + 1] = a \o b
        BY <3>2 DEF a, b
      <4> QED
        BY <3>6, <3>9, <3>10, <4>1
    <3> QED
      BY <3>11
  <2>3. CASE ~(k + 1 <= N)
    BY <2>3
  <2> QED
    BY <2>1, <2>2, <2>3
<1> HIDE DEF Good, UpFrom
<1>7. N \in Good
  BY <1>5, <1>6, Induct
<1>8. CASE N = 0
  <2>1. rows = <<>>
    BY <1>1, <1>8
  <2>2. U = {}
    BY <1>8
  <2>3. FlattenSeq(rows) = <<>> /\ Len(<<>>) = 0 /\ <<>> \in Seq(C)
    BY <1>3, <1>8, <2>1
  <2>4. Enumerates(<<>>, 0, R, {})
    BY DEF Enumerates
  <2> QED
    BY <2>2, <2>3, <2>4
<1>9. CASE N # 0
  <2>1. flatten[N] \in Seq(C) /\ Enumerates(flatten[N], Len(flatten[N]), R, UpFrom(N))
    BY <1>7, <1>9 DEF Good
  <2>2. Len(flatten[N]) \in Nat
    BY <2>1
  <2>3. UpFrom(N) = U
    BY DEF UpFrom
  <2> QED
    BY <1>3, <1>9, <2>1, <2>2, <2>3
<1> QED
  BY <1>8, <1>9

\* The names at one place of finitely many paths are finitely many.
LEMMA PartsFinite ==
    ASSUME NEW M, IsFiniteSet(M), NEW k
    PROVE  IsFiniteSet({p[k] : p \in M})
<1> DEFINE T == {p[k] : p \in M}
           f == [p \in M |-> p[k]]
<1>1. f \in Surjection(M, T)
  BY DEF Surjection
<1> HIDE DEF f, T
<1>2. IsFiniteSet(T)
  BY <1>1, FS_Surjection
<1> QED
  BY <1>2 DEF T

\* A path has one name or two, and the one it begins with is there.
LEMMA PathIs ==
    ASSUME NEW C, IsPaths(C), NEW p \in C
    PROVE  /\ p \in Seq(Nat) /\ Len(p) \in {1, 2} /\ p[1] \in Nat /\ (Len(p) = 2 => p[2] \in Nat)
           /\ Len(p) = 1 => p = <<p[1]>>
           /\ Len(p) = 2 => p = <<p[1], p[2]>>
           /\ <<p[1]>> \in C
<1>1. p \in Seq(Nat) /\ Len(p) \in {1, 2} /\ (Len(p) = 2 => <<p[1]>> \in C)
  BY DEF IsPaths
<1>2. p[1] \in Nat /\ (Len(p) = 2 => p[2] \in Nat)
  BY <1>1
<1>3. p = [i \in 1..Len(p) |-> p[i]]
  BY <1>1
<1>4. Len(p) = 1 => p = <<p[1]>>
  BY <1>3
<1>5. Len(p) = 2 => p = <<p[1], p[2]>>
  BY <1>3
<1> QED
  BY <1>1, <1>2, <1>4, <1>5

Below(C, n) == {l[2] : l \in {m \in C : Len(m) = 2 /\ m[1] = n}}
PathsOf(C, n) == <<<<n>>>> \o [j \in DOMAIN Ascending(Below(C, n)) |-> <<n, Ascending(Below(C, n))[j]>>]

\* A path of one name before those of two that it begins.
LEMMA PathsOfIs ==
    ASSUME NEW C, IsPaths(C), NEW n, <<n>> \in C
    PROVE  LET row == PathsOf(C, n)
           IN  row \in Seq(C) /\ Enumerates(row, Len(row), Earlier(C), {p \in C : p[1] = n})
<1> DEFINE R == Earlier(C)
           B == Below(C, n)
           asc == Ascending(B)
           c == Cardinality(B)
           one == <<<<n>>>>
           two == [j \in 1..c |-> <<n, asc[j]>>]
           T == {p \in C : Len(p) = 2 /\ p[1] = n}
           S == {<<n>>}
<1>1. (\A p, q \in C : <<p, q>> \in R <=> Before(p, q)) /\ IsOrder(R, C)
  BY EarlierIs
<1>2. IsFiniteSet(B) /\ B \subseteq Nat
  <2>1. IsFiniteSet(C) /\ T \in SUBSET C
    BY DEF IsPaths
  <2>2. IsFiniteSet(T)
    BY <2>1, FS_Subset
  <2>3. IsFiniteSet({p[2] : p \in T})
    <3> HIDE DEF T
    <3> QED
      BY <2>2, PartsFinite
  <2>4. \A p \in T : p[2] \in Nat
    BY PathIs
  <2> QED
    BY <2>3, <2>4 DEF Below
<1>3. c \in Nat /\ Enumerates(asc, c, Smaller(B), B)
  <2> HIDE DEF B
  <2> QED
    BY <1>2, AscendingIs
<1>4. /\ asc \in [1..c -> B]
      /\ \A j, k \in 1..c : j < k => asc[j] < asc[k]
      /\ \A x \in B : \E k \in 1..c : asc[k] = x
  <2>1. \A x, y \in B : <<x, y>> \in Smaller(B) <=> x < y
    <3> HIDE DEF B
    <3> QED
      BY <1>2, SmallerOrders
  <2> HIDE DEF B, asc, c
  <2>2. asc \in [1..c -> B]
    BY <1>3 DEF Enumerates
  <2>3. ASSUME NEW j \in 1..c, NEW k \in 1..c, j < k PROVE asc[j] < asc[k]
    <3>1. asc[j] \in B /\ asc[k] \in B /\ <<asc[j], asc[k]>> \in Smaller(B)
      BY <1>3, <2>2, <2>3 DEF Enumerates
    <3> QED
      BY <2>1, <3>1
  <2> QED
    BY <1>3, <2>2, <2>3 DEF Enumerates
<1>5. PathsOf(C, n) = one \o two
  <2>1. DOMAIN asc = 1..c
    BY <1>4
  <2> QED
    BY <2>1 DEF PathsOf
<1>6. \A x \in B : <<n, x>> \in T
  <2>1. ASSUME NEW l \in C, Len(l) = 2, l[1] = n PROVE <<n, l[2]>> \in T
    <3>1. l = <<n, l[2]>>
      BY <2>1, PathIs
    <3> QED
      BY <2>1, <3>1
  <2> QED
    BY <2>1 DEF Below
<1>7. \A p \in T : p[2] \in B /\ p = <<n, p[2]>>
  <2>1. ASSUME NEW p \in T PROVE p[2] \in B /\ p = <<n, p[2]>>
    <3>1. p = <<p[1], p[2]>>
      BY PathIs
    <3> QED
      BY <3>1 DEF Below
  <2> QED
    BY <2>1
<1> HIDE DEF B, asc, c
<1>8. two \in [1..c -> T] /\ \A x \in T : \E k \in 1..c : two[k] = x
  <2>1. two \in [1..c -> T]
    BY <1>4, <1>6
  <2>2. ASSUME NEW x \in T PROVE \E k \in 1..c : two[k] = x
    <3>1. x[2] \in B /\ x = <<n, x[2]>>
      BY <1>7
    <3>2. PICK k \in 1..c : asc[k] = x[2]
      BY <1>4, <3>1
    <3> QED
      BY <3>1, <3>2
  <2> QED
    BY <2>1, <2>2
<1>9. n \in Nat
  BY PathIs
<1>10. ASSUME NEW j \in 1..c, NEW k \in 1..c, j < k PROVE <<two[j], two[k]>> \in R
  <2>1. two[j] \in C /\ two[k] \in C /\ two[j] = <<n, asc[j]>> /\ two[k] = <<n, asc[k]>>
    BY <1>8
  <2>2. asc[j] < asc[k]
    BY <1>4, <1>10
  <2>3. Before(<<n, asc[j]>>, <<n, asc[k]>>)
    BY <2>2 DEF Before
  <2> QED
    BY <1>1, <2>1, <2>3
<1>11. Enumerates(two, c, R, T)
  BY <1>8, <1>10 DEF Enumerates
<1>12. Enumerates(one, 1, R, S)
  <2>1. one \in [1..1 -> S] /\ one[1] = <<n>>
    OBVIOUS
  <2>2. \A j, k \in 1..1 : ~(j < k)
    OBVIOUS
  <2> HIDE DEF one
  <2> QED
    BY <2>1, <2>2 DEF Enumerates
<1>13. ASSUME NEW y \in T PROVE <<<<n>>, y>> \in R
  <2>1. Before(<<n>>, y)
    BY DEF Before
  <2> QED
    BY <1>1, <2>1
<1>14. S \union T = {p \in C : p[1] = n}
  <2>1. ASSUME NEW p \in C, p[1] = n PROVE p \in S \union T
    <3>1. Len(p) = 1 => p = <<n>>
      BY <2>1, PathIs
    <3>2. Len(p) = 1 \/ Len(p) = 2
      BY PathIs
    <3> QED
      BY <2>1, <3>1, <3>2
  <2> QED
    BY <2>1
<1>15. one \in Seq(C) /\ two \in Seq(C) /\ Len(one) = 1 /\ Len(two) = c
  <2>1. two \in [1..c -> C]
    BY <1>8
  <2> HIDE DEF two
  <2> QED
    BY <1>3, <2>1
<1>16. one \o two \in Seq(C) /\ Len(one \o two) = 1 + c
  <2> HIDE DEF one, two
  <2>0. one \in Seq(C) /\ two \in Seq(C)
    BY <1>15
  <2>1. one \o two \in Seq(C) /\ Len(one \o two) = Len(one) + Len(two)
    BY <2>0
  <2> QED
    BY <1>15, <2>1, Zenon
<1>17. \A x \in S : \A y \in T : <<x, y>> \in R
  BY <1>13
<1>18. Enumerates(one \o two, 1 + c, R, S \union T)
  <2> HIDE DEF one, two, S, T, R
  <2> QED
    BY <1>3, <1>11, <1>12, <1>17, RowsJoined
<1> QED
  BY <1>5, <1>14, <1>16, <1>18

\* However the paths come, they are serialised in the node's order.
LEMMA NamespacePathOrders ==
    ASSUME NEW C, IsPaths(C), NEW paths, ToSet(paths) = C
    PROVE  NamespacePath(paths) = Ordered(C)
<1> DEFINE R == Earlier(C)
           M == {m \in C : Len(m) = 1}
           A == {m[1] : m \in M}
           asc == Ascending(A)
           c == Cardinality(A)
           rows == [i \in 1..c |-> PathsOf(C, asc[i])]
           T == [i \in 1..c |-> {p \in C : p[1] = asc[i]}]
           all == FlattenSeq(rows)
<1>1. (\A p, q \in C : <<p, q>> \in R <=> Before(p, q)) /\ IsOrder(R, C)
  BY EarlierIs
<1>2. IsFiniteSet(A) /\ A \subseteq Nat /\ (\A n \in A : <<n>> \in C) /\ \A p \in C : p[1] \in A
  <2>1. IsFiniteSet(C) /\ M \in SUBSET C
    BY DEF IsPaths
  <2>2. IsFiniteSet(M)
    BY <2>1, FS_Subset
  <2>3. IsFiniteSet(A)
    <3> HIDE DEF M
    <3> QED
      BY <2>2, PartsFinite
  <2>4. \A m \in M : m[1] \in Nat /\ <<m[1]>> \in C
    BY PathIs
  <2>5. ASSUME NEW p \in C PROVE p[1] \in A
    <3>1. <<p[1]>> \in M /\ <<p[1]>>[1] = p[1]
      BY PathIs
    <3> QED
      BY <3>1
  <2> QED
    BY <2>3, <2>4, <2>5
<1> HIDE DEF M
<1>3. NamespacePath(paths) = FlattenSeq([i \in DOMAIN asc |-> PathsOf(C, asc[i])])
  BY DEF NamespacePath, PathsOf, Below, M
<1> HIDE DEF A
<1>4. c \in Nat /\ Enumerates(asc, c, Smaller(A), A)
  BY <1>2, AscendingIs
<1> HIDE DEF asc, c
<1>5. /\ asc \in [1..c -> A]
      /\ \A x \in A : \E k \in 1..c : asc[k] = x
  BY <1>4 DEF Enumerates
<1>6. ASSUME NEW j \in 1..c, NEW k \in 1..c, j < k PROVE asc[j] < asc[k]
  <2>1. asc[j] \in A /\ asc[k] \in A /\ <<asc[j], asc[k]>> \in Smaller(A)
    BY <1>4, <1>5, <1>6 DEF Enumerates
  <2> QED
    BY <1>2, <2>1, SmallerOrders
<1>7. NamespacePath(paths) = all
  BY <1>3, <1>5
<1>8. ASSUME NEW i \in 1..c
      PROVE  /\ T[i] \subseteq C
             /\ rows[i] \in Seq(C) /\ Enumerates(rows[i], Len(rows[i]), R, T[i])
  <2>1. <<asc[i]>> \in C
    BY <1>2, <1>5
  <2> DEFINE n == asc[i]
  <2> HIDE DEF n
  <2>2. PathsOf(C, n) \in Seq(C) /\ Enumerates(PathsOf(C, n), Len(PathsOf(C, n)), R, {p \in C : p[1] = n})
    BY <2>1, PathsOfIs DEF n
  <2> QED
    BY <2>2 DEF n
<1>9. ASSUME NEW i \in 1..c, NEW j \in 1..c, i < j, NEW x \in T[i], NEW y \in T[j] PROVE <<x, y>> \in R
  <2>1. x \in C /\ y \in C /\ x[1] = asc[i] /\ y[1] = asc[j]
    OBVIOUS
  <2>2. x[1] < y[1]
    BY <1>6, <1>9, <2>1
  <2>3. Before(x, y)
    BY <2>2 DEF Before
  <2> QED
    BY <1>1, <2>1, <2>3
<1>10. \A p : p \in C <=> \E i \in 1..c : p \in T[i]
  <2>1. ASSUME NEW p \in C PROVE \E i \in 1..c : p \in T[i]
    <3>1. PICK i \in 1..c : asc[i] = p[1]
      BY <1>2, <1>5
    <3> QED
      BY <3>1
  <2>2. \A i \in 1..c : T[i] \subseteq C
    OBVIOUS
  <2> HIDE DEF T
  <2> QED
    BY <2>1, <2>2
<1>11. rows = [i \in 1..c |-> rows[i]]
  OBVIOUS
<1> HIDE DEF rows, T, R
<1>12. PICK m \in Nat : Enumerates(all, m, R, C)
  <2>1. \A i \in 1..c : T[i] \subseteq C
    BY <1>8
  <2>2. \A i \in 1..c : rows[i] \in Seq(C) /\ Enumerates(rows[i], Len(rows[i]), R, T[i])
    BY <1>8
  <2>3. \A i, j \in 1..c : i < j => \A x \in T[i] : \A y \in T[j] : <<x, y>> \in R
    BY <1>9
  <2>4. c \in Nat
    BY <1>4
  <2> QED
    BY <1>10, <1>11, <2>1, <2>2, <2>3, <2>4, Flattened
<1> HIDE DEF all
<1>13. IsFiniteSet(C) /\ Cardinality(C) \in Nat /\ Enumerates(Ordered(C), Cardinality(C), R, C)
  BY OrderedIs DEF IsPaths, R
<1>16. all = Ordered(C)
  BY <1>1, <1>12, <1>13, OneOrder DEF R
<1> QED
  BY <1>7, <1>16

\* A list of the paths, either way round, has them all.
LEMMA ListsAll ==
    ASSUME NEW S, IsFiniteSet(S)
    PROVE  ToSet(SetToSeq(S)) = S /\ ToSet(Reverse(SetToSeq(S))) = S
<1> DEFINE n == Cardinality(S)
           s == SetToSeq(S)
<1>1. n \in Nat /\ ExistsBijection(1..n, S)
  BY FS_CardinalityType
<1>2. PICK f \in [1..n -> S] : IsInjective(f)
  BY <1>1 DEF ExistsBijection, Bijection, Injection
<1>3. s \in [1..n -> S] /\ IsInjective(s)
  BY <1>2 DEF SetToSeq
<1> HIDE DEF s
<1>4. \A x \in S : \E k \in 1..n : s[k] = x
  <2> DEFINE T == 1..n
  <2>1. IsFiniteSet(T) /\ Cardinality(T) = n
    BY <1>1, FS_Interval
  <2>2. s \in Injection(T, S)
    BY <1>3 DEF Injection
  <2> HIDE DEF T
  <2>3. s \in Surjection(T, S)
    BY <2>1, <2>2, FS_Injection
  <2> QED
    BY <2>3 DEF Surjection, T
<1>5. ToSet(s) = S
  BY <1>3, <1>4 DEF ToSet
<1>6. Len(s) = n
  <2>1. s = [k \in 1..n |-> s[k]]
    BY <1>3
  <2> HIDE DEF n
  <2> QED
    BY <1>1, <2>1, PlainIs
<1> HIDE DEF n
<1>7. Reverse(s) = [i \in 1..n |-> s[(n - i) + 1]]
  BY <1>6 DEF Reverse
<1>8. \A i \in 1..n : (n - i) + 1 \in 1..n /\ (n - ((n - i) + 1)) + 1 = i
  BY <1>1
<1>9. ToSet(Reverse(s)) = S
  <2>1. ASSUME NEW x \in S PROVE \E i \in 1..n : Reverse(s)[i] = x
    <3>1. PICK k \in 1..n : s[k] = x
      BY <1>4
    <3>2. Reverse(s)[(n - k) + 1] = s[k] /\ (n - k) + 1 \in 1..n
      BY <1>7, <1>8
    <3> QED
      BY <3>1, <3>2
  <2>2. \A i \in 1..n : Reverse(s)[i] \in S
    BY <1>3, <1>7, <1>8
  <2>3. DOMAIN Reverse(s) = 1..n
    BY <1>7
  <2> QED
    BY <2>1, <2>2, <2>3 DEF ToSet
<1> QED
  BY <1>5, <1>9 DEF s

-----------------------------------------------------------------------------
(* The mask of a branch.                                                    *)

\* The step from a power of two to the next, with the exponents named.
LEMMA Doubled ==
    ASSUME NEW n, NEW k, NEW l, n = k, n + 1 = l, 2^k \in Nat, 2^k > 0, 2^l = 2 * 2^k
    PROVE  2^n \in Nat /\ 2^n > 0 /\ 2^(n + 1) = 2 * 2^n
<1>1. 2^n = 2^k /\ 2^(n + 1) = 2^l
  BY Zenon
<1> QED
  BY <1>1, Zenon

\* The powers of two that a mask is made of.
LEMMA Powers == /\ 2^0 = 1 /\ 2^16 \in Nat
                /\ \A n \in 0..15 : 2^n \in Nat /\ 2^n > 0 /\ 2^(n + 1) = 2 * 2^n
<1>1. 2^0 = 1 /\ 2^16 \in Nat
  BY SMT
<1>2. ASSUME NEW n \in 0..15 PROVE 2^n \in Nat /\ 2^n > 0 /\ 2^(n + 1) = 2 * 2^n
  <2>0. CASE n = 0
    <3>1. n + 1 = 1
      BY <2>0, SMT
    <3>2. 2^0 \in Nat /\ 2^0 > 0 /\ 2^1 = 2 * 2^0
      BY SMT
    <3> QED
      BY <2>0, <3>1, <3>2, Doubled
  <2>1. CASE n = 1
    <3>1. n + 1 = 2
      BY <2>1, SMT
    <3>2. 2^1 \in Nat /\ 2^1 > 0 /\ 2^2 = 2 * 2^1
      BY SMT
    <3> QED
      BY <2>1, <3>1, <3>2, Doubled
  <2>2. CASE n = 2
    <3>1. n + 1 = 3
      BY <2>2, SMT
    <3>2. 2^2 \in Nat /\ 2^2 > 0 /\ 2^3 = 2 * 2^2
      BY SMT
    <3> QED
      BY <2>2, <3>1, <3>2, Doubled
  <2>3. CASE n = 3
    <3>1. n + 1 = 4
      BY <2>3, SMT
    <3>2. 2^3 \in Nat /\ 2^3 > 0 /\ 2^4 = 2 * 2^3
      BY SMT
    <3> QED
      BY <2>3, <3>1, <3>2, Doubled
  <2>4. CASE n = 4
    <3>1. n + 1 = 5
      BY <2>4, SMT
    <3>2. 2^4 \in Nat /\ 2^4 > 0 /\ 2^5 = 2 * 2^4
      BY SMT
    <3> QED
      BY <2>4, <3>1, <3>2, Doubled
  <2>5. CASE n = 5
    <3>1. n + 1 = 6
      BY <2>5, SMT
    <3>2. 2^5 \in Nat /\ 2^5 > 0 /\ 2^6 = 2 * 2^5
      BY SMT
    <3> QED
      BY <2>5, <3>1, <3>2, Doubled
  <2>6. CASE n = 6
    <3>1. n + 1 = 7
      BY <2>6, SMT
    <3>2. 2^6 \in Nat /\ 2^6 > 0 /\ 2^7 = 2 * 2^6
      BY SMT
    <3> QED
      BY <2>6, <3>1, <3>2, Doubled
  <2>7. CASE n = 7
    <3>1. n + 1 = 8
      BY <2>7, SMT
    <3>2. 2^7 \in Nat /\ 2^7 > 0 /\ 2^8 = 2 * 2^7
      BY SMT
    <3> QED
      BY <2>7, <3>1, <3>2, Doubled
  <2>8. CASE n = 8
    <3>1. n + 1 = 9
      BY <2>8, SMT
    <3>2. 2^8 \in Nat /\ 2^8 > 0 /\ 2^9 = 2 * 2^8
      BY SMT
    <3> QED
      BY <2>8, <3>1, <3>2, Doubled
  <2>9. CASE n = 9
    <3>1. n + 1 = 10
      BY <2>9, SMT
    <3>2. 2^9 \in Nat /\ 2^9 > 0 /\ 2^10 = 2 * 2^9
      BY SMT
    <3> QED
      BY <2>9, <3>1, <3>2, Doubled
  <2>10. CASE n = 10
    <3>1. n + 1 = 11
      BY <2>10, SMT
    <3>2. 2^10 \in Nat /\ 2^10 > 0 /\ 2^11 = 2 * 2^10
      BY SMT
    <3> QED
      BY <2>10, <3>1, <3>2, Doubled
  <2>11. CASE n = 11
    <3>1. n + 1 = 12
      BY <2>11, SMT
    <3>2. 2^11 \in Nat /\ 2^11 > 0 /\ 2^12 = 2 * 2^11
      BY SMT
    <3> QED
      BY <2>11, <3>1, <3>2, Doubled
  <2>12. CASE n = 12
    <3>1. n + 1 = 13
      BY <2>12, SMT
    <3>2. 2^12 \in Nat /\ 2^12 > 0 /\ 2^13 = 2 * 2^12
      BY SMT
    <3> QED
      BY <2>12, <3>1, <3>2, Doubled
  <2>13. CASE n = 13
    <3>1. n + 1 = 14
      BY <2>13, SMT
    <3>2. 2^13 \in Nat /\ 2^13 > 0 /\ 2^14 = 2 * 2^13
      BY SMT
    <3> QED
      BY <2>13, <3>1, <3>2, Doubled
  <2>14. CASE n = 14
    <3>1. n + 1 = 15
      BY <2>14, SMT
    <3>2. 2^14 \in Nat /\ 2^14 > 0 /\ 2^15 = 2 * 2^14
      BY SMT
    <3> QED
      BY <2>14, <3>1, <3>2, Doubled
  <2>15. CASE n = 15
    <3>1. n + 1 = 16
      BY <2>15, SMT
    <3>2. 2^15 \in Nat /\ 2^15 > 0 /\ 2^16 = 2 * 2^15
      BY SMT
    <3> QED
      BY <2>15, <3>1, <3>2, Doubled
  <2>20. n = 0 \/ n = 1 \/ n = 2 \/ n = 3 \/ n = 4 \/ n = 5 \/ n = 6 \/ n = 7 \/ n = 8 \/ n = 9 \/ n = 10 \/ n = 11
           \/ n = 12 \/ n = 13 \/ n = 14 \/ n = 15
    BY SMT
  <2> QED
    BY <2>20, <2>0, <2>1, <2>2, <2>3, <2>4, <2>5, <2>6, <2>7, <2>8, <2>9, <2>10, <2>11, <2>12, <2>13, <2>14, <2>15, Zenon
<1> QED
  BY <1>1, <1>2, Zenon

\* What is left of a number above a power of two.
LEMMA Quotient ==
    ASSUME NEW P \in Nat, P > 0, NEW q \in Nat, NEW l \in Nat, l < P
    PROVE  (l + P * q) \div P = q
<1> DEFINE v == l + P * q
           d == v \div P
<1>1. v \in Nat /\ d \in Nat
  OBVIOUS
<1>2. P * d <= v /\ v < P * d + P
  OBVIOUS
<1> HIDE DEF d
<1>3. ~(d < q)
  <2>1. SUFFICES ASSUME d + 1 <= q PROVE FALSE
    BY <1>1
  <2>2. P * (d + 1) <= P * q
    BY <1>1, <2>1
  <2> QED
    BY <1>1, <1>2, <2>2
<1>4. ~(q < d)
  <2>1. SUFFICES ASSUME q + 1 <= d PROVE FALSE
    BY <1>1
  <2>2. P * (q + 1) <= P * d
    BY <1>1, <2>1
  <2> QED
    BY <1>1, <1>2, <2>2
<1> QED
  BY <1>1, <1>3, <1>4 DEF d

(* A sum of different powers of two below 2^16 tells which they are.        *)
LEMMA SumTells ==
    ASSUME NEW B, NEW s, s[0] = 0,
           \A n \in 1..16 : s[n] = s[n - 1] + (IF n - 1 \in B THEN 2^(n - 1) ELSE 0)
    PROVE  /\ s[16] \in Nat
           /\ \A bit \in 0..15 : (s[16] \div 2^bit) % 2 = 1 <=> bit \in B
<1> DEFINE T == 16
           Under == {n \in Nat : n <= T => s[n] \in Nat /\ s[n] < 2^n}
           Rest == {j \in Nat : j <= T => \E q \in Nat : s[T] = s[T - j] + 2^(T - j) * q}
<1>1. ASSUME NEW n \in 1..16
      PROVE  LET x == IF n - 1 \in B THEN 1 ELSE 0
             IN  s[n] = s[n - 1] + 2^(n - 1) * x
  <2> DEFINE k == n - 1
             P == 2^k
  <2>1. k \in 0..15 /\ s[n] = s[k] + (IF k \in B THEN 2^k ELSE 0)
    <3>1. k \in 0..15
      OBVIOUS
    <3>2. s[n] = s[k] + (IF k \in B THEN 2^k ELSE 0)
      BY Zenon
    <3> QED
      BY <3>1, <3>2, Zenon
  <2> HIDE DEF k
  <2>2. P \in Nat
    BY <2>1, Powers
  <2> HIDE DEF P
  <2>3. s[n] = s[k] + (IF k \in B THEN P ELSE 0)
    BY <2>1 DEF P
  <2>4. P * 1 = P /\ P * 0 = 0
    BY <2>2
  <2>5. s[n] = s[k] + P * (IF k \in B THEN 1 ELSE 0)
    BY <2>3, <2>4
  <2> QED
    BY <2>5 DEF P, k
<1>2. 0 \in Under
  BY Powers
<1>3. ASSUME NEW n \in Nat, n \in Under PROVE n + 1 \in Under
  <2>1. SUFFICES ASSUME n + 1 <= T PROVE s[n + 1] \in Nat /\ s[n + 1] < 2^(n + 1)
    OBVIOUS
  <2>2. n \in 0..15 /\ n + 1 \in 1..16 /\ (n + 1) - 1 = n /\ n <= T
    BY <2>1
  <2>3. 2^n \in Nat /\ 2^(n + 1) = 2 * 2^n
    BY <2>2, Powers
  <2>4. s[n] \in Nat /\ s[n] < 2^n
    BY <1>3, <2>2
  <2>5. s[n + 1] = s[n] + (IF n \in B THEN 2^n ELSE 0)
    BY <2>2
  <2> DEFINE P == 2^n  w == 2^(n + 1)  t == s[n]
  <2> HIDE DEF P, w, t
  <2>6. P \in Nat /\ w = 2 * P /\ t \in Nat /\ t < P /\ s[n + 1] = t + (IF n \in B THEN P ELSE 0)
    BY <2>3, <2>4, <2>5 DEF P, w, t
  <2>7. s[n + 1] \in Nat /\ s[n + 1] < w
    BY <2>6
  <2> QED
    BY <2>7 DEF w
<1> HIDE DEF Under
<1>4. ASSUME NEW n \in 0..16 PROVE s[n] \in Nat /\ s[n] < 2^n
  <2>1. n \in Nat /\ n <= T
    OBVIOUS
  <2>2. n \in Under
    BY <1>2, <1>3, <2>1, Induct
  <2> QED
    BY <2>1, <2>2 DEF Under
<1>5. 0 \in Rest
  <2>1. T - 0 = T /\ s[T] \in Nat /\ 2^T \in Nat
    BY <1>4, Powers
  <2>2. s[T] = s[T] + 2^T * 0
    BY <2>1
  <2> QED
    BY <2>1, <2>2
<1>6. ASSUME NEW j \in Nat, j \in Rest PROVE j + 1 \in Rest
  <2>1. SUFFICES ASSUME j + 1 <= T PROVE \E q \in Nat : s[T] = s[T - (j + 1)] + 2^(T - (j + 1)) * q
    OBVIOUS
  <2> DEFINE n == T - j  m == T - (j + 1)
  <2>2. n \in 1..16 /\ m \in 0..15 /\ n = m + 1 /\ n - 1 = m /\ j <= T
    BY <2>1
  <2>3. PICK q \in Nat : s[T] = s[n] + 2^n * q
    BY <1>6, <2>2
  <2> DEFINE x == IF m \in B THEN 1 ELSE 0
             P == 2^m  w == 2^n  t == s[m]
  <2> HIDE DEF n, m, T
  <2>4. s[n] = t + P * x
    BY <1>1, <2>2 DEF P, t
  <2>5. P \in Nat /\ w = 2 * P /\ t \in Nat /\ x \in Nat
    <3>1. m \in 0..16 /\ 2^(m + 1) = w
      BY <2>2 DEF w
    <3>2. 2^m \in Nat /\ 2^(m + 1) = 2 * 2^m
      BY <2>2, Powers
    <3> QED
      BY <1>4, <3>1, <3>2 DEF P, t
  <2> HIDE DEF P, w, x, t
  <2>6. s[T] = (t + P * x) + w * q
    BY <2>3, <2>4 DEF w
  <2>7. (t + P * x) + w * q = t + P * (x + 2 * q) /\ x + 2 * q \in Nat
    BY <2>5
  <2>8. s[T] = s[m] + 2^m * (x + 2 * q)
    BY <2>6, <2>7 DEF P, t
  <2> QED
    BY <2>7, <2>8 DEF m
<1> HIDE DEF Rest
<1>7. ASSUME NEW bit \in 0..15 PROVE (s[T] \div 2^bit) % 2 = 1 <=> bit \in B
  <2> DEFINE j == 15 - bit
             x == IF bit \in B THEN 1 ELSE 0
             P == 2^bit  w == 2^(bit + 1)  t == s[bit]
  <2>1. j \in Nat /\ j <= T /\ T - j = bit + 1 /\ bit + 1 \in 1..16 /\ (bit + 1) - 1 = bit
    OBVIOUS
  <2>2. j \in Rest
    BY <1>5, <1>6, <2>1, Induct
  <2>3. PICK q \in Nat : s[T] = s[bit + 1] + 2^(bit + 1) * q
    BY <2>1, <2>2 DEF Rest
  <2>4. s[bit + 1] = t + P * x
    BY <1>1, <2>1
  <2>5. P \in Nat /\ P > 0 /\ w = 2 * P /\ t \in Nat /\ t < P /\ x \in {0, 1}
    <3>1. bit \in 0..16
      OBVIOUS
    <3>2. 2^bit \in Nat /\ 2^bit > 0 /\ 2^(bit + 1) = 2 * 2^bit
      BY Powers
    <3>3. s[bit] \in Nat /\ s[bit] < 2^bit
      BY <1>4, <3>1
    <3> QED
      BY <3>2, <3>3
  <2> HIDE DEF P, w, t, x, T
  <2>6. s[T] = (t + P * x) + w * q
    BY <2>3, <2>4 DEF w
  <2>7. (t + P * x) + w * q = t + P * (x + 2 * q) /\ x + 2 * q \in Nat
    BY <2>5
  <2>8. s[T] \div P = x + 2 * q
    BY <2>5, <2>6, <2>7, Quotient
  <2>9. (s[T] \div P) % 2 = x
    BY <2>5, <2>8
  <2> QED
    BY <2>9 DEF P, x
<1>8. s[T] \in Nat
  BY <1>4
<1> QED
  BY <1>7, <1>8

\* The mask of a branch has the bits of its links.
LEMMA MaskIs ==
    ASSUME NEW branch, NEW below
    PROVE  /\ Mask(branch, below) \in Nat
           /\ \A bit \in 0..15 : (Mask(branch, below) \div 2^bit) % 2 = 1 <=> bit \in Bits(branch, below)
<1> DEFINE B == Bits(branch, below)
           Rec(f) == f = [n \in 0..16 |-> IF n = 0 THEN 0
                                          ELSE f[n - 1] + (IF n - 1 \in B THEN 2^(n - 1) ELSE 0)]
           sum == CHOOSE f : Rec(f)
           step == [n \in 1..16 |-> [v \in Nat |-> v + (IF n - 1 \in B THEN 2^(n - 1) ELSE 0)]]
<1> HIDE DEF B
<1>1. \A n \in 1..16 : 2^(n - 1) \in Nat
  <2>1. \A n \in 1..16 : n - 1 \in 0..15
    OBVIOUS
  <2> QED
    BY <2>1, Powers
<1>2. step \in StepFunctions(16, Nat)
  BY <1>1 DEF StepFunctions
<1>3. PICK f : IsStepped(f, 16, Nat, 0, step)
  BY <1>2, Stepped
<1>4. f \in [0..16 -> Nat] /\ f[0] = 0 /\ \A n \in 1..16 : f[n] = step[n][f[n - 1]]
  BY <1>3 DEF IsStepped
<1>5. ASSUME NEW n \in 1..16
      PROVE  f[n - 1] \in Nat /\ f[n] = f[n - 1] + (IF n - 1 \in B THEN 2^(n - 1) ELSE 0)
  <2> DEFINE P == 2^(n - 1)
  <2>1. step[n] = [v \in Nat |-> v + (IF n - 1 \in B THEN P ELSE 0)]
    OBVIOUS
  <2>2. n - 1 \in 0..16
    OBVIOUS
  <2> HIDE DEF P, step
  <2>3. f[n - 1] \in Nat /\ f[n] = step[n][f[n - 1]]
    BY <1>4, <2>2
  <2>4. step[n][f[n - 1]] = f[n - 1] + (IF n - 1 \in B THEN P ELSE 0)
    BY <2>1, <2>3
  <2> QED
    BY <2>3, <2>4 DEF P
<1>6. Rec(f)
  <2>1. \A n \in 0..16 : n = 0 \/ n \in 1..16
    OBVIOUS
  <2> QED
    BY <1>4, <1>5, <2>1
<1>7. Rec(sum)
  BY <1>6
<1>8. Mask(branch, below) = sum[16]
  BY DEF Mask, B
<1> HIDE DEF sum
<1>9. sum[0] = 0
  BY <1>7
<1>10. \A n \in 1..16 : sum[n] = sum[n - 1] + (IF n - 1 \in B THEN 2^(n - 1) ELSE 0)
  <2>1. \A n \in 1..16 : n \in 0..16 /\ n # 0
    OBVIOUS
  <2> QED
    BY <1>7, <2>1
<1>11. /\ sum[16] \in Nat
       /\ \A bit \in 0..15 : (sum[16] \div 2^bit) % 2 = 1 <=> bit \in B
  BY <1>9, <1>10, SumTells
<1> QED
  BY <1>8, <1>11 DEF B

\* And the two bytes of the mask are read as those bits, in order.
LEMMA MaskRead ==
    ASSUME NEW branch, NEW below, NEW two, two[1] = Mask(branch, below) % 256, two[2] = Mask(branch, below) \div 256
    PROVE  BitsFromMask(two) = Ascending(Bits(branch, below))
<1> DEFINE m == Mask(branch, below)
<1>1. m \in Nat
  BY MaskIs
<1>2. two[1] + 256 * two[2] = m
  <2> HIDE DEF m
  <2>1. (m % 256) + 256 * (m \div 256) = m
    BY <1>1
  <2> QED
    BY <2>1 DEF m
<1>3. Bits(branch, below) \subseteq 0..15
  BY DEF Bits
<1>4. {bit \in 0..15 : ((two[1] + 256 * two[2]) \div 2^bit) % 2 = 1} = Bits(branch, below)
  <2> DEFINE B == Bits(branch, below)
             intValue == two[1] + 256 * two[2]
  <2>1. intValue = m
    BY <1>2
  <2>2. \A bit \in 0..15 : (m \div 2^bit) % 2 = 1 <=> bit \in B
    BY MaskIs, Zenon
  <2>0. B \subseteq 0..15
    BY <1>3
  <2> HIDE DEF B, intValue, m
  <2>3. {bit \in 0..15 : (m \div 2^bit) % 2 = 1} = B
    <3> DEFINE IsSet(bit) == (m \div 2^bit) % 2 = 1
    <3>1. \A bit \in 0..15 : IsSet(bit) <=> bit \in B
      BY <2>2
    <3> HIDE DEF IsSet
    <3>2. {bit \in 0..15 : IsSet(bit)} = B
      BY <2>0, <3>1, Zenon
    <3> QED
      BY <3>2 DEF IsSet
  <2> QED
    BY <2>1, <2>3 DEF B, intValue
<1> QED
  BY <1>4 DEF BitsFromMask

-----------------------------------------------------------------------------
(* Links.                                                                   *)

\* The bits of the links, in order.
LEMMA BitsAscend ==
    ASSUME NEW branch, NEW below
    PROVE  LET B == Bits(branch, below) s == Ascending(B)
           IN  /\ Cardinality(B) \in Nat /\ s \in [1..Cardinality(B) -> B] /\ B \subseteq 0..15
               /\ \A x \in B : \E k \in 1..Cardinality(B) : s[k] = x
<1> DEFINE B == Bits(branch, below)
<1>1. B \subseteq 0..15 /\ B \subseteq Nat
  BY DEF Bits
<1>2. IsFiniteSet(B)
  <2>1. \A i, j \in Int : IsFiniteSet(i..j)
    BY FS_Interval
  <2>2. IsFiniteSet(0..15)
    <3>1. 0 \in Int /\ 15 \in Int
      OBVIOUS
    <3> QED
      BY <2>1, <3>1, Zenon
  <2> HIDE DEF B
  <2> QED
    BY <1>1, <2>2, FS_Subset
<1> HIDE DEF B
<1>3. Cardinality(B) \in Nat /\ Enumerates(Ascending(B), Cardinality(B), Smaller(B), B)
  BY <1>1, <1>2, AscendingIs
<1> QED
  BY <1>1, <1>3 DEF Enumerates, B

\* The list of links has one for each bit.
LEMMA LinksAre ==
    ASSUME NEW branch, NEW below
    PROVE  LET B == Bits(branch, below) m == Cardinality(B) s == Ascending(B)
           IN  /\ m \in Nat
               /\ LinksOf(branch, below) = [i \in 1..m |-> [bit |-> s[i], link |-> Linked(branch, below)[s[i]]]]
<1> DEFINE B == Bits(branch, below)
           s == Ascending(B)
           m == Cardinality(B)
<1>1. m \in Nat /\ DOMAIN s = 1..m
  BY BitsAscend
<1>2. LinksOf(branch, below) = [i \in DOMAIN s |-> [bit |-> s[i], link |-> Linked(branch, below)[s[i]]]]
  BY DEF LinksOf
<1> QED
  BY <1>1, <1>2

\* A branch is hashed over sixteen links, those of its list and zeros.
LEMMA BranchHashed ==
    ASSUME NEW branch, NEW below, NEW path
    PROVE  BranchHash(path, LinksOf(branch, below)) = <<"branch", path, Linked(branch, below)>>
<1> DEFINE B == Bits(branch, below)
           s == Ascending(B)
           m == Cardinality(B)
           full == Linked(branch, below)
           links == LinksOf(branch, below)
           out == [bit \in 0..15 |-> IF \E i \in DOMAIN links : links[i].bit = bit
                         THEN links[CHOOSE i \in DOMAIN links : links[i].bit = bit].link ELSE NoLink]
<1>1. s \in [1..m -> B] /\ B \subseteq 0..15 /\ \A x \in B : \E k \in 1..m : s[k] = x
  BY BitsAscend
<1>2. links = [i \in 1..m |-> [bit |-> s[i], link |-> full[s[i]]]]
  BY LinksAre
<1>3. full = [bit \in 0..15 |-> full[bit]] /\ \A bit \in 0..15 : bit \in B <=> full[bit] # NoLink
  BY DEF Linked, Bits
<1> HIDE DEF full, B, s, m, links
<1>4. ASSUME NEW bit \in 0..15 PROVE out[bit] = full[bit]
  <2>1. CASE bit \in B
    <3>1. \E i \in DOMAIN links : links[i].bit = bit
      BY <1>1, <1>2, <2>1
    <3> DEFINE k == CHOOSE i \in DOMAIN links : links[i].bit = bit
    <3>2. k \in DOMAIN links /\ links[k].bit = bit
      BY <3>1
    <3>3. out[bit] = links[k].link
      BY <3>1
    <3> HIDE DEF k, out
    <3>4. links[k].link = full[bit]
      BY <1>2, <3>2
    <3> QED
      BY <3>3, <3>4
  <2>2. CASE bit \notin B
    <3>1. ~ \E i \in DOMAIN links : links[i].bit = bit
      BY <1>1, <1>2, <2>2
    <3> QED
      BY <1>3, <2>2, <3>1
  <2> QED
    BY <2>1, <2>2
<1>5. out = [bit \in 0..15 |-> out[bit]]
  OBVIOUS
<1> HIDE DEF out
<1>6. out = full
  BY <1>3, <1>4, <1>5
<1> QED
  BY <1>6 DEF BranchHash, out, full, links

(* Paths of nibbles.                                                        *)
Padded(nibbles) == IF Len(nibbles) % 2 = 1 THEN nibbles \o <<0>> ELSE nibbles
Prefix(nibbles, flag) == (IF Len(nibbles) % 2 = 1 THEN <<flag + 1>> ELSE <<flag, 0>>) \o nibbles

\* A path padded to whole bytes begins with its nibbles.
LEMMA PadIs ==
    ASSUME NEW nibbles \in Nibbles
    PROVE  LET n == Len(nibbles) p == Padded(nibbles)
           IN  /\ n \in Nat /\ Len(p) \in Nat
               /\ Len(p) \div 2 = PathLength(n) /\ PathLength(n) \in Nat
               /\ \A i \in 1..(2 * PathLength(n)) : p[i] \in 0..15
               /\ \A i \in 1..n : i \in 1..(2 * PathLength(n)) /\ p[i] = nibbles[i]
<1> DEFINE n == Len(nibbles)
           p == Padded(nibbles)
<1>1. n \in Nat /\ nibbles \in [1..n -> 0..15]
  BY DEF Nibbles
<1>2. CASE n % 2 = 1
  <2>1. p = nibbles \o <<0>>
    BY <1>2 DEF Padded
  <2>2. Len(p) = n + 1 /\ (\A i \in 1..n : p[i] = nibbles[i]) /\ p[n + 1] = 0
    BY <1>1, <2>1 DEF Nibbles
  <2> HIDE DEF p, n
  <2>3. (n + 1) \div 2 \in Nat /\ 2 * ((n + 1) \div 2) = n + 1
    BY <1>1, <1>2
  <2>4. \A i \in 1..(n + 1) : i = n + 1 \/ i \in 1..n
    BY <1>1
  <2>6. \A i \in 1..n : p[i] \in 0..15
    BY <1>1, <2>2
  <2>7. p[n + 1] \in 0..15
    BY <2>2
  <2>5. \A i \in 1..(n + 1) : p[i] \in 0..15
    BY <2>4, <2>6, <2>7, Zenon
  <2> QED
    BY <1>1, <2>2, <2>3, <2>5 DEF PathLength, n, p
<1>3. CASE n % 2 # 1
  <2>1. p = nibbles
    BY <1>3 DEF Padded
  <2> HIDE DEF p, n
  <2>3. (n + 1) \div 2 \in Nat /\ 2 * ((n + 1) \div 2) = n /\ n \div 2 = (n + 1) \div 2
    BY <1>1, <1>3
  <2>4. Len(p) = n
    BY <2>1 DEF n
  <2> QED
    BY <1>1, <2>1, <2>3, <2>4 DEF PathLength, n, p
<1> QED
  BY <1>2, <1>3

\* The nibbles of a path are those it was packed from.
LEMMA NibbleRead ==
    ASSUME NEW nibbles \in Nibbles, NEW index \in Nat, index < Len(nibbles)
    PROVE  NibbleAt(Pack(Padded(nibbles)), index) = nibbles[index + 1]
<1> DEFINE n == Len(nibbles)
           p == Padded(nibbles)
           h == PathLength(n)
           k == index \div 2 + 1
<1>1. /\ n \in Nat /\ Len(p) \in Nat /\ Len(p) \div 2 = h /\ h \in Nat
      /\ \A i \in 1..(2 * h) : p[i] \in 0..15
      /\ \A i \in 1..n : i \in 1..(2 * h) /\ p[i] = nibbles[i]
  BY PadIs
<1>2. h = (n + 1) \div 2 /\ index < n
  BY DEF PathLength
<1>3. Pack(p) = [j \in 1..h |-> p[2 * j - 1] * 16 + p[2 * j]]
  BY <1>1 DEF Pack
<1> HIDE DEF n, p, h
<1>4. k \in 1..h /\ 2 * k - 1 \in 1..(2 * h) /\ 2 * k \in 1..(2 * h) /\ index + 1 \in 1..n
  BY <1>1, <1>2
<1>5. index % 2 = 0 => 2 * k - 1 = index + 1
  OBVIOUS
<1>6. index % 2 # 0 => 2 * k = index + 1
  OBVIOUS
<1> HIDE DEF k
<1> DEFINE hi == p[2 * k - 1]
           lo == p[2 * k]
<1>7. Pack(p)[k] = hi * 16 + lo /\ hi \in 0..15 /\ lo \in 0..15
  BY <1>1, <1>3, <1>4
<1>8. (index % 2 = 0 => hi = nibbles[index + 1]) /\ (index % 2 # 0 => lo = nibbles[index + 1])
  <2>1. p[index + 1] = nibbles[index + 1]
    BY <1>1, <1>4
  <2> QED
    BY <1>5, <1>6, <2>1
<1> HIDE DEF hi, lo
<1>9. (hi * 16 + lo) \div 16 = hi /\ (hi * 16 + lo) % 16 = lo
  BY <1>7
<1> QED
  BY <1>7, <1>8, <1>9 DEF NibbleAt, k, p

\* A path that was read is encoded as the node encodes it.
LEMMA PathEncoded ==
    ASSUME NEW nibbles \in Nibbles, NEW isLeaf \in BOOLEAN
    PROVE  EncodePath(Pack(Padded(nibbles)), Len(nibbles), isLeaf) = Prefixed(nibbles, IF isLeaf THEN 2 ELSE 0)
<1> DEFINE n == Len(nibbles)
           odd == n % 2
           flag == IF isLeaf THEN 2 ELSE 0
           path == Pack(Padded(nibbles))
           pre == Prefix(nibbles, flag)
           h == n \div 2 + 1
           out == EncodePath(path, n, isLeaf)
<1>1. n \in Nat /\ nibbles \in [1..n -> 0..15] /\ flag \in {0, 2}
  BY DEF Nibbles
<1>2. \A index \in Nat : index < n => NibbleAt(path, index) = nibbles[index + 1]
  BY NibbleRead
<1>3. Len(pre) = 2 * h
  <2>1. CASE n % 2 = 1
    <3>1. pre = <<flag + 1>> \o nibbles
      BY <2>1 DEF Prefix
    <3>2. Len(pre) = 1 + n
      BY <3>1 DEF Nibbles
    <3> HIDE DEF n, pre
    <3> QED
      BY <1>1, <2>1, <3>2
  <2>2. CASE n % 2 # 1
    <3>1. pre = <<flag, 0>> \o nibbles
      BY <2>2 DEF Prefix
    <3>2. Len(pre) = 2 + n
      BY <3>1 DEF Nibbles
    <3> HIDE DEF n, pre
    <3> QED
      BY <1>1, <2>2, <3>2
  <2> QED
    BY <2>1, <2>2
<1>4. CASE odd = 1
  <2>1. pre = <<flag + 1>> \o nibbles
    BY <1>4 DEF Prefix
  <2>2. pre[1] = flag + 1 /\ \A i \in 1..n : pre[i + 1] = nibbles[i]
    <3>1. <<flag + 1>> \in Seq(Nat) /\ Len(<<flag + 1>>) = 1 /\ nibbles \in Seq(Nat) /\ <<flag + 1>>[1] = flag + 1
      BY <1>1 DEF Nibbles
    <3> QED
      BY <1>1, <2>1, <3>1
  <2>3. out = [k \in 1..h |-> IF k = 1 THEN (IF isLeaf THEN 32 ELSE 0) + (16 + NibbleAt(path, 0))
                               ELSE NibbleAt(path, 2 * k - 4 + 1) * 16 + NibbleAt(path, 2 * k - 3 + 1)]
    BY <1>4 DEF EncodePath
  <2>4. ASSUME NEW k \in 1..h PROVE out[k] = pre[2 * k - 1] * 16 + pre[2 * k]
    <3>0. n = 2 * (n \div 2) + 1 /\ h = n \div 2 + 1
      <4> HIDE DEF n
      <4> QED
        BY <1>1, <1>4
    <3> HIDE DEF n, path, pre, out, odd, flag, h
    <3>1. CASE k = 1
      <4>1. NibbleAt(path, 0) = nibbles[1] /\ 1 \in 1..n /\ nibbles[1] \in 0..15
        BY <1>1, <1>2, <3>0
      <4>2. pre[2] = nibbles[1] /\ 2 * k - 1 = 1 /\ 2 * k = 2
        BY <2>2, <3>1, <4>1
      <4>3. out[k] = (IF isLeaf THEN 32 ELSE 0) + (16 + NibbleAt(path, 0))
        BY <2>3, <3>1
      <4> QED
        BY <2>2, <4>1, <4>2, <4>3 DEF flag
    <3>2. CASE k # 1
      <4>1. /\ 2 * k - 2 \in 1..n /\ 2 * k - 1 \in 1..n /\ 2 * k - 4 + 1 \in Nat /\ 2 * k - 3 + 1 \in Nat
            /\ 2 * k - 4 + 1 < n /\ 2 * k - 3 + 1 < n
        BY <1>1, <3>0, <3>2
      <4>2. NibbleAt(path, 2 * k - 4 + 1) = nibbles[2 * k - 2] /\ NibbleAt(path, 2 * k - 3 + 1) = nibbles[2 * k - 1]
        BY <1>2, <4>1
      <4>3. pre[2 * k - 1] = nibbles[2 * k - 2] /\ pre[2 * k] = nibbles[2 * k - 1]
        BY <2>2, <4>1
      <4>4. out[k] = NibbleAt(path, 2 * k - 4 + 1) * 16 + NibbleAt(path, 2 * k - 3 + 1)
        BY <2>3, <3>2
      <4> QED
        BY <4>2, <4>3, <4>4
    <3> QED
      BY <3>1, <3>2
  <2>5. out = [k \in 1..h |-> out[k]]
    BY <2>3
  <2> HIDE DEF out, pre, h
  <2>6. out = [k \in 1..h |-> pre[2 * k - 1] * 16 + pre[2 * k]]
    BY <2>4, <2>5
  <2>7. Pack(pre) = [k \in 1..h |-> pre[2 * k - 1] * 16 + pre[2 * k]]
    <3>1. Len(pre) \div 2 = h
      <4>1. h \in Nat
        BY <1>1 DEF h
      <4> QED
        BY <1>3, <4>1
    <3> QED
      BY <3>1 DEF Pack
  <2> QED
    BY <2>6, <2>7 DEF out, pre, Prefixed, Prefix
<1>5. CASE odd = 0
  <2>1. pre = <<flag, 0>> \o nibbles
    BY <1>5 DEF Prefix
  <2>2. pre[1] = flag /\ pre[2] = 0 /\ \A i \in 1..n : pre[i + 2] = nibbles[i]
    <3>1. <<flag, 0>> \in Seq(Nat) /\ Len(<<flag, 0>>) = 2 /\ nibbles \in Seq(Nat)
          /\ <<flag, 0>>[1] = flag /\ <<flag, 0>>[2] = 0
      BY <1>1 DEF Nibbles
    <3> QED
      BY <1>1, <2>1, <3>1
  <2>3. out = [k \in 1..h |-> IF k = 1 THEN (IF isLeaf THEN 32 ELSE 0) + 0
                               ELSE NibbleAt(path, 2 * k - 4 + 0) * 16 + NibbleAt(path, 2 * k - 3 + 0)]
    BY <1>5 DEF EncodePath
  <2>4. ASSUME NEW k \in 1..h PROVE out[k] = pre[2 * k - 1] * 16 + pre[2 * k]
    <3>0. n = 2 * (n \div 2) /\ h = n \div 2 + 1
      <4> HIDE DEF n
      <4> QED
        BY <1>1, <1>5
    <3> HIDE DEF n, path, pre, out, odd, flag, h
    <3>1. CASE k = 1
      <4>2. 2 * k - 1 = 1 /\ 2 * k = 2
        BY <3>1
      <4>3. out[k] = (IF isLeaf THEN 32 ELSE 0) + 0
        BY <2>3, <3>1
      <4> QED
        BY <2>2, <4>2, <4>3 DEF flag
    <3>2. CASE k # 1
      <4>1. /\ 2 * k - 3 \in 1..n /\ 2 * k - 2 \in 1..n /\ 2 * k - 4 + 0 \in Nat /\ 2 * k - 3 + 0 \in Nat
            /\ 2 * k - 4 + 0 < n /\ 2 * k - 3 + 0 < n
        BY <1>1, <3>0, <3>2
      <4>2. NibbleAt(path, 2 * k - 4 + 0) = nibbles[2 * k - 3] /\ NibbleAt(path, 2 * k - 3 + 0) = nibbles[2 * k - 2]
        BY <1>2, <4>1
      <4>3. pre[2 * k - 1] = nibbles[2 * k - 3] /\ pre[2 * k] = nibbles[2 * k - 2]
        BY <2>2, <4>1
      <4>4. out[k] = NibbleAt(path, 2 * k - 4 + 0) * 16 + NibbleAt(path, 2 * k - 3 + 0)
        BY <2>3, <3>2
      <4> QED
        BY <4>2, <4>3, <4>4
    <3> QED
      BY <3>1, <3>2
  <2>5. out = [k \in 1..h |-> out[k]]
    BY <2>3
  <2> HIDE DEF out, pre, h
  <2>6. out = [k \in 1..h |-> pre[2 * k - 1] * 16 + pre[2 * k]]
    BY <2>4, <2>5
  <2>7. Pack(pre) = [k \in 1..h |-> pre[2 * k - 1] * 16 + pre[2 * k]]
    <3>1. Len(pre) \div 2 = h
      <4>1. h \in Nat
        BY <1>1 DEF h
      <4> QED
        BY <1>3, <4>1
    <3> QED
      BY <3>1 DEF Pack
  <2> QED
    BY <2>6, <2>7 DEF out, pre, Prefixed, Prefix
<1>6. odd = 0 \/ odd = 1
  <2> HIDE DEF n
  <2> QED
    BY <1>1
<1> QED
  BY <1>4, <1>5, <1>6

-----------------------------------------------------------------------------
(* Nodes.                                                                   *)

\* A sequence of three parts, taken apart.
LEMMA Parts ==
    ASSUME NEW s, NEW t, NEW u, Plain(s), Plain(t), Plain(u)
    PROVE  /\ Plain((s \o t) \o u) /\ Len((s \o t) \o u) = Len(s) + Len(t) + Len(u)
           /\ (s \o t) \o u = s \o (t \o u)
           /\ \A i \in 1..Len(s) : ((s \o t) \o u)[i] = s[i]
           /\ \A i \in 1..Len(t) : ((s \o t) \o u)[Len(s) + i] = t[i]
           /\ SubSeq((s \o t) \o u, Len(s) + 1, Len(s) + Len(t)) = t
           /\ SubSeq((s \o t) \o u, Len(s) + Len(t) + 1, Len((s \o t) \o u)) = u
<1> DEFINE v == s \o t
           w == v \o u
           k == Len(s)
           l == Len(t)
           m == Len(u)
<1>1. k \in Nat /\ l \in Nat /\ m \in Nat
  BY PlainHas
<1>2. Plain(v) /\ Len(v) = k + l /\ (\A i \in 1..k : v[i] = s[i]) /\ (\A i \in 1..l : v[k + i] = t[i])
  BY Joined
<1> HIDE DEF v
<1>3. Plain(w) /\ Len(w) = (k + l) + m /\ (\A i \in 1..(k + l) : w[i] = v[i])
  BY <1>2, Joined
<1>4. SubSeq(w, k + l + 1, Len(w)) = u
  BY <1>2, Cut
<1>5. w = s \o (t \o u)
  <2> DEFINE S == {s[i] : i \in DOMAIN s} \union {t[i] : i \in DOMAIN t} \union {u[i] : i \in DOMAIN u}
  <2>1. s = [i \in 1..k |-> s[i]] /\ DOMAIN s = 1..k /\ t = [i \in 1..l |-> t[i]] /\ DOMAIN t = 1..l
        /\ u = [i \in 1..m |-> u[i]] /\ DOMAIN u = 1..m
    BY PlainHas
  <2> HIDE DEF k, l, m
  <2>2. s \in [1..k -> S] /\ t \in [1..l -> S] /\ u \in [1..m -> S]
    BY <2>1
  <2> HIDE DEF S
  <2>3. s \in Seq(S) /\ t \in Seq(S) /\ u \in Seq(S)
    BY <1>1, <2>2
  <2>4. (s \o t) \o u = s \o (t \o u)
    BY <2>3, ConcatAssociative
  <2> QED
    BY <2>4 DEF v
<1> HIDE DEF w, k, l, m
<1>6. \A i \in 1..k : w[i] = s[i]
  BY <1>1, <1>2, <1>3
<1>7. \A i \in 1..l : w[k + i] = t[i]
  <2>1. \A i \in 1..l : k + i \in 1..(k + l)
    BY <1>1
  <2> QED
    BY <1>2, <1>3, <2>1
<1>8. SubSeq(w, k + 1, k + l) = t
  <2> DEFINE x == SubSeq(w, k + 1, k + l)
  <2>0. w \in Seq({w[i] : i \in DOMAIN w}) /\ Len(w) = (k + l) + m
    BY <1>3 DEF Plain
  <2>1. x = [i \in 1..Len(x) |-> x[i]] /\ Len(x) = l
    BY <1>1, <2>0
  <2>2. \A i \in 1..l : x[i] = w[k + i]
    BY <1>1, <2>0
  <2> HIDE DEF x
  <2>3. x = [i \in 1..l |-> t[i]]
    BY <1>7, <2>1, <2>2
  <2>4. t = [i \in 1..l |-> t[i]]
    BY PlainHas DEF l
  <2> QED
    BY <2>3, <2>4 DEF x
<1> QED
  BY <1>3, <1>4, <1>5, <1>6, <1>7, <1>8 DEF v, w, k, l, m

\* Three sequences, joined either way.
LEMMA Regrouped ==
    ASSUME NEW s, NEW t, NEW u, Plain(s), Plain(t), Plain(u)
    PROVE  (s \o t) \o u = s \o (t \o u)
BY Parts

\* w is s, t and u, of k, l and m elements.
IsParted(w, s, t, u, k, l, m) ==
    /\ Plain(w) /\ Len(w) = k + l + m
    /\ \A i \in 1..k : w[i] = s[i]
    /\ \A i \in 1..l : w[k + i] = t[i]
    /\ SubSeq(w, k + 1, k + l) = t
    /\ SubSeq(w, k + l + 1, k + l + m) = u
\* The same, as one predicate.
LEMMA PartsOf ==
    ASSUME NEW s, NEW t, NEW u, Plain(s), Plain(t), Plain(u)
    PROVE  IsParted((s \o t) \o u, s, t, u, Len(s), Len(t), Len(u))
BY Parts DEF IsParted

\* A pair is a sequence.
LEMMA PairPlain == ASSUME NEW x, NEW y PROVE Plain(<<x, y>>) /\ Len(<<x, y>>) = 2 /\ <<x>> \o <<y>> = <<x, y>>
<1>1. x \in {x, y} /\ y \in {x, y}
  OBVIOUS
<1>2. <<x, y>> \in Seq({x, y}) /\ <<x>> \in Seq({x, y}) /\ <<y>> \in Seq({x, y})
  BY <1>1
<1>3. Plain(<<x, y>>)
  BY <1>2, PlainSeq
<1>4. <<x>> \o <<y>> = <<x, y>>
  <2> DEFINE w == <<x>> \o <<y>>
             v == <<x, y>>
  <2>1. Plain(<<x>>) /\ Plain(<<y>>) /\ Len(<<x>>) = 1 /\ Len(<<y>>) = 1
    BY <1>2, PlainSeq
  <2>2. Plain(w) /\ Len(w) = 1 + 1 /\ w[1] = x /\ w[1 + 1] = y
    BY <2>1, Joined
  <2>3. v[1] = x /\ v[2] = y /\ v = [i \in 1..2 |-> v[i]]
    OBVIOUS
  <2> HIDE DEF w, v
  <2>4. 1 + 1 = 2
    OBVIOUS
  <2>5. w = [i \in 1..2 |-> w[i]]
    BY <2>2, <2>4, PlainHas
  <2>6. \A i \in 1..2 : w[i] = v[i]
    BY <2>2, <2>3, <2>4
  <2> QED
    BY <2>3, <2>5, <2>6 DEF w, v
<1>5. Len(<<x, y>>) = 2
  BY Z3
<1> QED
  BY <1>3, <1>4, <1>5, Zenon

\* And so is one element.
LEMMA OnePlain == ASSUME NEW x PROVE Plain(<<x>>) /\ Len(<<x>>) = 1
<1>1. <<x>> \in Seq({x})
  OBVIOUS
<1> QED
  BY <1>1, PlainSeq

\* A packed path has a byte for two nibbles.
LEMMA PackPlain ==
    ASSUME NEW nibbles \in Nibbles
    PROVE  LET p == Pack(Padded(nibbles)) IN Plain(p) /\ Len(p) = PathLength(Len(nibbles)) /\ Len(p) \in Nat
<1> DEFINE p == Pack(Padded(nibbles))
           h == PathLength(Len(nibbles))
<1>1. p = [k \in 1..h |-> Padded(nibbles)[2 * k - 1] * 16 + Padded(nibbles)[2 * k]] /\ h \in Nat
  BY PadIs DEF Pack
<1> HIDE DEF h
<1>2. p = [k \in 1..h |-> p[k]]
  BY <1>1
<1> HIDE DEF p
<1>3. Plain(p) /\ Len(p) = h
  BY <1>1, <1>2, PlainIs
<1> QED
  BY <1>1, <1>3 DEF h, p

\* The marker, the number of nibbles, the packed path and what comes behind.
IsNode(raw, marker, nibbles, tail) ==
    LET h == PathLength(Len(nibbles))
    IN  /\ Plain(raw) /\ Len(raw) = 2 + h + Len(tail) /\ h \in Nat
        /\ raw[1] = marker /\ raw[2] = Len(nibbles)
        /\ SubSeq(raw, 3, 2 + h) = Pack(Padded(nibbles))
        /\ SubSeq(raw, 3 + h, Len(raw)) = tail
\* The marker, the path and the rest of a node are where the parser looks for them.
LEMMA NodeCut ==
    ASSUME NEW marker, NEW nibbles \in Nibbles, NEW tail, Plain(tail)
    PROVE  IsNode((<<marker>> \o Written(nibbles)) \o tail, marker, nibbles, tail)
<1> DEFINE p == Pack(Padded(nibbles))
           h == PathLength(Len(nibbles))
           n == Len(nibbles)
           s == <<marker, n>>
           raw == (s \o p) \o tail
<1>1. Plain(p) /\ Len(p) = h /\ h \in Nat
  BY PackPlain
<1> HIDE DEF n, p, h
<1>2. Plain(s) /\ Len(s) = 2 /\ s[1] = marker /\ s[2] = n
  BY PairPlain
<1>3. <<marker>> \o (<<n>> \o p) = s \o p
  <2>1. Plain(<<marker>>) /\ Plain(<<n>>)
    BY OnePlain
  <2>2. (<<marker>> \o <<n>>) \o p = <<marker>> \o (<<n>> \o p)
    BY <1>1, <2>1, Parts
  <2>3. <<marker>> \o <<n>> = s
    BY PairPlain
  <2> QED
    BY <2>2, <2>3
<1>4. Written(nibbles) = <<n>> \o p
  BY DEF Written, Padded, n, p
<1> HIDE DEF s
<1>5. /\ Plain(raw) /\ Len(raw) = 2 + h + Len(tail)
      /\ \A i \in 1..2 : raw[i] = s[i]
      /\ SubSeq(raw, 2 + 1, 2 + h) = p
      /\ SubSeq(raw, 2 + h + 1, Len(raw)) = tail
  <2> DEFINE k == 2
             m == Len(tail)
  <2>1. raw = (s \o p) \o tail /\ k = Len(s) /\ h = Len(p) /\ m = Len(tail) /\ Plain(s) /\ Plain(p) /\ Plain(tail)
    BY <1>1, <1>2
  <2> HIDE DEF raw, m, k
  <2>2. IsParted(raw, s, p, tail, k, h, m)
    BY <2>1, PartsOf, Zenon
  <2> QED
    BY <2>2 DEF m, k, IsParted
<1>6. 2 + 1 = 3 /\ 2 + h + 1 = 3 + h
  BY <1>1
<1> HIDE DEF raw
<1>7. SubSeq(raw, 3, 2 + h) = p /\ SubSeq(raw, 3 + h, Len(raw)) = tail
  BY <1>5, <1>6
<1>8. raw[1] = marker /\ raw[2] = n
  BY <1>2, <1>5
<1>9. /\ Plain(raw) /\ Len(raw) = 2 + h + Len(tail) /\ h \in Nat
      /\ raw[1] = marker /\ raw[2] = n
      /\ SubSeq(raw, 3, 2 + h) = p
      /\ SubSeq(raw, 3 + h, Len(raw)) = tail
  BY <1>1, <1>5, <1>7, <1>8
<1>10. raw = (<<marker>> \o Written(nibbles)) \o tail
  BY <1>3, <1>4 DEF raw
<1>11. IsNode(raw, marker, nibbles, tail)
  BY <1>9, Zenon DEF IsNode, n, h, p
<1> QED
  BY <1>10, <1>11

\* A node begins with a sequence of bytes.
LEMMA WrittenPlain == ASSUME NEW nibbles \in Nibbles, NEW marker PROVE Plain(<<marker>> \o Written(nibbles))
<1> DEFINE p == Pack(Padded(nibbles))
           n == Len(nibbles)
<1>1. Plain(p) /\ Plain(<<n>>) /\ Plain(<<marker>>)
  BY PackPlain, OnePlain
<1>2. Written(nibbles) = <<n>> \o p
  BY DEF Written, Padded
<1> HIDE DEF p, n
<1>3. Plain(<<n>> \o p)
  BY <1>1, Joined
<1>4. Plain(Written(nibbles))
  BY <1>2, <1>3
<1> QED
  BY <1>1, <1>4, Joined

\* A branch is read as the node wrote it, and what is behind it is left.
BranchNode(branch, below) == [type |-> BranchMarker, links |-> LinksOf(branch, below), hash |-> Above(branch, below)]
\* The parser reads a branch that was written, and goes on behind it.
LEMMA BranchParsed ==
    ASSUME NEW branch \in Branch, NEW below, NEW rest, Plain(rest)
    PROVE  LET raw == RawBranch(branch, below) \o rest
           IN  /\ Plain(raw) /\ Len(raw) > Len(rest)
               /\ ParseNode(raw) = [rest |-> rest, node |-> BranchNode(branch, below)]
<1> DEFINE nibbles == branch.nibbles
           mask == Mask(branch, below)
           links == LinksOf(branch, below)
           head == <<BranchMarker>> \o Written(nibbles)
           M == <<mask % 256, mask \div 256>>
           L == [k \in DOMAIN links |-> links[k].link]
           tail == (M \o L) \o rest
           raw == head \o tail
           B == Bits(branch, below)
           m == Cardinality(B)
           s == Ascending(B)
<1>1. nibbles \in Nibbles
  BY DEF Branch
<1>2. RawBranch(branch, below) \o rest = ((head \o M) \o L) \o rest
  BY DEF RawBranch
<1>3. BitsFromMask(M) = s
  <2>1. M[1] = mask % 256 /\ M[2] = mask \div 256
    OBVIOUS
  <2> HIDE DEF M
  <2> QED
    BY <2>1, MaskRead
<1>4. m \in Nat /\ s \in [1..m -> B]
  BY BitsAscend
<1>5. links = [i \in 1..m |-> [bit |-> s[i], link |-> Linked(branch, below)[s[i]]]]
  BY LinksAre
<1>6. Plain(M) /\ Len(M) = 2
  <2> DEFINE x == mask % 256 y == mask \div 256
  <2> HIDE DEF x, y
  <2>1. Plain(<<x, y>>) /\ Len(<<x, y>>) = 2
    BY PairPlain
  <2> QED
    BY <2>1 DEF x, y
<1> HIDE DEF nibbles, mask, links, M, B, m, s
<1>7. DOMAIN links = 1..m /\ L = [k \in 1..m |-> links[k].link]
  BY <1>5
<1>8. Plain(L) /\ Len(L) = m
  <2>1. L = [k \in 1..m |-> L[k]]
    BY <1>7
  <2> HIDE DEF L
  <2> QED
    BY <1>4, <2>1, PlainIs
<1>9. Plain(head)
  BY <1>1, WrittenPlain
<1>10. \A k \in 1..m : L[k] = links[k].link
  BY <1>7
<1> HIDE DEF L, head
<1>11. ((head \o M) \o L) \o rest = raw
  <2>1. Plain(M \o L) /\ (head \o M) \o L = head \o (M \o L)
    BY <1>6, <1>8, <1>9, Joined, Parts
  <2> DEFINE T == M \o L
  <2> HIDE DEF T
  <2>2. Plain(T)
    BY <2>1 DEF T
  <2>3. (head \o T) \o rest = head \o (T \o rest)
    BY <1>9, <2>2, Regrouped
  <2> QED
    BY <2>1, <2>3 DEF T
<1>12. IsParted(tail, M, L, rest, 2, m, Len(rest))
  <2>1. IsParted(tail, M, L, rest, Len(M), Len(L), Len(rest))
    BY <1>6, <1>8, PartsOf
  <2> HIDE DEF tail
  <2> QED
    BY <1>6, <1>8, <2>1, Zenon
<1>13. SubSeq(tail, 1, 2) = M
  <2>1. tail = M \o (L \o rest) /\ Plain(L \o rest)
    BY <1>6, <1>8, Parts, Joined
  <2>2. SubSeq(M \o (L \o rest), 1, Len(M)) = M
    BY <1>6, <2>1, Cut
  <2> HIDE DEF tail
  <2> QED
    BY <1>6, <2>1, <2>2
<1>14. IsNode(raw, BranchMarker, nibbles, tail)
  <2>1. Plain(tail)
    BY <1>12 DEF IsParted
  <2> HIDE DEF tail
  <2> QED
    BY <1>1, <2>1, NodeCut DEF head
<1> HIDE DEF tail, raw
<1> DEFINE h == PathLength(Len(nibbles))
           n == Len(nibbles)
           p == Pack(Padded(nibbles))
<1>15. /\ Plain(raw) /\ Len(raw) = 2 + h + Len(tail) /\ h \in Nat
       /\ raw[1] = BranchMarker /\ raw[2] = n
       /\ SubSeq(raw, 3, 2 + h) = p
       /\ SubSeq(raw, 3 + h, Len(raw)) = tail
  BY <1>14, Zenon DEF IsNode
<1>16. h = PathLength(n)
  OBVIOUS
<1>17. EncodePath(p, n, FALSE) = Prefixed(nibbles, 0)
  <2>1. EncodePath(Pack(Padded(nibbles)), Len(nibbles), FALSE) = Prefixed(nibbles, IF FALSE THEN 2 ELSE 0)
    BY <1>1, PathEncoded
  <2> QED
    BY <2>1
<1> HIDE DEF h, n, p
<1>18. ParseNode(raw) = ParseBranch(tail, p, n)
  BY <1>15, <1>16 DEF ParseNode
<1>19. Len(tail) = 2 + m + Len(rest) /\ (\A i \in 1..m : tail[2 + i] = L[i])
       /\ SubSeq(tail, 2 + m + 1, 2 + m + Len(rest)) = rest
  BY <1>12 DEF IsParted
<1> DEFINE got == [i \in DOMAIN s |-> [bit |-> s[i], link |-> tail[2 + i]]]
<1>20. got = links
  <2>1. got = [i \in 1..m |-> [bit |-> s[i], link |-> tail[2 + i]]]
    BY <1>4
  <2>2. \A i \in 1..m : tail[2 + i] = Linked(branch, below)[s[i]]
    <3>1. \A i \in 1..m : links[i].link = Linked(branch, below)[s[i]]
      BY <1>5
    <3> QED
      BY <1>10, <1>19, <3>1
  <2> HIDE DEF got
  <2> QED
    BY <1>5, <2>1, <2>2
<1>21. Len(s) = m
  <2>1. s = [i \in 1..m |-> s[i]]
    BY <1>4
  <2> QED
    BY <1>4, <2>1, PlainIs
<1>22. ParseBranch(tail, p, n) =
         [rest |-> SubSeq(tail, 3 + Len(s), Len(tail)),
          node |-> [type |-> BranchMarker, links |-> got, hash |-> BranchHash(EncodePath(p, n, FALSE), got)]]
  BY <1>3, <1>13 DEF ParseBranch
<1> HIDE DEF got
<1>23. SubSeq(tail, 3 + Len(s), Len(tail)) = rest
  <2>1. 3 + Len(s) = 2 + m + 1
    BY <1>4, <1>21
  <2> QED
    BY <1>19, <2>1
<1>24. BranchHash(EncodePath(p, n, FALSE), got) = Above(branch, below)
  BY <1>17, <1>20, BranchHashed DEF Above, links, nibbles
<1>25. ParseBranch(tail, p, n) = [rest |-> rest, node |-> BranchNode(branch, below)]
  BY <1>20, <1>22, <1>23, <1>24 DEF BranchNode, links
<1>26. Len(raw) > Len(rest)
  <2>1. Len(rest) \in Nat
    BY PlainHas
  <2> DEFINE x == Len(rest) y == Len(raw) z == Len(tail)
  <2>2. x \in Nat /\ y = 2 + h + z /\ z = 2 + m + x /\ h \in Nat
    BY <1>15, <1>19, <2>1
  <2> HIDE DEF x, y, z
  <2>3. y > x
    BY <1>4, <2>2
  <2> QED
    BY <2>3 DEF x, y
<1> QED
  BY <1>2, <1>11, <1>15, <1>18, <1>25, <1>26

\* And so is a leaf.
LeafRead(nibbles, value) == [type |-> LeafMarker, value |-> value, hash |-> LeafNode(nibbles, value)]
\* The parser reads a leaf that was written, and nothing is left.
LEMMA LeafParsed ==
    ASSUME NEW nibbles \in Nibbles, NEW value
    PROVE  LET raw == RawLeaf(nibbles, value)
           IN  /\ Plain(raw) /\ Len(raw) > 0
               /\ ParseNode(raw) = [rest |-> <<>>, node |-> LeafRead(nibbles, value)]
<1> DEFINE tail == <<value>>
           head == <<LeafMarker>> \o Written(nibbles)
           raw == head \o tail
           h == PathLength(Len(nibbles))
           n == Len(nibbles)
           p == Pack(Padded(nibbles))
<1>1. Plain(tail) /\ Len(tail) = 1 /\ Head(tail) = value /\ Tail(tail) = <<>>
  BY OnePlain
<1> HIDE DEF tail
<1>2. IsNode(raw, LeafMarker, nibbles, tail)
  BY <1>1, NodeCut
<1>3. RawLeaf(nibbles, value) = raw
  BY DEF RawLeaf, tail
<1> HIDE DEF raw, head
<1>4. /\ Plain(raw) /\ Len(raw) = 2 + h + Len(tail) /\ h \in Nat
      /\ raw[1] = LeafMarker /\ raw[2] = n
      /\ SubSeq(raw, 3, 2 + h) = p
      /\ SubSeq(raw, 3 + h, Len(raw)) = tail
  BY <1>2, Zenon DEF IsNode
<1>5. h = PathLength(n)
  OBVIOUS
<1>6. EncodePath(p, n, TRUE) = Prefixed(nibbles, 2)
  <2>1. EncodePath(Pack(Padded(nibbles)), Len(nibbles), TRUE) = Prefixed(nibbles, IF TRUE THEN 2 ELSE 0)
    BY PathEncoded
  <2> QED
    BY <2>1
<1> HIDE DEF h, n, p
<1>7. LeafMarker # BranchMarker
  BY DEF LeafMarker, BranchMarker
<1>8. ParseNode(raw) = ParseLeaf(tail, p, n)
  BY <1>4, <1>5, <1>7 DEF ParseNode
<1>9. ParseLeaf(tail, p, n) = [rest |-> <<>>, node |-> LeafRead(nibbles, value)]
  BY <1>1, <1>6 DEF ParseLeaf, LeafRead, LeafHash, LeafNode
<1>10. Len(raw) > 0
  <2> DEFINE y == Len(raw)
  <2>1. y = 2 + h + 1
    BY <1>1, <1>4
  <2> HIDE DEF y
  <2>2. y > 0
    BY <1>4, <2>1
  <2> QED
    BY <2>2 DEF y
<1> QED
  BY <1>3, <1>4, <1>8, <1>9, <1>10

-----------------------------------------------------------------------------
(* Trees.                                                                   *)
AreNodes(f, branches, leaf, K, N) == f[0] = leaf /\ \A n \in 1..K : f[n] = NodeAbove(branches[N + 1 - n], f[n - 1])

\* The nodes above a leaf exist up to any height.
LEMMA NodesExtended ==
    ASSUME NEW branches, NEW leaf, NEW N \in Nat, NEW k \in Nat, NEW f, AreNodes(f, branches, leaf, k, N)
    PROVE  \E g : AreNodes(g, branches, leaf, k + 1, N)
<1> DEFINE last == NodeAbove(branches[N + 1 - (k + 1)], f[k])
           g == [n \in 0..(k + 1) |-> IF n = k + 1 THEN last ELSE f[n]]
<1>1. g[k + 1] = last /\ \A n \in 0..k : g[n] = f[n]
  OBVIOUS
<1> HIDE DEF g
<1>2. ASSUME NEW n \in 1..(k + 1) PROVE g[n] = NodeAbove(branches[N + 1 - n], g[n - 1])
  <2>1. CASE n = k + 1
    <3>1. n - 1 = k /\ k \in 0..k
      BY <2>1
    <3> QED
      BY <1>1, <2>1, <3>1
  <2>2. CASE n # k + 1
    <3>1. n \in 1..k /\ n \in 0..k /\ n - 1 \in 0..k
      BY <2>2
    <3> QED
      BY <1>1, <3>1 DEF AreNodes
  <2> QED
    BY <2>1, <2>2
<1>3. 0 \in 0..k
  OBVIOUS
<1>4. AreNodes(g, branches, leaf, k + 1, N)
  BY <1>1, <1>2, <1>3 DEF AreNodes
<1> QED
  BY <1>4

\* And Upwards gives them.
LEMMA UpwardsAre ==
    ASSUME NEW branches, Len(branches) \in Nat, NEW leaf
    PROVE  AreNodes(Upwards(branches, leaf), branches, leaf, Len(branches), Len(branches))
<1> DEFINE N == Len(branches)
           Good == {k \in Nat : \E f : AreNodes(f, branches, leaf, k, N)}
           Rec(f) == f = [n \in 0..N |-> IF n = 0 THEN leaf
                            ELSE LET below == f[n - 1] IN NodeAbove(branches[N + 1 - n], below)]
<1>1. 0 \in Good
  <2>1. AreNodes([n \in {0} |-> leaf], branches, leaf, 0, N)
    BY DEF AreNodes
  <2> QED
    BY <2>1
<1>2. ASSUME NEW k \in Nat, k \in Good PROVE k + 1 \in Good
  <2>1. PICK f : AreNodes(f, branches, leaf, k, N)
    BY <1>2
  <2>2. \E g : AreNodes(g, branches, leaf, k + 1, N)
    BY <2>1, NodesExtended
  <2> QED
    BY <2>2
<1> HIDE DEF Good
<1>3. N \in Good
  BY <1>1, <1>2, Induct
<1>4. PICK f : AreNodes(f, branches, leaf, N, N)
  BY <1>3 DEF Good
<1> DEFINE g == [n \in 0..N |-> f[n]]
<1>5. Rec(g)
  <2>1. ASSUME NEW n \in 0..N
        PROVE  g[n] = IF n = 0 THEN leaf ELSE LET below == g[n - 1] IN NodeAbove(branches[N + 1 - n], below)
    <3>1. CASE n = 0
      BY <1>4, <3>1 DEF AreNodes
    <3>2. CASE n # 0
      <4>1. n \in 1..N /\ n - 1 \in 0..N
        BY <3>2
      <4>2. g[n] = f[n] /\ g[n - 1] = f[n - 1]
        BY <4>1
      <4> QED
        BY <1>4, <3>2, <4>1, <4>2 DEF AreNodes
    <3> QED
      BY <3>1, <3>2
  <2> QED
    BY <2>1
<1> HIDE DEF g
<1> DEFINE node == CHOOSE h : Rec(h)
<1>6. Rec(node)
  BY <1>5
<1>7. Upwards(branches, leaf) = node
  BY DEF Upwards
<1> HIDE DEF node
<1>8. AreNodes(node, branches, leaf, N, N)
  <2>1. node[0] = leaf
    BY <1>6
  <2>2. ASSUME NEW n \in 1..N PROVE node[n] = NodeAbove(branches[N + 1 - n], node[n - 1])
    <3>1. n \in 0..N /\ n # 0
      OBVIOUS
    <3> QED
      BY <1>6, <3>1
  <2> QED
    BY <2>1, <2>2 DEF AreNodes
<1> QED
  BY <1>7, <1>8

Unread(raw) == [rest |-> raw, nodes |-> <<>>]
ReadOn(st) == IF st.rest = <<>> THEN st ELSE NextParsed(st)
AreParsed(f, raw, N) == f[0] = Unread(raw) /\ \A n \in 1..N : f[n] = ReadOn(f[n - 1])

\* What is read of the bytes exists however many nodes are read.
LEMMA ParsedExtended ==
    ASSUME NEW raw, NEW k \in Nat, NEW f, AreParsed(f, raw, k)
    PROVE  \E g : AreParsed(g, raw, k + 1)
<1> DEFINE last == ReadOn(f[k])
           g == [n \in 0..(k + 1) |-> IF n = k + 1 THEN last ELSE f[n]]
<1>1. g[k + 1] = last /\ \A n \in 0..k : g[n] = f[n]
  OBVIOUS
<1> HIDE DEF g
<1>2. ASSUME NEW n \in 1..(k + 1) PROVE g[n] = ReadOn(g[n - 1])
  <2>1. CASE n = k + 1
    <3>1. n - 1 = k /\ k \in 0..k
      BY <2>1
    <3> QED
      BY <1>1, <2>1, <3>1
  <2>2. CASE n # k + 1
    <3>1. n \in 1..k /\ n \in 0..k /\ n - 1 \in 0..k
      BY <2>2
    <3> QED
      BY <1>1, <3>1 DEF AreParsed
  <2> QED
    BY <2>1, <2>2
<1>3. 0 \in 0..k
  OBVIOUS
<1>4. AreParsed(g, raw, k + 1)
  BY <1>1, <1>2, <1>3 DEF AreParsed
<1> QED
  BY <1>4

\* And Parsed gives it.
LEMMA ParsedAre ==
    ASSUME NEW raw, Len(raw) \in Nat
    PROVE  AreParsed(Parsed(raw), raw, Len(raw))
<1> DEFINE N == Len(raw)
           Good == {k \in Nat : \E f : AreParsed(f, raw, k)}
           Rec(f) == f = [n \in 0..N |-> IF n = 0 THEN [rest |-> raw, nodes |-> <<>>]
                            ELSE LET st == f[n - 1] IN IF st.rest = <<>> THEN st ELSE NextParsed(st)]
<1>1. 0 \in Good
  <2>1. AreParsed([n \in {0} |-> Unread(raw)], raw, 0)
    BY DEF AreParsed
  <2> QED
    BY <2>1
<1>2. ASSUME NEW k \in Nat, k \in Good PROVE k + 1 \in Good
  <2>1. PICK f : AreParsed(f, raw, k)
    BY <1>2
  <2>2. \E g : AreParsed(g, raw, k + 1)
    BY <2>1, ParsedExtended
  <2> QED
    BY <2>2
<1> HIDE DEF Good
<1>3. N \in Good
  BY <1>1, <1>2, Induct
<1>4. PICK f : AreParsed(f, raw, N)
  BY <1>3 DEF Good
<1> DEFINE g == [n \in 0..N |-> f[n]]
<1>5. Rec(g)
  <2>1. ASSUME NEW n \in 0..N
        PROVE  g[n] = IF n = 0 THEN [rest |-> raw, nodes |-> <<>>]
                      ELSE LET st == g[n - 1] IN IF st.rest = <<>> THEN st ELSE NextParsed(st)
    <3>1. CASE n = 0
      BY <1>4, <3>1 DEF AreParsed, Unread
    <3>2. CASE n # 0
      <4>1. n \in 1..N /\ n - 1 \in 0..N
        BY <3>2
      <4>2. g[n] = f[n] /\ g[n - 1] = f[n - 1]
        BY <4>1
      <4> QED
        BY <1>4, <3>2, <4>1, <4>2 DEF AreParsed, ReadOn
    <3> QED
      BY <3>1, <3>2
  <2> QED
    BY <2>1
<1> HIDE DEF g
<1> DEFINE upto == CHOOSE h : Rec(h)
<1>6. Rec(upto)
  BY <1>5
<1>7. Parsed(raw) = upto
  BY DEF Parsed
<1> HIDE DEF upto
<1>8. AreParsed(upto, raw, N)
  <2>1. upto[0] = Unread(raw)
    BY <1>6 DEF Unread
  <2>2. ASSUME NEW n \in 1..N PROVE upto[n] = ReadOn(upto[n - 1])
    <3>1. n \in 0..N /\ n # 0
      OBVIOUS
    <3> QED
      BY <1>6, <3>1 DEF ReadOn
  <2> QED
    BY <2>1, <2>2 DEF AreParsed
<1> QED
  BY <1>7, <1>8

-----------------------------------------------------------------------------
(* The tree of a chain.                                                     *)
LeafCount(c) == IF c.entity = Absent THEN 0 ELSE 1

\* A chain has finitely many branches above an entity.
LEMMA ChainHas ==
    ASSUME NEW c \in Chains
    PROVE  /\ Len(c.branches) \in Nat /\ DOMAIN c.branches = 1..Len(c.branches)
           /\ \A i \in 1..Len(c.branches) : c.branches[i] \in Branch
           /\ c.nibbles \in Nibbles
BY ChainsAssumption

\* The tree of an entity: its leaf, and a branch over each node.
LEMMA TreeIs ==
    ASSUME NEW c \in Chains, NEW kind
    PROVE  LET N == Len(c.branches) node == TreeOf(c, kind)
           IN  /\ N \in Nat /\ node[0] = Lowest(c, kind)
               /\ \A n \in 1..N :
                    /\ c.branches[N + 1 - n] \in Branch
                    /\ node[n].hash = Above(c.branches[N + 1 - n], node[n - 1].hash)
                    /\ node[n].raw = RawBranch(c.branches[N + 1 - n], node[n - 1].hash) \o node[n - 1].raw
<1> DEFINE N == Len(c.branches)
           node == TreeOf(c, kind)
<1>1. N \in Nat /\ \A i \in 1..N : c.branches[i] \in Branch
  BY ChainHas
<1>2. AreNodes(node, c.branches, Lowest(c, kind), N, N)
  BY <1>1, UpwardsAre DEF TreeOf
<1> HIDE DEF N, node
<1>3. ASSUME NEW n \in 1..N
      PROVE  /\ c.branches[N + 1 - n] \in Branch
             /\ node[n].hash = Above(c.branches[N + 1 - n], node[n - 1].hash)
             /\ node[n].raw = RawBranch(c.branches[N + 1 - n], node[n - 1].hash) \o node[n - 1].raw
  <2>1. N + 1 - n \in 1..N
    BY <1>1
  <2> DEFINE branch == c.branches[N + 1 - n]
             below == node[n - 1]
  <2>2. node[n] = NodeAbove(branch, below)
    BY <1>2 DEF AreNodes
  <2>3. branch \in Branch
    BY <1>1, <2>1
  <2> HIDE DEF branch, below
  <2>4. node[n].hash = Above(branch, below.hash) /\ node[n].raw = RawBranch(branch, below.hash) \o below.raw
    <3> DEFINE bytes == RawBranch(branch, below.hash) \o below.raw
               hash == Above(branch, below.hash)
    <3>1. node[n] = [hash |-> hash, raw |-> bytes]
      BY <2>2 DEF NodeAbove
    <3> HIDE DEF bytes, hash
    <3>2. node[n].hash = hash /\ node[n].raw = bytes
      BY <3>1
    <3> QED
      BY <3>2, Zenon DEF bytes, hash
  <2> QED
    BY <2>3, <2>4, Zenon DEF branch, below
<1> QED
  BY <1>1, <1>2, <1>3 DEF AreNodes, N, node

\* Every node takes bytes.
LEMMA RawGrows ==
    ASSUME NEW c \in Chains, NEW kind
    PROVE  \A n \in 0..Len(c.branches) : LET raw == TreeOf(c, kind)[n].raw
                                        IN  Plain(raw) /\ Len(raw) \in Nat /\ Len(raw) >= n + LeafCount(c)
<1> DEFINE N == Len(c.branches)
           node == TreeOf(c, kind)
           e == LeafCount(c)
           Good == {n \in Nat : n <= N => Plain(node[n].raw) /\ Len(node[n].raw) \in Nat /\ Len(node[n].raw) >= n + e}
<1>1. /\ N \in Nat /\ node[0] = Lowest(c, kind)
      /\ \A n \in 1..N :
           /\ c.branches[N + 1 - n] \in Branch
           /\ node[n].hash = Above(c.branches[N + 1 - n], node[n - 1].hash)
           /\ node[n].raw = RawBranch(c.branches[N + 1 - n], node[n - 1].hash) \o node[n - 1].raw
  BY TreeIs
<1>2. e \in Nat
  BY DEF LeafCount
<1> HIDE DEF N, node
<1>3. 0 \in Good
  <2>1. CASE c.entity = Absent
    <3>1. node[0].raw = <<>> /\ e = 0
      BY <1>1, <2>1 DEF Lowest, LeafCount
    <3>2. <<>> \in Seq({}) /\ Len(<<>>) = 0
      OBVIOUS
    <3>3. Plain(node[0].raw) /\ Len(node[0].raw) = 0
      BY <3>1, <3>2, PlainSeq
    <3> QED
      BY <3>1, <3>3
  <2>2. CASE c.entity # Absent
    <3> DEFINE raw == RawLeaf(c.nibbles, LeafOf(c, kind))
    <3>1. node[0].raw = raw /\ e = 1
      BY <1>1, <2>2 DEF Lowest, LeafCount
    <3>2. Plain(raw) /\ Len(raw) > 0
      BY ChainHas, LeafParsed
    <3>3. Len(raw) \in Nat
      BY <3>2, PlainHas
    <3> HIDE DEF raw, e
    <3> DEFINE x == Len(raw)
    <3>4. x \in Nat /\ x > 0
      BY <3>2, <3>3
    <3> HIDE DEF x
    <3>5. x >= 0 + e
      BY <3>1, <3>4
    <3> QED
      BY <3>1, <3>2, <3>3, <3>5 DEF x
  <2> QED
    BY <2>1, <2>2
<1> HIDE DEF e
<1>4. ASSUME NEW n \in Nat, n \in Good PROVE n + 1 \in Good
  <2>1. SUFFICES ASSUME n + 1 <= N
                 PROVE  /\ Plain(node[n + 1].raw) /\ Len(node[n + 1].raw) \in Nat
                        /\ Len(node[n + 1].raw) >= (n + 1) + e
    OBVIOUS
  <2>2. n + 1 \in 1..N /\ (n + 1) - 1 = n /\ n <= N
    BY <1>1, <2>1
  <2> DEFINE branch == c.branches[N + 1 - (n + 1)]
             below == node[n].raw
             raw == node[n + 1].raw
             x == Len(below)
             y == Len(raw)
  <2>3. branch \in Branch /\ raw = RawBranch(branch, node[n].hash) \o below
    BY <1>1, <2>2
  <2>4. Plain(below) /\ x \in Nat /\ x >= n + e
    BY <1>4, <2>2
  <2> HIDE DEF branch, below, raw
  <2>5. Plain(raw) /\ y > x
    BY <2>3, <2>4, BranchParsed
  <2>6. y \in Nat
    BY <2>5, PlainHas
  <2> HIDE DEF x, y
  <2>7. y >= (n + 1) + e
    BY <1>2, <2>4, <2>5, <2>6
  <2> QED
    BY <2>5, <2>6, <2>7 DEF raw, y
<1>5. ASSUME NEW n \in 0..N
      PROVE  Plain(node[n].raw) /\ Len(node[n].raw) \in Nat /\ Len(node[n].raw) >= n + e
  <2>1. n \in Nat /\ n <= N
    BY <1>1
  <2> HIDE DEF Good
  <2>2. n \in Good
    BY <1>3, <1>4, <2>1, Induct
  <2> QED
    BY <2>1, <2>2 DEF Good
<1> QED
  BY <1>5 DEF N, node, e

\* The nodes that are read of it: its branches, and its leaf if there is one.
BranchesOf(c, kind) ==
    [i \in 1..Len(c.branches) |-> BranchNode(c.branches[i], TreeOf(c, kind)[Len(c.branches) - i].hash)]
NodesOf(c, kind) ==
    IF c.entity = Absent THEN BranchesOf(c, kind)
    ELSE Append(BranchesOf(c, kind), LeafRead(c.nibbles, LeafOf(c, kind)))
\* They are branches and leaves.
LEMMA NodesOfType ==
    ASSUME NEW c \in Chains, NEW kind
    PROVE  \A i \in DOMAIN NodesOf(c, kind) : NodesOf(c, kind)[i].type \in {BranchMarker, LeafMarker}
<1> DEFINE rows == BranchesOf(c, kind)
           leaf == LeafRead(c.nibbles, LeafOf(c, kind))
           N == Len(c.branches)
<1>1. N \in Nat
  BY ChainHas
<1>2. rows = [i \in 1..N |-> rows[i]] /\ \A i \in 1..N : rows[i].type = BranchMarker
  BY DEF BranchesOf, BranchNode
<1>3. leaf.type = LeafMarker
  BY DEF LeafRead
<1>4. NodesOf(c, kind) = IF c.entity = Absent THEN rows ELSE Append(rows, leaf)
  BY DEF NodesOf
<1> HIDE DEF N, rows, leaf
<1>5. CASE c.entity = Absent
  BY <1>2, <1>4, <1>5
<1>6. CASE c.entity # Absent
  <2>1. DOMAIN rows = 1..N /\ Len(rows) = N
    BY <1>1, <1>2
  <2>2. /\ DOMAIN Append(rows, leaf) = 1..(N + 1)
        /\ \A i \in 1..(N + 1) : Append(rows, leaf)[i] = IF i = N + 1 THEN leaf ELSE rows[i]
    BY <1>1, <1>2, <2>1
  <2>3. ASSUME NEW i \in 1..(N + 1) PROVE i = N + 1 \/ i \in 1..N
    BY <1>1
  <2> QED
    BY <1>2, <1>3, <1>4, <1>6, <2>2, <2>3
<1> QED
  BY <1>5, <1>6

\* The bytes of the tree are read as its nodes.
LEMMA NodesRead ==
    ASSUME NEW c \in Chains, NEW kind
    PROVE  ParseMerkleTreeFromRaw(Raw(c, kind)) = NodesOf(c, kind)
<1> DEFINE N == Len(c.branches)
           node == TreeOf(c, kind)
           e == LeafCount(c)
           raw == Raw(c, kind)
           upto == Parsed(raw)
           M == Len(raw)
           first(k) == [i \in 1..k |-> BranchNode(c.branches[i], node[N - i].hash)]
<1>1. /\ N \in Nat /\ node[0] = Lowest(c, kind)
      /\ \A n \in 1..N :
           /\ c.branches[N + 1 - n] \in Branch
           /\ node[n].raw = RawBranch(c.branches[N + 1 - n], node[n - 1].hash) \o node[n - 1].raw
  BY TreeIs
<1>2. \A n \in 0..N : Plain(node[n].raw) /\ Len(node[n].raw) \in Nat /\ Len(node[n].raw) >= n + e
  BY RawGrows
<1>3. e \in Nat
  BY DEF LeafCount
<1>4. raw = node[N].raw
  BY DEF Raw
<1> HIDE DEF N, node, e, raw
<1>5. M \in Nat /\ M >= N + e
  <2>1. N \in 0..N
    BY <1>1
  <2> QED
    BY <1>2, <1>4, <2>1
<1>6. AreParsed(upto, raw, M)
  BY <1>5, ParsedAre
<1> HIDE DEF upto, M
<1>7. \A n \in 1..M : upto[n] = ReadOn(upto[n - 1])
  BY <1>6 DEF AreParsed
<1>8. \A n \in 1..N : node[n].raw # <<>>
  <2>1. ASSUME NEW n \in 1..N, node[n].raw = <<>> PROVE FALSE
    <3>1. n \in 0..N
      BY <1>1
    <3> DEFINE x == Len(node[n].raw)
    <3>2. x = 0
      BY <2>1
    <3>3. x >= n + e
      BY <1>2, <3>1
    <3> HIDE DEF x
    <3> QED
      BY <1>1, <1>3, <3>2, <3>3
  <2> QED
    BY <2>1
<1>9. \A k \in 0..N : upto[k] = [rest |-> node[N - k].raw, nodes |-> first(k)]
  <2> DEFINE Good == {k \in Nat : k <= N => upto[k] = [rest |-> node[N - k].raw, nodes |-> first(k)]}
  <2>1. 0 \in Good
    <3>1. upto[0] = [rest |-> raw, nodes |-> <<>>]
      BY <1>6 DEF AreParsed, Unread
    <3>2. first(0) = <<>>
      OBVIOUS
    <3>3. N - 0 = N
      BY <1>1
    <3> HIDE DEF first
    <3> QED
      BY <1>4, <3>1, <3>2, <3>3
  <2>2. ASSUME NEW k \in Nat, k \in Good PROVE k + 1 \in Good
    <3>1. SUFFICES ASSUME k + 1 <= N
                   PROVE  upto[k + 1] = [rest |-> node[N - (k + 1)].raw, nodes |-> first(k + 1)]
      OBVIOUS
    <3> DEFINE n == N - k
               l == N - (k + 1)
               branch == c.branches[k + 1]
    <3>2. /\ k + 1 \in 1..M /\ (k + 1) - 1 = k /\ n \in 1..N /\ n - 1 = l /\ N + 1 - n = k + 1
          /\ k <= N /\ l \in 0..N
      BY <1>1, <1>3, <1>5, <3>1
    <3>3. upto[k + 1] = ReadOn(upto[k])
      BY <1>7, <3>2
    <3>4. upto[k] = [rest |-> node[n].raw, nodes |-> first(k)]
      BY <2>2, <3>2
    <3> HIDE DEF n, l
    <3>5. branch \in Branch /\ node[n].raw = RawBranch(branch, node[l].hash) \o node[l].raw
      BY <1>1, <3>2
    <3> HIDE DEF branch
    <3>6. Plain(node[l].raw)
      BY <1>2, <3>2
    <3>7. ParseNode(node[n].raw) = [rest |-> node[l].raw, node |-> BranchNode(branch, node[l].hash)]
      BY <3>5, <3>6, BranchParsed
    <3>8. node[n].raw # <<>>
      BY <1>8, <3>2
    <3> DEFINE found == BranchNode(branch, node[l].hash)
    <3>9. Append(first(k), found) = first(k + 1)
      <4>1. first(k + 1)[k + 1] = found
        BY DEF l, branch
      <4>2. \A i \in 1..k : first(k + 1)[i] = first(k)[i]
        OBVIOUS
      <4>3. first(k + 1) = [i \in 1..(k + 1) |-> first(k + 1)[i]] /\ first(k) = [i \in 1..k |-> first(k)[i]]
        OBVIOUS
      <4> DEFINE f == first(k) g == first(k + 1)
      <4> HIDE DEF found, first, f, g
      <4>4. Len(f) = k
        BY <4>3, PlainIs DEF f
      <4>5. Append(f, found) = [i \in 1..(k + 1) |-> IF i = k + 1 THEN found ELSE f[i]]
        <5> DEFINE S == {f[i] : i \in DOMAIN f} \union {found}
        <5>1. f = [i \in 1..k |-> f[i]]
          BY <4>3 DEF f
        <5>2. f \in [1..k -> S] /\ found \in S
          BY <5>1
        <5> HIDE DEF S
        <5>3. f \in Seq(S)
          BY <5>2
        <5> DEFINE h == Append(f, found)
        <5>4. h = [i \in 1..Len(h) |-> h[i]] /\ Len(h) = k + 1 /\ h[k + 1] = found /\ \A i \in 1..k : h[i] = f[i]
          <6>1. h \in Seq(S) /\ Len(h) = k + 1
            BY <4>4, <5>2, <5>3, AppendProperties
          <6>2. h = f \o <<found>>
            BY <5>2, <5>3, AppendIsConcat
          <6> HIDE DEF h
          <6>4. Plain(f) /\ Plain(<<found>>) /\ <<found>>[1] = found /\ Len(<<found>>) = 1
            BY <5>3, PlainSeq, OnePlain
          <6>5. h[k + 1] = found /\ \A i \in 1..k : h[i] = f[i]
            BY <4>4, <6>2, <6>4, Joined
          <6>3. h = [i \in 1..Len(h) |-> h[i]]
            BY <6>1, PlainSeq, PlainHas
          <6> QED
            BY <6>1, <6>3, <6>5, Zenon
        <5> HIDE DEF h
        <5>5. \A i \in 1..(k + 1) : i # k + 1 => i \in 1..k
          OBVIOUS
        <5>6. h = [i \in 1..(k + 1) |-> IF i = k + 1 THEN found ELSE f[i]]
          BY <5>4, <5>5
        <5> QED
          BY <5>6 DEF h
      <4>6. g = [i \in 1..(k + 1) |-> g[i]] /\ g[k + 1] = found /\ \A i \in 1..k : g[i] = f[i]
        BY <4>1, <4>2, <4>3 DEF f, g
      <4>7. \A i \in 1..(k + 1) : i = k + 1 \/ i \in 1..k
        OBVIOUS
      <4>8. Append(f, found) = g
        BY <4>5, <4>6, <4>7
      <4> QED
        BY <4>8 DEF f, g
    <3> HIDE DEF first
    <3>10. NextParsed(upto[k]) = [rest |-> node[l].raw, nodes |-> first(k + 1)]
      <4>1. upto[k].rest = node[n].raw /\ upto[k].nodes = first(k)
        BY <3>4
      <4>2. ParseNode(upto[k].rest).rest = node[l].raw /\ ParseNode(upto[k].rest).node = found
        BY <3>7, <4>1
      <4> HIDE DEF found
      <4> QED
        BY <3>9, <4>1, <4>2 DEF NextParsed
    <3> QED
      BY <3>3, <3>4, <3>8, <3>10 DEF ReadOn, l
  <2> HIDE DEF Good
  <2>3. ASSUME NEW k \in 0..N PROVE upto[k] = [rest |-> node[N - k].raw, nodes |-> first(k)]
    <3>1. k \in Nat /\ k <= N
      BY <1>1
    <3>2. k \in Good
      BY <2>1, <2>2, <3>1, Induct
    <3> QED
      BY <3>1, <3>2 DEF Good
  <2> QED
    BY <2>3
<1>10. upto[N] = [rest |-> Lowest(c, kind).raw, nodes |-> first(N)]
  <2>1. N \in 0..N /\ N - N = 0
    BY <1>1
  <2> QED
    BY <1>1, <1>9, <2>1
<1>11. first(N) = BranchesOf(c, kind)
  BY DEF BranchesOf, N, node
<1> HIDE DEF first
<1>12. upto[N + e] = [rest |-> <<>>, nodes |-> NodesOf(c, kind)]
  <2>1. CASE c.entity = Absent
    <3>1. N + e = N
      BY <1>1, <2>1 DEF e, LeafCount
    <3> QED
      BY <1>10, <1>11, <2>1, <3>1 DEF Lowest, NodesOf
  <2>2. CASE c.entity # Absent
    <3> DEFINE value == LeafOf(c, kind)
               leaf == RawLeaf(c.nibbles, value)
    <3>1. e = 1 /\ Lowest(c, kind).raw = leaf
      BY <2>2 DEF e, LeafCount, Lowest
    <3>2. N + e \in 1..M /\ (N + e) - 1 = N
      BY <1>1, <1>5, <3>1
    <3>3. ParseNode(leaf) = [rest |-> <<>>, node |-> LeafRead(c.nibbles, value)]
      BY ChainHas, LeafParsed
    <3>4. leaf # <<>>
      <4>1. Len(leaf) > 0
        BY ChainHas, LeafParsed
      <4>2. Len(<<>>) = 0 /\ ~(0 > 0)
        OBVIOUS
      <4> HIDE DEF leaf
      <4> QED
        BY <4>1, <4>2, Zenon
    <3> HIDE DEF leaf, value
    <3>5. upto[N + e] = NextParsed(upto[N])
      BY <1>7, <1>10, <3>1, <3>2, <3>4 DEF ReadOn
    <3>6. NextParsed(upto[N]) = [rest |-> <<>>, nodes |-> Append(first(N), LeafRead(c.nibbles, value))]
      BY <1>10, <3>1, <3>3 DEF NextParsed
    <3> QED
      BY <1>11, <2>2, <3>5, <3>6 DEF NodesOf, value
  <2> QED
    BY <2>1, <2>2
<1>13. upto[M] = [rest |-> <<>>, nodes |-> NodesOf(c, kind)]
  <2> DEFINE last == [rest |-> <<>>, nodes |-> NodesOf(c, kind)]
             b == N + e
             Good == {j \in Nat : b + j <= M => upto[b + j] = last}
  <2>0. b \in Nat /\ M - b \in Nat
    BY <1>1, <1>3, <1>5
  <2> HIDE DEF b
  <2>1. 0 \in Good
    <3>1. b + 0 = b
      BY <2>0
    <3> QED
      BY <1>12, <3>1 DEF b
  <2>2. ASSUME NEW j \in Nat, j \in Good PROVE j + 1 \in Good
    <3>1. SUFFICES ASSUME b + (j + 1) <= M PROVE upto[b + (j + 1)] = last
      OBVIOUS
    <3>2. b + (j + 1) \in 1..M /\ (b + (j + 1)) - 1 = b + j /\ b + j <= M
      BY <1>5, <2>0, <3>1
    <3>3. upto[b + j] = last
      BY <2>2, <3>2
    <3>4. upto[b + (j + 1)] = ReadOn(upto[b + j])
      BY <1>7, <3>2
    <3> QED
      BY <3>3, <3>4 DEF ReadOn
  <2> HIDE DEF Good, last
  <2>3. M - b \in Good
    BY <2>0, <2>1, <2>2, Induct
  <2>4. b + (M - b) = M /\ M <= M
    BY <1>5, <2>0
  <2>5. upto[M] = last
    BY <2>3, <2>4 DEF Good
  <2> QED
    BY <2>5 DEF last
<1>14. \A i \in DOMAIN NodesOf(c, kind) : NodesOf(c, kind)[i].type \in {BranchMarker, LeafMarker}
  BY NodesOfType
<1>15. Parsed(raw)[Len(raw)].nodes = NodesOf(c, kind)
  BY <1>13 DEF upto, M
<1> QED
  BY <1>14, <1>15 DEF ParseMerkleTreeFromRaw, raw

\* A set of one number in order.
LEMMA AscendingOne ==
    ASSUME NEW n \in Nat
    PROVE  Ascending({n}) = <<n>> /\ Ascending({}) = <<>>
<1>1. Ascending({n}) = <<n>>
  <2> DEFINE S == {n}
  <2>1. S \subseteq Nat /\ IsFiniteSet(S) /\ Cardinality(S) = 1
    BY FS_Singleton
  <2>2. Enumerates(Ascending(S), Cardinality(S), Smaller(S), S)
    BY <2>1, AscendingIs
  <2>3. Ascending(S) \in [1..1 -> {n}]
    BY <2>1, <2>2 DEF Enumerates
  <2> HIDE DEF S
  <2>4. Ascending(S) = [k \in 1..1 |-> n]
    BY <2>3
  <2>5. <<n>> = [k \in 1..1 |-> n]
    OBVIOUS
  <2> QED
    BY <2>4, <2>5 DEF S
<1>2. Ascending({}) = <<>>
  <2>1. Cardinality({}) = 0
    BY FS_EmptySet
  <2>2. 1..0 = {}
    OBVIOUS
  <2>3. Ascending({}) = [k \in {} |-> CHOOSE m \in {} : Cardinality({l \in {} : l <= m}) = k]
    BY <2>1, <2>2 DEF Ascending
  <2> QED
    BY <2>3
<1> QED
  BY <1>1, <1>2

\* The tree read from the bytes is the one of the JSON: the branches and the leaf, their
\* links and their hashes, whatever their paths (parseMerkleTreeFromRaw, fromRaw).
THEOREM RawReadsAsGiven ==
    ASSUME NEW c \in Chains, NEW kind
    PROVE  FromRaw(Raw(c, kind)) = Given(c, kind)
<1> DEFINE N == Len(c.branches)
           nodes == NodesOf(c, kind)
           rows == BranchesOf(c, kind)
           leaf == LeafRead(c.nibbles, LeafOf(c, kind))
           branches == {i \in DOMAIN nodes : nodes[i].type = BranchMarker}
           leaves == {i \in DOMAIN nodes : nodes[i].type = LeafMarker}
<1>1. N \in Nat /\ DOMAIN c.branches = 1..N
  BY ChainHas
<1>2. LeafMarker # BranchMarker
  BY DEF LeafMarker, BranchMarker
<1>3. rows = [i \in 1..N |-> rows[i]] /\ \A i \in 1..N : rows[i].type = BranchMarker
  BY DEF BranchesOf, BranchNode
<1>4. leaf.type = LeafMarker
  BY DEF LeafRead
<1>5. Given(c, kind).branches = rows
  BY <1>1 DEF Given, BranchesOf, BranchNode
<1>6. Given(c, kind).leaf = IF c.entity = Absent THEN <<>> ELSE <<leaf>>
  BY DEF Given, LeafRead, Lowest
<1>7. Given(c, kind) = [branches |-> Given(c, kind).branches, leaf |-> Given(c, kind).leaf]
  BY DEF Given
<1>8. FromRaw(Raw(c, kind)) = [branches |-> OfType(nodes, BranchMarker), leaf |-> OfType(nodes, LeafMarker)]
  BY NodesRead DEF FromRaw
<1>9. nodes = IF c.entity = Absent THEN rows ELSE Append(rows, leaf)
  BY DEF NodesOf
<1> HIDE DEF N, nodes, rows, leaf
<1>10. CASE c.entity = Absent
  <2>1. nodes = rows
    BY <1>9, <1>10
  <2>2. branches = 1..N /\ leaves = {}
    BY <1>2, <1>3, <2>1
  <2>3. Ascending(branches) = [k \in 1..N |-> k] /\ Ascending(leaves) = <<>>
    BY <1>1, <2>2, AscendingUpTo, AscendingOne
  <2> DEFINE p == Ascending(branches) q == Ascending(leaves)
  <2>4. OfType(nodes, BranchMarker) = [k \in DOMAIN p |-> nodes[p[k]]] /\ OfType(nodes, LeafMarker) = [k \in DOMAIN q |-> nodes[q[k]]]
    BY DEF OfType
  <2>8. p = [k \in 1..N |-> k] /\ q = <<>>
    BY <2>3
  <2> HIDE DEF p, q, branches, leaves
  <2>5. DOMAIN p = 1..N /\ (\A k \in 1..N : p[k] = k) /\ DOMAIN q = {} /\ q = <<>>
    BY <2>8
  <2>6. OfType(nodes, BranchMarker) = rows
    BY <1>3, <2>1, <2>4, <2>5
  <2>7. OfType(nodes, LeafMarker) = <<>>
    BY <2>4, <2>5
  <2> QED
    BY <1>5, <1>6, <1>7, <1>8, <1>10, <2>6, <2>7
<1>11. CASE c.entity # Absent
  <2>1. nodes = Append(rows, leaf)
    BY <1>9, <1>11
  <2>2. nodes = [i \in 1..(N + 1) |-> nodes[i]] /\ nodes[N + 1] = leaf /\ \A i \in 1..N : nodes[i] = rows[i]
    <3> DEFINE S == {rows[i] : i \in DOMAIN rows} \union {leaf}
    <3>1. rows \in [1..N -> S] /\ leaf \in S
      BY <1>3
    <3> HIDE DEF S
    <3>2. rows \in Seq(S)
      BY <1>1, <3>1
    <3>3. Len(rows) = N
      BY <1>1, <1>3, PlainIs
    <3>4. nodes = rows \o <<leaf>>
      BY <2>1, <3>1, <3>2, AppendIsConcat
    <3>5. Plain(rows) /\ Plain(<<leaf>>) /\ <<leaf>>[1] = leaf /\ Len(<<leaf>>) = 1
      BY <3>2, PlainSeq, OnePlain
    <3>6. Plain(nodes) /\ Len(nodes) = N + 1 /\ nodes[N + 1] = leaf /\ \A i \in 1..N : nodes[i] = rows[i]
      BY <3>3, <3>4, <3>5, Joined
    <3> QED
      BY <3>6, PlainHas
  <2>3. \A i \in 1..(N + 1) : i = N + 1 \/ i \in 1..N
    BY <1>1
  <2>4. branches = 1..N
    <3>0. \A i \in 1..N : i \in 1..(N + 1)
      BY <1>1
    <3>1. \A i \in 1..N : i \in 1..(N + 1) /\ nodes[i].type = BranchMarker
      BY <1>3, <2>2, <3>0, Zenon
    <3>2. nodes[N + 1].type # BranchMarker /\ DOMAIN nodes = 1..(N + 1)
      BY <1>2, <1>4, <2>2
    <3> QED
      BY <2>3, <3>1, <3>2
  <2>5. leaves = {N + 1}
    <3>1. \A i \in 1..N : nodes[i].type # LeafMarker
      BY <1>2, <1>3, <2>2
    <3>2. nodes[N + 1].type = LeafMarker /\ DOMAIN nodes = 1..(N + 1) /\ N + 1 \in 1..(N + 1)
      BY <1>1, <1>4, <2>2
    <3> QED
      BY <2>3, <3>1, <3>2
  <2> DEFINE p == Ascending(branches) q == Ascending(leaves)
  <2>6. p = [k \in 1..N |-> k] /\ q = <<N + 1>>
    <3>1. N + 1 \in Nat
      BY <1>1
    <3> QED
      BY <1>1, <2>4, <2>5, <3>1, AscendingUpTo, AscendingOne
  <2>7. OfType(nodes, BranchMarker) = [k \in DOMAIN p |-> nodes[p[k]]] /\ OfType(nodes, LeafMarker) = [k \in DOMAIN q |-> nodes[q[k]]]
    BY DEF OfType
  <2> HIDE DEF p, q, branches, leaves
  <2>8. DOMAIN p = 1..N /\ (\A k \in 1..N : p[k] = k) /\ DOMAIN q = 1..1 /\ q[1] = N + 1
    BY <2>6
  <2>9. OfType(nodes, BranchMarker) = rows
    <3>1. \A k \in 1..N : nodes[p[k]] = rows[k]
      BY <2>2, <2>8, Zenon
    <3>2. OfType(nodes, BranchMarker) = [k \in 1..N |-> nodes[p[k]]]
      BY <2>7, <2>8, Zenon
    <3> QED
      BY <1>3, <3>1, <3>2
  <2>10. OfType(nodes, LeafMarker) = <<leaf>>
    <3>1. OfType(nodes, LeafMarker) = [k \in 1..1 |-> nodes[q[k]]]
      BY <2>7, <2>8, Zenon
    <3>2. nodes[q[1]] = leaf
      BY <2>2, <2>8, Zenon
    <3>3. [k \in 1..1 |-> nodes[q[k]]] = <<nodes[q[1]]>>
      <4> HIDE DEF nodes, q
      <4> QED
        OBVIOUS
    <3> QED
      BY <3>1, <3>2, <3>3, Zenon
  <2> QED
    BY <1>5, <1>6, <1>7, <1>8, <1>11, <2>9, <2>10
<1> QED
  BY <1>10, <1>11

-----------------------------------------------------------------------------
(* What a chain has, and what is read of it.                                *)

\* However the tree is given, it is the one the node has.
LEMMA TreeGiven ==
    ASSUME NEW c \in Chains, NEW kind, NEW given \in BOOLEAN
    PROVE  ToMerkleStateInfo(c, kind, given) = Given(c, kind)
BY RawReadsAsGiven DEF ToMerkleStateInfo

\* The tree that is given has a leaf when there is the entity, what is stored in it, and the root.
LEMMA GivenHas ==
    ASSUME NEW c \in Chains, NEW kind
    PROVE  LET tree == Given(c, kind) IN
           /\ tree.leaf = <<>> <=> c.entity = Absent
           /\ c.entity # Absent => tree.leaf[1].value = LeafOf(c, kind)
           /\ ~(tree.leaf = <<>> /\ tree.branches = <<>>) => GetRootHash(tree) = StateRoot(c, kind)
<1> DEFINE tree == Given(c, kind)
           N == Len(c.branches)
           node == TreeOf(c, kind)
           rows == [i \in DOMAIN c.branches |->
                      LET below == node[N - i].hash
                      IN  [type |-> BranchMarker, links |-> LinksOf(c.branches[i], below), hash |-> Above(c.branches[i], below)]]
           leaf == [type |-> LeafMarker, value |-> LeafOf(c, kind), hash |-> Lowest(c, kind).hash]
<1>1. N \in Nat /\ DOMAIN c.branches = 1..N
  BY ChainHas
<1>2. tree.branches = rows /\ tree.leaf = IF c.entity = Absent THEN <<>> ELSE <<leaf>>
  BY DEF Given
<1>3. <<leaf>> # <<>> /\ <<leaf>>[1] = leaf
  OBVIOUS
<1>4. leaf.value = LeafOf(c, kind) /\ leaf.hash = Lowest(c, kind).hash
  OBVIOUS
<1>5. StateRoot(c, kind) = node[N].hash
  BY DEF StateRoot
<1>6. /\ node[0] = Lowest(c, kind)
      /\ \A n \in 1..N : node[n].hash = Above(c.branches[N + 1 - n], node[n - 1].hash)
  BY TreeIs
<1>7. N # 0 => rows # <<>> /\ rows[1].hash = node[N].hash
  <2>1. SUFFICES ASSUME N # 0 PROVE rows # <<>> /\ rows[1].hash = node[N].hash
    OBVIOUS
  <2> HIDE DEF node, N
  <2>2. 1 \in 1..N /\ N \in 1..N /\ N + 1 - N = 1
    BY <1>1, <2>1
  <2>3. rows[1].hash = Above(c.branches[1], node[N - 1].hash) /\ DOMAIN rows = 1..N
    BY <1>1, <2>2
  <2>4. node[N].hash = Above(c.branches[1], node[N - 1].hash)
    BY <1>6, <2>2
  <2>5. rows # <<>>
    <3> HIDE DEF rows
    <3>1. DOMAIN <<>> = 1..0 /\ 1 \notin 1..0
      OBVIOUS
    <3> QED
      BY <2>2, <2>3, <3>1
  <2> QED
    BY <2>3, <2>4, <2>5
<1>8. N = 0 => rows = <<>>
  BY <1>1
<1> HIDE DEF leaf, rows, node, N, tree
<1>9. ~(tree.leaf = <<>> /\ tree.branches = <<>>) => GetRootHash(tree) = StateRoot(c, kind)
  <2>1. CASE N = 0
    <3>1. rows = <<>> /\ node[N].hash = leaf.hash
      BY <1>4, <1>6, <1>8, <2>1
    <3> QED
      BY <1>2, <1>3, <1>5, <3>1 DEF GetRootHash
  <2>2. CASE N # 0
    BY <1>2, <1>5, <1>7, <2>2 DEF GetRootHash
  <2> QED
    BY <2>1, <2>2
<1> QED
  BY <1>2, <1>3, <1>4, <1>9 DEF tree

\* The children of a namespace are paths.
LEMMA ChildrenArePaths == ASSUME NEW c \in Chains PROVE IsPaths(c.children)
BY ChainsAssumption DEF IsPaths

\* The children that were searched are serialised as the node orders them.
LEMMA ChildrenAre ==
    ASSUME NEW c \in Chains, NEW found \in Children(c)
    PROVE  /\ found.version = c.entity /\ ToSet(found.paths) = c.children
           /\ NamespacePath(found.paths) = Ordered(c.children)
<1>1. PICK paths \in {SetToSeq(c.children), Reverse(SetToSeq(c.children))} : found = [version |-> c.entity, paths |-> paths]
  BY DEF Children
<1>2. IsFiniteSet(c.children) /\ IsPaths(c.children)
  BY ChildrenArePaths, ChainsAssumption
<1>3. ToSet(paths) = c.children
  BY <1>2, ListsAll
<1>4. found.version = c.entity /\ found.paths = paths
  BY <1>1
<1>5. NamespacePath(paths) = Ordered(c.children)
  BY <1>2, <1>3, NamespacePathOrders
<1> QED
  BY <1>3, <1>4, <1>5

\* The paths in order tell which they are.
LEMMA OrderedTells ==
    ASSUME NEW C, NEW D, IsPaths(C), IsPaths(D), Ordered(C) = Ordered(D)
    PROVE  C = D
<1>1. Cardinality(C) \in Nat /\ Enumerates(Ordered(C), Cardinality(C), Earlier(C), C)
  BY OrderedIs
<1>2. Cardinality(D) \in Nat /\ Enumerates(Ordered(D), Cardinality(D), Earlier(D), D)
  BY OrderedIs
<1> DEFINE s == Ordered(C)
<1>3. s \in [1..Cardinality(C) -> C] /\ \A x \in C : \E k \in 1..Cardinality(C) : s[k] = x
  BY <1>1 DEF Enumerates
<1>4. s \in [1..Cardinality(D) -> D] /\ \A x \in D : \E k \in 1..Cardinality(D) : s[k] = x
  BY <1>2 DEF Enumerates
<1> HIDE DEF s
<1>5. C = {s[k] : k \in DOMAIN s}
  BY <1>3
<1>6. D = {s[k] : k \in DOMAIN s}
  BY <1>4
<1> QED
  BY <1>5, <1>6

\* What follows parts of one length tells what follows.
LEMMA SameTail ==
    ASSUME NEW s, NEW t, NEW u, NEW v, Plain(s), Plain(t), Plain(u), Plain(v), Len(s) = Len(u), s \o t = u \o v
    PROVE  t = v
<1>1. SubSeq(s \o t, Len(s) + 1, Len(s \o t)) = t
  BY Cut, Zenon
<1>2. SubSeq(u \o v, Len(u) + 1, Len(u \o v)) = v
  BY Cut, Zenon
<1> QED
  BY <1>1, <1>2, Zenon

IsBehind(u, t, k, l) == \A i \in 1..l : u[k + i] = t[i]
\* The second part of a sequence is behind the first.
LEMMA JoinedBehind ==
    ASSUME NEW s, NEW t, Plain(s), Plain(t)
    PROVE  IsBehind(s \o t, t, Len(s), Len(t))
BY Joined DEF IsBehind

\* The first element and the rest make the sequence.
LEMMA HeadAgain ==
    ASSUME NEW s, Plain(s), NEW m \in Nat, Len(s) = m, m > 0
    PROVE  /\ Plain(Tail(s)) /\ Len(Tail(s)) = m - 1
           /\ <<s[1]>> \o Tail(s) = s
<1> DEFINE S == {s[i] : i \in DOMAIN s}
           t == Tail(s)
<1>1. s \in Seq(S) /\ s # <<>> /\ s = [i \in 1..m |-> s[i]]
  BY PlainHas DEF Plain
<1> HIDE DEF S
<1>2. t \in Seq(S) /\ Len(t) = m - 1 /\ \A i \in 1..(m - 1) : t[i] = s[i + 1]
  BY <1>1
<1> HIDE DEF t
<1>3. Plain(t) /\ Plain(<<s[1]>>) /\ Len(<<s[1]>>) = 1 /\ <<s[1]>>[1] = s[1]
  BY <1>2, PlainSeq, OnePlain
<1> DEFINE h == <<s[1]>>
           u == h \o t
           l == m - 1
<1> HIDE DEF h
<1>4. Plain(h) /\ Len(h) = 1 /\ h[1] = s[1]
  BY <1>3 DEF h
<1>5. Plain(u) /\ Len(u) = 1 + l /\ u[1] = h[1] /\ \A i \in 1..l : u[1 + i] = t[i]
  <2>1. Plain(u) /\ Len(u) = Len(h) + Len(t) /\ \A i \in 1..Len(h) : u[i] = h[i]
    <3>1. IsJoined(u, h, t)
      BY <1>3, <1>4, JoinedIs
    <3> HIDE DEF u
    <3> QED
      BY <3>1 DEF IsJoined
  <2>2. \A i \in 1..l : u[1 + i] = t[i]
    <3>1. IsBehind(u, t, Len(h), Len(t))
      BY <1>3, <1>4, JoinedBehind
    <3>2. Len(h) = 1 /\ Len(t) = l
      BY <1>2, <1>4
    <3> HIDE DEF u, l
    <3>3. IsBehind(u, t, 1, l)
      BY <3>1, <3>2, Zenon
    <3> QED
      BY <3>3 DEF IsBehind
  <2> HIDE DEF u, l
  <2>3. Len(t) = l /\ 1 \in 1..1
    BY <1>2 DEF l
  <2> QED
    BY <1>4, <2>1, <2>2, <2>3, Zenon
<1> HIDE DEF u
<1>6. 1 + l = m
  OBVIOUS
<1>7. u = [i \in 1..m |-> u[i]]
  BY <1>5, <1>6, PlainHas
<1>8. ASSUME NEW i \in 1..m PROVE u[i] = s[i]
  <2>1. CASE i = 1
    BY <1>4, <1>5, <2>1
  <2>2. CASE i # 1
    <3> DEFINE j == i - 1
    <3>1. j \in 1..l /\ 1 + j = i /\ j + 1 = i
      BY <2>2
    <3> HIDE DEF j, l
    <3>2. u[1 + j] = t[j]
      BY <1>5, <3>1
    <3>3. t[j] = s[j + 1]
      BY <1>2, <3>1 DEF l
    <3> QED
      BY <3>1, <3>2, <3>3
  <2> QED
    BY <2>1, <2>2
<1>9. u = s
  BY <1>1, <1>7, <1>8
<1> QED
  BY <1>2, <1>3, <1>9 DEF u, h, t

HasParts(row) == \E m \in Nat : m > 0 /\ DOMAIN row = 1..m
\* What is stored of an entity has parts.
LEMMA SchemaHas == \A kind \in EntityKinds : HasParts(Schema[kind])
<1>1. HasParts(Schema["account"])
  <2>1. DOMAIN Schema["account"] = 1..11
    BY DEF Schema
  <2> QED
    BY <2>1 DEF HasParts
<1>2. HasParts(Schema["namespace"])
  <2>1. DOMAIN Schema["namespace"] = 1..6
    BY DEF Schema
  <2> QED
    BY <2>1 DEF HasParts
<1>3. HasParts(Schema["mosaic"])
  <2>1. DOMAIN Schema["mosaic"] = 1..9
    BY DEF Schema
  <2> QED
    BY <2>1 DEF HasParts
<1>4. HasParts(Schema["multisig"])
  <2>1. DOMAIN Schema["multisig"] = 1..6
    BY DEF Schema
  <2> QED
    BY <2>1 DEF HasParts
<1>5. HasParts(Schema["secretLock"])
  <2>1. DOMAIN Schema["secretLock"] = 1..9
    BY DEF Schema
  <2> QED
    BY <2>1 DEF HasParts
<1>6. HasParts(Schema["hashLock"])
  <2>1. DOMAIN Schema["hashLock"] = 1..7
    BY DEF Schema
  <2> QED
    BY <2>1 DEF HasParts
<1>7. HasParts(Schema["accountRestriction"])
  <2>1. DOMAIN Schema["accountRestriction"] = 1..3
    BY DEF Schema
  <2> QED
    BY <2>1 DEF HasParts
<1>8. HasParts(Schema["addressRestriction"])
  <2>1. DOMAIN Schema["addressRestriction"] = 1..4
    BY DEF Schema
  <2> QED
    BY <2>1 DEF HasParts
<1>9. HasParts(Schema["globalRestriction"])
  <2>1. DOMAIN Schema["globalRestriction"] = 1..3
    BY DEF Schema
  <2> QED
    BY <2>1 DEF HasParts
<1>10. HasParts(Schema["metadata"])
  <2>1. DOMAIN Schema["metadata"] = 1..7
    BY DEF Schema
  <2> QED
    BY <2>1 DEF HasParts
<1>11. EntityKinds = {"account", "namespace", "mosaic", "multisig", "secretLock",
                     "hashLock", "accountRestriction", "addressRestriction", "globalRestriction", "metadata"}
  BY DEF EntityKinds, AccountToMultisig, LocksToMetadata
<1> QED
  BY <1>1, <1>2, <1>3, <1>4, <1>5, <1>6, <1>7, <1>8, <1>9, <1>10, <1>11

\* As many for every version.
LEMMA StoredIs ==
    ASSUME NEW kind \in EntityKinds
    PROVE  \E m \in Nat : m > 0 /\ \A v : /\ Plain(Stored(kind, v)) /\ Len(Stored(kind, v)) = m
                                          /\ Stored(kind, v)[1] = <<Schema[kind][1], v>>
<1>1. PICK m \in Nat : m > 0 /\ DOMAIN Schema[kind] = 1..m
  BY SchemaHas DEF HasParts
<1>2. ASSUME NEW v
      PROVE  /\ Plain(Stored(kind, v)) /\ Len(Stored(kind, v)) = m
             /\ Stored(kind, v)[1] = <<Schema[kind][1], v>>
  <2> DEFINE s == Stored(kind, v)
  <2>1. s = [i \in 1..m |-> <<Schema[kind][i], v>>]
    BY <1>1 DEF Stored
  <2>2. 1 \in 1..m
    BY <1>1
  <2> HIDE DEF s
  <2>3. s = [i \in 1..m |-> s[i]] /\ s[1] = <<Schema[kind][1], v>>
    BY <2>1, <2>2
  <2>4. Plain(s) /\ Len(s) = m
    BY <2>3, PlainIs
  <2> QED
    BY <2>3, <2>4 DEF s
<1> QED
  BY <1>1, <1>2

\* What is stored tells the version.
LEMMA StoredTells ==
    ASSUME NEW kind \in EntityKinds, NEW v, NEW w, Stored(kind, v) = Stored(kind, w)
    PROVE  v = w
<1>1. Stored(kind, v)[1] = <<Schema[kind][1], v>> /\ Stored(kind, w)[1] = <<Schema[kind][1], w>>
  BY StoredIs
<1> QED
  BY <1>1

InfoOf(c, kind) == FromDto(Entities[kind], Dto(Entities[kind], c.entity))

\* All kinds but the namespace: what is serialised is what is stored.
LEMMA PlainlySerialized ==
    ASSUME NEW kind \in EntityKinds, kind # "namespace", NEW c \in Chains, NEW found
    PROVE  /\ Serialized(kind, InfoOf(c, kind), found) = Stored(kind, c.entity)
           /\ \A d \in Chains : LeafOf(d, kind) = Stored(kind, d.entity)
           /\ \A f \in ToSet(Entities[kind].serialized) : InfoOf(c, kind)[f][2] = c.entity
<1>1. Serialize(Entities[kind], InfoOf(c, kind)) = Stored(kind, c.entity)
      /\ \A f \in ToSet(Entities[kind].serialized) : InfoOf(c, kind)[f][2] = c.entity
  BY ReadsAsStored DEF InfoOf
<1>2. Serialized(kind, InfoOf(c, kind), found) = Serialize(Entities[kind], InfoOf(c, kind))
  BY DEF Serialized
<1>3. ASSUME NEW d \in Chains PROVE LeafOf(d, kind) = Stored(kind, d.entity)
  <2> DEFINE s == Stored(kind, d.entity)
             S == {s[i] : i \in DOMAIN s}
  <2>1. LeafOf(d, kind) = s \o <<>>
    BY DEF LeafOf
  <2>2. Plain(s)
    BY StoredIs
  <2> HIDE DEF s
  <2>3. s \in Seq(S)
    BY <2>2 DEF Plain
  <2> HIDE DEF S
  <2>4. s \o <<>> = s
    BY <2>3
  <2> QED
    BY <2>1, <2>4 DEF s
<1> QED
  BY <1>1, <1>2, <1>3

\* A namespace: the version that was read first, the rest and the paths that were searched.
LEMMA NamespaceReadAs ==
    ASSUME NEW c \in Chains, NEW d \in Chains, NEW found \in Children(d)
    PROVE  Serialized("namespace", InfoOf(c, "namespace"), found) =
             (<<Stored("namespace", c.entity)[1]>> \o Tail(Stored("namespace", d.entity))) \o Ordered(d.children)
<1> DEFINE kind == "namespace"
           class == Entities[kind]
           info == InfoOf(c, kind)
<1>1. kind \in EntityKinds
  BY DEF EntityKinds, AccountToMultisig
<1> HIDE DEF kind
<1>2. Serialize(class, info) = Stored(kind, c.entity)
  BY <1>1, ReadsAsStored DEF InfoOf
<1>3. found.version = d.entity /\ NamespacePath(found.paths) = Ordered(d.children)
  BY ChildrenAre
<1>4. Serialize(class, FromDto(class, Dto(class, found.version))) = Stored(kind, d.entity)
  BY <1>1, <1>3, ReadsAsStored
<1>5. class.serialized[1] = "version" /\ 1 \in DOMAIN class.serialized
  BY DEF kind, Entities, Class, NamespaceSerialized
<1> HIDE DEF class, info
<1>6. info["version"] = Stored(kind, c.entity)[1]
  <2>1. Serialize(class, info)[1] = info[class.serialized[1]]
    BY <1>5 DEF Serialize
  <2> QED
    BY <1>2, <1>5, <2>1
<1>7. Serialized(kind, info, found) =
        (<<info["version"]>> \o Tail(Serialize(class, FromDto(class, Dto(class, found.version))))) \o NamespacePath(found.paths)
  BY DEF Serialized, class, kind
<1>8. Serialized(kind, info, found) =
        (<<Stored(kind, c.entity)[1]>> \o Tail(Stored(kind, d.entity))) \o Ordered(d.children)
  BY <1>3, <1>4, <1>6, <1>7, Zenon
<1> QED
  BY <1>8, Zenon DEF kind, info

\* What was read at one time gives the leaf of that time.
LEMMA LeafMet ==
    ASSUME NEW c \in Chains, NEW kind \in EntityKinds, NEW found, kind = "namespace" => found \in Children(c)
    PROVE  Serialized(kind, InfoOf(c, kind), found) = LeafOf(c, kind)
<1>1. CASE kind # "namespace"
  BY <1>1, PlainlySerialized
<1>2. CASE kind = "namespace"
  <2> DEFINE s == Stored("namespace", c.entity)
  <2>1. Serialized(kind, InfoOf(c, kind), found) = (<<s[1]>> \o Tail(s)) \o Ordered(c.children)
    BY <1>2, NamespaceReadAs
  <2>2. PICK m \in Nat : m > 0 /\ Plain(s) /\ Len(s) = m
    BY <1>2, StoredIs
  <2>3. LeafOf(c, kind) = s \o Ordered(c.children)
    BY <1>2 DEF LeafOf
  <2> HIDE DEF s
  <2>4. <<s[1]>> \o Tail(s) = s
    BY <2>2, HeadAgain
  <2> QED
    BY <2>1, <2>3, <2>4
<1> QED
  BY <1>1, <1>2

\* And what gives a leaf is what that leaf is of.
LEMMA LeafTells ==
    ASSUME NEW kind \in EntityKinds, NEW c \in Chains, NEW d \in Chains, NEW e \in Chains,
           NEW found, kind = "namespace" => found \in Children(d),
           Serialized(kind, InfoOf(c, kind), found) = LeafOf(e, kind)
    PROVE  IF kind = "namespace" THEN ToSet(found.paths) = e.children
           ELSE \A f \in ToSet(Entities[kind].serialized) : InfoOf(c, kind)[f][2] = e.entity
<1>1. CASE kind # "namespace"
  <2>1. Stored(kind, c.entity) = Stored(kind, e.entity)
    BY <1>1, PlainlySerialized
  <2>2. c.entity = e.entity
    BY <2>1, StoredTells
  <2> QED
    BY <1>1, <2>2, PlainlySerialized
<1>2. CASE kind = "namespace"
  <2> DEFINE s == Stored("namespace", c.entity)
             t == Stored("namespace", d.entity)
             u == Stored("namespace", e.entity)
             first == <<s[1]>> \o Tail(t)
  <2>1. first \o Ordered(d.children) = u \o Ordered(e.children)
    BY <1>2, NamespaceReadAs DEF LeafOf
  <2>2. PICK m \in Nat : m > 0 /\ \A v : Plain(Stored("namespace", v)) /\ Len(Stored("namespace", v)) = m
    BY <1>2, StoredIs
  <2>3. Plain(t) /\ Len(t) = m /\ Plain(u) /\ Len(u) = m
    BY <2>2
  <2> HIDE DEF s, t, u
  <2>4. Plain(first) /\ Len(first) = m
    <3> DEFINE r == Tail(t)
               h == <<s[1]>>
               l == m - 1
    <3>1. Plain(r) /\ Len(r) = l
      BY <2>2, <2>3, HeadAgain
    <3>2. Plain(h) /\ Len(h) = 1
      BY OnePlain
    <3> HIDE DEF r, h
    <3>3. Plain(h \o r) /\ Len(h \o r) = Len(h) + Len(r)
      BY <3>1, <3>2, Joined
    <3>4. 1 + l = m
      OBVIOUS
    <3> HIDE DEF l
    <3>5. Len(h \o r) = m
      BY <3>1, <3>2, <3>3, <3>4, Zenon
    <3> QED
      BY <3>3, <3>5 DEF r, h
  <2>5. ASSUME NEW x \in {d, e} PROVE Plain(Ordered(x.children))
    <3> DEFINE C == x.children
    <3>1. IsPaths(C)
      BY ChildrenArePaths
    <3> HIDE DEF C
    <3>2. Cardinality(C) \in Nat /\ Enumerates(Ordered(C), Cardinality(C), Earlier(C), C)
      BY <3>1, OrderedIs
    <3>3. Ordered(C) = [k \in 1..Cardinality(C) |-> Ordered(C)[k]]
      BY <3>2 DEF Enumerates
    <3>4. Plain(Ordered(C))
      BY <3>2, <3>3, PlainIs
    <3> QED
      BY <3>4 DEF C
  <2> HIDE DEF first
  <2>6. Ordered(d.children) = Ordered(e.children)
    BY <2>1, <2>3, <2>4, <2>5, SameTail
  <2>7. d.children = e.children
    BY <2>6, ChildrenArePaths, OrderedTells
  <2>8. ToSet(found.paths) = d.children
    BY <1>2, ChildrenAre
  <2> QED
    BY <1>2, <2>7, <2>8
<1> QED
  BY <1>1, <1>2

-----------------------------------------------------------------------------
(* The inductive invariant: every answer that is there was so of a chain,   *)
(* and of the one the node has if it did not change since the call; and     *)
(* the result is what the answers that are there give.                      *)
From(c) == c \in Chains /\ (changes = op.begun => c = chain)
BlockNames == {"transactions", "receipts"}
OpKnown ==
    /\ op.begun \in Nat /\ op.begun <= changes
    /\ op.name \in {"idle", "root"} \union BlockNames \union EntityKinds
    /\ op.name = "idle" => op = Idle /\ result = "none"
BlockKnown ==
    op.name \in BlockNames =>
      /\ DOMAIN read \subseteq BlockRequests
      /\ "block" \in DOMAIN read => \E c \in Chains : From(c) /\ read["block"] = MerkleRoot(List(c, op.name))
      /\ "path" \in DOMAIN read =>
           \E c \in Chains : /\ From(c) /\ Holds(c, op.name, op.leaf)
                             /\ read["path"] = MerklePath(c, op.name, op.leaf)
      /\ result = "true" =>
           DOMAIN read = BlockRequests /\ ValidateInBlock(op.leaf, read["path"], read["block"])
      /\ (result = "false" /\ ~failed /\ changes = op.begun) =>
           \/ ~Holds(chain, op.name, op.leaf)
           \/ DOMAIN read = BlockRequests /\ ~ValidateInBlock(op.leaf, read["path"], read["block"])
\* The pages that were read are what the list of the block's transactions begins with.
PagesKnown ==
    op.name = "root" /\ changes = op.begun =>
      /\ result # "false" /\ (result = "error" => failed)
      /\ \/ read = NoAnswers
         \/ /\ DOMAIN read = {"page"}
            /\ \E k \in 0..Len(chain.transactions) :
                 read["page"] = SubSeq(Listed(chain, op.leaf), 1, k)
Progress(kind) == IF kind = "namespace" THEN {{}, {"info"}, {"info", "children"}, {"info", "children", Tree}}
                  ELSE {{}, {"info"}, {"info", Tree}}
EntityKnown ==
    op.name \in EntityKinds =>
      /\ DOMAIN read \in Progress(op.name)
      /\ "info" \in DOMAIN read =>
           \E c \in Chains : From(c) /\ c.entity # Absent /\ read["info"] = InfoOf(c, op.name)
      /\ "children" \in DOMAIN read => \E c \in Chains : From(c) /\ read["children"] \in Children(c)
      /\ Tree \in DOMAIN read =>
           /\ \E c \in Chains : From(c) /\ read[Tree] = Given(c, op.name)
           /\ result = IF op.name = "namespace" /\ read["children"].version = Absent THEN "error"
                       ELSE ToProof(Serialized(op.name, read["info"], Found), read[Tree])
      /\ result \in {"true", "false"} => Tree \in DOMAIN read
      /\ (result = "error" /\ ~failed /\ changes = op.begun) =>
           \/ chain.entity = Absent
           \/ op.name = "namespace" /\ ~chain.root
           \/ Tree \in DOMAIN read
BlockInv == TypeOK /\ OpKnown /\ BlockKnown /\ PagesKnown /\ EntityKnown

\* The names of the other calls are no kinds of entity.
LEMMA NamesDiffer ==
    /\ \A name \in {"idle", "root", "transactions", "receipts"} : name \notin EntityKinds
    /\ "namespace" \in EntityKinds
<1>1. EntityKinds = {"account", "namespace", "mosaic", "multisig", "secretLock", "hashLock", "accountRestriction",
                     "addressRestriction", "globalRestriction", "metadata"}
  BY DEF EntityKinds, AccountToMultisig, LocksToMetadata
<1> QED
  BY <1>1

\* Before the first answer nothing is read.
LEMMA NothingRead == DOMAIN NoAnswers = {}
BY DEF NoAnswers

\* It holds at the start.
LEMMA BlockInit == Init => BlockInv
<1> SUFFICES ASSUME Init PROVE BlockInv
  OBVIOUS
<1>1. op = Idle /\ op.name = "idle" /\ op.begun = 0 /\ changes = 0 /\ read = NoAnswers /\ result = "none" /\ failed = FALSE
      /\ chain \in Chains
  BY DEF Init, Idle
<1>2. TypeOK
  <2>1. 0 \in 0..MaxChanges
    BY ChangesAssumption
  <2> QED
    BY <1>1, <2>1 DEF TypeOK
<1>3. OpKnown
  BY <1>1 DEF OpKnown
<1>4. op.name \notin BlockNames /\ op.name # "root" /\ op.name \notin EntityKinds
  BY <1>1, NamesDiffer DEF BlockNames
<1> QED
  BY <1>2, <1>3, <1>4 DEF BlockInv, BlockKnown, PagesKnown, EntityKnown

\* A call is made.
LEMMA CallsKept ==
    ASSUME BlockInv, NEW name \in {"root"} \union BlockNames \union EntityKinds, NEW leaf, Calls(name, leaf)
    PROVE  BlockInv'
<1>1. /\ op = Idle /\ op' = [name |-> name, leaf |-> leaf, begun |-> changes]
      /\ chain' = chain /\ changes' = changes /\ read' = read /\ failed' = failed /\ result' = result
  BY DEF Calls
<1>2. read = NoAnswers /\ result = "none" /\ changes \in Nat /\ chain \in Chains
  BY <1>1, ChangesAssumption DEF BlockInv, TypeOK, OpKnown, Idle
<1>3. op'.name = name /\ op'.begun = changes
  BY <1>1
<1>4. name # "idle" /\ Idle.name = "idle"
  BY NamesDiffer DEF BlockNames, Idle
<1>5. op' # Idle
  BY <1>3, <1>4
<1>6. TypeOK'
  BY <1>1, <1>2, <1>5 DEF BlockInv, TypeOK
<1>7. OpKnown'
  BY <1>1, <1>2, <1>3, <1>4 DEF OpKnown
<1>8. DOMAIN read' = {} /\ result' = "none"
  BY <1>1, <1>2, NothingRead
<1>9. BlockKnown'
  BY <1>8 DEF BlockKnown
<1>10. PagesKnown'
  BY <1>1, <1>2 DEF PagesKnown
<1>11. EntityKnown'
  BY <1>8 DEF EntityKnown, Progress
<1> QED
  BY <1>6, <1>7, <1>9, <1>10, <1>11 DEF BlockInv

\* The chain changes: what was said of the chain at the call is said no more.
LEMMA ChangesKept ==
    ASSUME BlockInv, NEW c \in Chains, ChainChanges(c)
    PROVE  BlockInv'
<1>1. /\ changes < MaxChanges /\ chain' = c /\ changes' = changes + 1
      /\ op' = op /\ read' = read /\ failed' = failed /\ result' = result
  BY DEF ChainChanges
<1>2. changes \in Nat /\ op.begun \in Nat /\ op.begun <= changes
  BY ChangesAssumption DEF BlockInv, TypeOK, OpKnown
<1>3. changes' # op'.begun
  BY <1>1, <1>2
<1>4. changes' \in 0..MaxChanges
  BY <1>1, <1>2, ChangesAssumption
<1>5. TypeOK'
  BY <1>1, <1>4 DEF BlockInv, TypeOK
<1>6. OpKnown'
  BY <1>1, <1>2 DEF BlockInv, OpKnown
<1>7. \A d \in Chains : From(d)'
  BY <1>3 DEF From
<1>8. BlockKnown'
  BY <1>1, <1>3, <1>7 DEF BlockInv, BlockKnown
<1>9. PagesKnown'
  BY <1>3 DEF PagesKnown
<1>10. EntityKnown'
  BY <1>1, <1>3, <1>7 DEF BlockInv, EntityKnown, Found
<1> QED
  BY <1>5, <1>6, <1>8, <1>9, <1>10 DEF BlockInv

\* Nothing happens.
LEMMA StutterKept == ASSUME BlockInv, UNCHANGED vars PROVE BlockInv'
BY DEF BlockInv, vars, TypeOK, OpKnown, BlockKnown, PagesKnown, EntityKnown, From, Found

\* The block or the path comes, or a request fails.
LEMMA BlockAnswerKept ==
    ASSUME BlockInv, NEW request \in BlockRequests, BlockAnswer(request)
    PROVE  BlockInv'
<1> DEFINE answer == IF request = "block" THEN BlockRoot(chain) ELSE MerklePath(chain, op.name, op.leaf)
           all == [r \in DOMAIN read \union {request} |-> IF r = request THEN answer ELSE read[r]]
           met == ValidateInBlock(op.leaf, all["path"], all["block"])
<1>1. op.name \in BlockNames /\ result = "none" /\ chain' = chain /\ changes' = changes /\ op' = op
  BY DEF BlockAnswer, Running, BlockNames
<1>2. \/ /\ request = "path" => Holds(chain, op.name, op.leaf)
         /\ read' = all
         /\ result' = IF DOMAIN all # BlockRequests THEN "none" ELSE IF met THEN "true" ELSE "false"
         /\ failed' = failed
      \/ /\ result' = "false"
         /\ failed' = ~(request = "path" /\ ~Holds(chain, op.name, op.leaf))
         /\ read' = read
  BY DEF BlockAnswer, Caught
<1>3. op.name \notin EntityKinds /\ op.name # "root" /\ op.name # "idle"
  BY <1>1, NamesDiffer DEF BlockNames
<1>4. OpKnown' /\ PagesKnown' /\ EntityKnown'
  BY <1>1, <1>3 DEF BlockInv, OpKnown, PagesKnown, EntityKnown
<1>5. op # Idle
  BY <1>3 DEF Idle
<1>6. TypeOK'
  <2>1. failed' \in BOOLEAN /\ result' \in {"none", "true", "false"}
    BY <1>2 DEF BlockInv, TypeOK
  <2> QED
    BY <1>1, <1>5, <2>1 DEF BlockInv, TypeOK
<1>7. From(chain) /\ \A c \in Chains : From(c) => From(c)'
  BY <1>1 DEF BlockInv, TypeOK, From
<1>8. BlockKnown'
  <2>0. BlockKnown
    BY DEF BlockInv
  <2>1. CASE /\ request = "path" => Holds(chain, op.name, op.leaf)
             /\ read' = all
             /\ result' = IF DOMAIN all # BlockRequests THEN "none" ELSE IF met THEN "true" ELSE "false"
    <3>1. DOMAIN all = DOMAIN read \union {request} /\ all[request] = answer
          /\ \A r \in DOMAIN read : r # request => all[r] = read[r]
      OBVIOUS
    <3>2. DOMAIN all \subseteq BlockRequests
      BY <1>1, <2>0, <3>1 DEF BlockKnown
    <3> HIDE DEF all
    <3>3. ASSUME "block" \in DOMAIN all
          PROVE  \E c \in Chains : From(c)' /\ all["block"] = MerkleRoot(List(c, op.name))
      <4>1. CASE request = "block"
        <5>1. all["block"] = MerkleRoot(List(chain, op.name))
          BY <3>1, <4>1 DEF BlockRoot
        <5> QED
          BY <1>7, <5>1 DEF From
      <4>2. CASE request # "block"
        BY <1>1, <1>7, <2>0, <3>1, <3>3, <4>2 DEF BlockKnown
      <4> QED
        BY <4>1, <4>2
    <3>4. ASSUME "path" \in DOMAIN all
          PROVE  \E c \in Chains : /\ From(c)' /\ Holds(c, op.name, op.leaf)
                                   /\ all["path"] = MerklePath(c, op.name, op.leaf)
      <4>1. CASE request = "path"
        <5>1. all["path"] = MerklePath(chain, op.name, op.leaf) /\ Holds(chain, op.name, op.leaf)
          BY <2>1, <3>1, <4>1
        <5> QED
          BY <1>7, <5>1 DEF From
      <4>2. CASE request # "path"
        BY <1>1, <1>7, <2>0, <3>1, <3>4, <4>2 DEF BlockKnown
      <4> QED
        BY <4>1, <4>2
    <3>5. result' = "true" => DOMAIN all = BlockRequests /\ met
      BY <2>1
    <3>6. result' = "false" => DOMAIN all = BlockRequests /\ ~met
      BY <2>1
    <3> QED
      BY <1>1, <2>1, <3>2, <3>3, <3>4, <3>5, <3>6 DEF BlockKnown
  <2>2. CASE /\ result' = "false"
             /\ failed' = ~(request = "path" /\ ~Holds(chain, op.name, op.leaf))
             /\ read' = read
    <3>1. ~failed' => ~Holds(chain, op.name, op.leaf)
      BY <2>2
    <3> QED
      BY <1>1, <1>7, <2>0, <2>2, <3>1 DEF BlockKnown
  <2> QED
    BY <1>2, <2>1, <2>2
<1> QED
  BY <1>4, <1>6, <1>8 DEF BlockInv

\* A page behind the ones that were read.
LEMMA PagesJoin ==
    ASSUME NEW S, NEW t \in Seq(S), NEW k \in Nat, NEW upTo \in Nat, k <= upTo, upTo <= Len(t)
    PROVE  /\ SubSeq(t, 1, k) \o SubSeq(t, k + 1, upTo) = SubSeq(t, 1, upTo)
           /\ Len(SubSeq(t, 1, upTo)) = upTo
           /\ SubSeq(t, 1, Len(t)) = t
<1> DEFINE a == SubSeq(t, 1, k)
           b == SubSeq(t, k + 1, upTo)
           w == SubSeq(t, 1, upTo)
<1>1. a \in Seq(S) /\ Len(a) = k /\ \A i \in 1..k : a[i] = t[i]
  OBVIOUS
<1>2. b \in Seq(S) /\ Len(b) = upTo - k /\ \A i \in 1..(upTo - k) : b[i] = t[k + i]
  OBVIOUS
<1>3. w \in Seq(S) /\ Len(w) = upTo /\ \A i \in 1..upTo : w[i] = t[i]
  OBVIOUS
<1>4. SubSeq(t, 1, Len(t)) = t
  OBVIOUS
<1> HIDE DEF a, b, w
<1>5. Plain(a) /\ Plain(b) /\ Plain(w)
  BY <1>1, <1>2, <1>3, PlainSeq
<1> DEFINE u == a \o b
<1>6. Plain(u) /\ Len(u) = k + (upTo - k) /\ \A i \in 1..k : u[i] = a[i]
  BY <1>1, <1>2, <1>5, Joined
<1>7. \A i \in 1..(upTo - k) : u[k + i] = b[i]
  <2>1. \A i \in 1..Len(b) : u[Len(a) + i] = b[i]
    BY <1>5, Joined
  <2> QED
    BY <1>1, <1>2, <2>1
<1> HIDE DEF u
<1>8. ASSUME NEW i \in 1..upTo PROVE u[i] = w[i]
  <2>1. CASE i \in 1..k
    BY <1>1, <1>3, <1>6, <2>1
  <2>2. CASE i \notin 1..k
    <3>1. i - k \in 1..(upTo - k) /\ k + (i - k) = i
      BY <2>2
    <3> DEFINE m == i - k
    <3>2. u[k + m] = b[m] /\ b[m] = t[k + m]
      BY <1>2, <1>7, <3>1
    <3> QED
      BY <1>3, <3>1, <3>2
  <2> QED
    BY <2>1, <2>2
<1>9. u = [i \in 1..upTo |-> u[i]] /\ w = [i \in 1..upTo |-> w[i]]
  BY <1>3, <1>5, <1>6, PlainHas
<1>10. a \o b = w
  BY <1>8, <1>9 DEF u
<1> QED
  BY <1>3, <1>4, <1>10 DEF a, b, w

\* Sorted by index, the list is that of the block, in whichever order REST had it.
LEMMA ListIsSorted ==
    ASSUME NEW c \in Chains, NEW order
    PROVE  LET t == Listed(c, order)
           IN  /\ t \in Seq([index : Nat, hash : Transactions]) /\ Len(t) = Len(c.transactions)
               /\ ByIndex(t) = c.transactions
<1> DEFINE h == c.transactions
           n == Len(h)
           up == order = <<"asc">>
           x == [k \in 1..n |-> IF up THEN k ELSE n + 1 - k]
           t == Listed(c, order)
<1>1. h \in Seq(Transactions) /\ n \in Nat /\ \A i \in 1..n : h[i] \in Transactions
  BY ChainsAssumption
<1>2. /\ DOMAIN t = 1..n
      /\ \A k \in 1..n : t[k] = [index |-> x[k], hash |-> h[x[k]]]
  BY DEF Listed
<1>3. \A k \in 1..n : x[k] = IF up THEN k ELSE n + 1 - k
  OBVIOUS
<1>4. t = [k \in 1..n |-> t[k]]
  BY DEF Listed
<1>5. h = [k \in 1..n |-> h[k]]
  BY <1>1
<1> HIDE DEF h, n, up, t, x
<1>6. \A k \in 1..n : x[k] \in 1..n /\ x[k] \in Nat /\ x[x[k]] = k
  BY <1>1, <1>3
<1>7. \A k \in 1..n : t[k].index = x[k] /\ t[k].hash = h[x[k]]
  BY <1>2
<1>8. \A k \in 1..n : t[k] \in [index : Nat, hash : Transactions]
  <2> SUFFICES ASSUME NEW k \in 1..n PROVE t[k] \in [index : Nat, hash : Transactions]
    OBVIOUS
  <2>1. x[k] \in Nat /\ h[x[k]] \in Transactions
    BY <1>1, <1>6
  <2>2. t[k] = [index |-> x[k], hash |-> h[x[k]]]
    BY <1>2
  <2> QED
    BY <2>1, <2>2
<1>9. t \in Seq([index : Nat, hash : Transactions]) /\ Len(t) = n
  <2> DEFINE R == [index : Nat, hash : Transactions]
  <2>1. \A k \in 1..n : t[k] \in R
    BY <1>8
  <2> HIDE DEF R
  <2>2. t \in [1..n -> R]
    BY <1>4, <2>1
  <2>3. t \in Seq(R) /\ Len(t) = n
    BY <1>1, <2>2
  <2> QED
    BY <2>3 DEF R
<1>10. ASSUME NEW p \in 1..n PROVE Rank(t, p) = x[p]
  <2> DEFINE S == {q \in 1..n : x[q] < x[p] \/ (x[q] = x[p] /\ q <= p)}
  <2>1. Rank(t, p) = Cardinality(S)
    <3>1. S = {q \in DOMAIN t : t[q].index < t[p].index \/ (t[q].index = t[p].index /\ q <= p)}
      BY <1>2, <1>7
    <3> QED
      BY <3>1 DEF Rank
  <2>2. CASE up
    <3>1. S = 1..p
      BY <1>1, <1>3, <2>2
    <3>2. Cardinality(1..p) = p
      BY <1>1, FS_Interval
    <3>3. x[p] = p
      BY <1>3, <2>2
    <3> QED
      BY <2>1, <3>1, <3>2, <3>3
  <2>3. CASE ~up
    <3>1. \A q \in 1..n : (x[q] < x[p] \/ (x[q] = x[p] /\ q <= p)) <=> p <= q
      <4> SUFFICES ASSUME NEW q \in 1..n
                   PROVE  (x[q] < x[p] \/ (x[q] = x[p] /\ q <= p)) <=> p <= q
        OBVIOUS
      <4>1. x[q] = n + 1 - q /\ x[p] = n + 1 - p
        BY <1>3, <2>3
      <4> QED
        BY <1>1, <4>1
    <3>2. S = p..n
      BY <1>1, <3>1
    <3>3. Cardinality(p..n) = n + 1 - p
      <4>1. Cardinality(p..n) = n - p + 1
        BY <1>1, FS_Interval
      <4> QED
        BY <1>1, <4>1
    <3>4. x[p] = n + 1 - p
      BY <1>3, <2>3
    <3> QED
      BY <2>1, <3>2, <3>3, <3>4
  <2> QED
    BY <2>2, <2>3
<1>11. ASSUME NEW k \in 1..n
       PROVE  t[CHOOSE p \in 1..n : Rank(t, p) = k].hash = h[k]
  <2> DEFINE p == CHOOSE p \in 1..n : Rank(t, p) = k
  <2>1. \E q \in 1..n : Rank(t, q) = k
    BY <1>6, <1>10
  <2>2. p \in 1..n /\ Rank(t, p) = k
    BY <2>1
  <2> HIDE DEF p
  <2>3. x[p] = k
    BY <1>10, <2>2
  <2>4. t[p].hash = h[k]
    BY <1>7, <2>2, <2>3
  <2> QED
    BY <2>4 DEF p
<1>12. ByIndex(t) = [k \in 1..n |-> h[k]]
  BY <1>2, <1>11 DEF ByIndex
<1> QED
  BY <1>5, <1>9, <1>12 DEF h, n, t

\* A page comes, or its request fails.
LEMMA PageAnswerKept == ASSUME BlockInv, PageAnswer PROVE BlockInv'
<1> DEFINE t == Listed(chain, op.leaf)
           got == IF read = NoAnswers THEN <<>> ELSE read["page"]
           upTo == IF Len(t) < Len(got) + PageSize THEN Len(t) ELSE Len(got) + PageSize
           all == got \o SubSeq(t, Len(got) + 1, upTo)
           last == Len(all) < Len(got) + PageSize
           met == MerkleRoot(ByIndex(all)) = MerkleRoot(chain.transactions)
<1>1. op.name = "root" /\ result = "none" /\ chain' = chain /\ changes' = changes /\ op' = op
  BY DEF PageAnswer, Running
<1>2. \/ /\ read' = [r \in {"page"} |-> all]
         /\ result' = IF ~last THEN "none" ELSE IF met THEN "true" ELSE "false"
         /\ failed' = failed
      \/ result' = "error" /\ failed' = TRUE /\ read' = read
  BY DEF PageAnswer
<1> HIDE DEF all, last, met
<1>3. op.name \notin EntityKinds /\ op.name \notin BlockNames /\ op # Idle
  BY <1>1, NamesDiffer DEF BlockNames, Idle
<1>4. result' \in {"none", "true", "false", "error"} /\ failed' \in BOOLEAN
  BY <1>2 DEF BlockInv, TypeOK
<1>5. TypeOK'
  BY <1>1, <1>3, <1>4 DEF BlockInv, TypeOK
<1>6. OpKnown'
  BY <1>1 DEF BlockInv, OpKnown
<1>7. BlockKnown' /\ EntityKnown'
  BY <1>1, <1>3 DEF BlockKnown, EntityKnown
<1>8. CASE result' = "error" /\ failed' = TRUE /\ read' = read
  <2>1. PagesKnown'
    BY <1>1, <1>8 DEF BlockInv, PagesKnown
  <2> QED
    BY <1>5, <1>6, <1>7, <2>1 DEF BlockInv
<1>9. CASE /\ read' = [r \in {"page"} |-> all]
           /\ result' = IF ~last THEN "none" ELSE IF met THEN "true" ELSE "false"
  <2> SUFFICES ASSUME changes = op.begun
               PROVE  /\ result' # "false" /\ result' # "error"
                      /\ DOMAIN read' = {"page"}
                      /\ \E k \in 0..Len(chain.transactions) : read'["page"] = SubSeq(t, 1, k)
    BY <1>1, <1>5, <1>6, <1>7 DEF PagesKnown, BlockInv
  <2>1. /\ t \in Seq([index : Nat, hash : Transactions]) /\ Len(t) \in Nat
        /\ Len(t) = Len(chain.transactions) /\ ByIndex(t) = chain.transactions
    <3>1. chain \in Chains
      BY DEF BlockInv, TypeOK
    <3>2. /\ t \in Seq([index : Nat, hash : Transactions])
          /\ Len(t) = Len(chain.transactions) /\ ByIndex(t) = chain.transactions
      BY <3>1, ListIsSorted
    <3> QED
      BY <3>2
  <2>2. \E k \in 0..Len(t) : got = SubSeq(t, 1, k) /\ Len(got) = k
    <3> HIDE DEF t
    <3>1. CASE read = NoAnswers
      <4>1. got = SubSeq(t, 1, 0) /\ Len(got) = 0
        BY <2>1, <3>1
      <4> QED
        BY <2>1, <4>1
    <3>2. CASE read # NoAnswers
      <4>1. PICK k \in 0..Len(t) : read["page"] = SubSeq(t, 1, k)
        BY <1>1, <2>1, <3>2 DEF BlockInv, PagesKnown, t
      <4>2. Len(SubSeq(t, 1, k)) = k
        BY <2>1
      <4> QED
        BY <3>2, <4>1, <4>2
    <3> QED
      BY <3>1, <3>2
  <2>3. PICK k \in 0..Len(t) : got = SubSeq(t, 1, k) /\ Len(got) = k
    BY <2>2
  <2> HIDE DEF got, t
  <2>4. upTo \in Nat /\ k <= upTo /\ upTo <= Len(t) /\ (upTo < k + PageSize => upTo = Len(t))
    BY <2>1, <2>3, SizeAssumption
  <2> HIDE DEF upTo
  <2>5. k \in Nat
    BY <2>1
  <2>6. all = SubSeq(t, 1, upTo) /\ Len(SubSeq(t, 1, upTo)) = upTo /\ SubSeq(t, 1, Len(t)) = t
    BY <2>1, <2>3, <2>4, <2>5, PagesJoin DEF all
  <2>7. last => all = t
    BY <2>3, <2>4, <2>6 DEF last
  <2>8. last => met
    BY <2>1, <2>7 DEF met
  <2>9. result' # "false" /\ result' # "error"
    BY <1>9, <2>8
  <2>10. DOMAIN read' = {"page"} /\ read'["page"] = SubSeq(t, 1, upTo)
    BY <1>9, <2>6
  <2>11. upTo \in 0..Len(t)
    BY <2>1, <2>4
  <2> QED
    BY <2>1, <2>9, <2>10, <2>11
<1> QED
  BY <1>2, <1>8, <1>9

(* The requests about an entity: each is the next of its kind.              *)
NextRequest(kind, had) == EntityRequests(kind)[Cardinality(had) + 1]
\* The requests of each kind, in order.
LEMMA RequestIs ==
    ASSUME NEW kind \in EntityKinds
    PROVE  /\ NextRequest(kind, {}) = "info"
           /\ NextRequest(kind, {"info"}) = IF kind = "namespace" THEN "children" ELSE Tree
           /\ kind = "namespace" => NextRequest(kind, {"info", "children"}) = Tree
<1>1. Cardinality({}) = 0 /\ IsFiniteSet({})
  BY FS_EmptySet
<1>2. Cardinality({"info"}) = 1 /\ IsFiniteSet({"info"})
  BY FS_Singleton
<1>3. {"info"} \union {"children"} = {"info", "children"} /\ "children" \notin {"info"}
  OBVIOUS
<1>4. Cardinality({"info", "children"}) = 2
  <2> DEFINE one == {"info"}
  <2> HIDE DEF one
  <2>1. IsFiniteSet(one) /\ Cardinality(one) = 1 /\ "children" \notin one
    BY <1>2, <1>3 DEF one
  <2>2. Cardinality(one \union {"children"}) = 2
    BY <2>1, FS_AddElement
  <2> QED
    BY <1>3, <2>2 DEF one
<1>5. EntityRequests(kind) = IF kind = "namespace" THEN <<"info", "children", Tree>> ELSE <<"info", Tree>>
  BY DEF EntityRequests, EntityKinds, AccountToMultisig, LocksToMetadata
<1> QED
  BY <1>1, <1>2, <1>4, <1>5 DEF NextRequest

\* The next answer about an entity comes, or its request fails.
LEMMA EntityAnswerKept == ASSUME BlockInv, EntityAnswer PROVE BlockInv'
<1> DEFINE kind == op.name
           had == DOMAIN read
           request == NextRequest(kind, had)
           Read(answer) == [r \in had \union {request} |-> IF r = request THEN answer ELSE read[r]]
           Proof(answer) == IF kind = "namespace" /\ read["children"].version = Absent THEN "error"
                            ELSE ToProof(Serialized(kind, read["info"], Found), answer)
<1>1. kind \in EntityKinds /\ result = "none" /\ chain' = chain /\ changes' = changes /\ op' = op
  BY DEF EntityAnswer, Running
<1>2. \/ /\ ~Refused(request, kind)
         /\ \E answer \in Answers(request, kind) :
              /\ read' = Read(answer)
              /\ result' = IF request # Tree THEN "none" ELSE Proof(answer)
         /\ failed' = failed
      \/ /\ result' = "error"
         /\ failed' = ~Refused(request, kind)
         /\ read' = read
  BY DEF EntityAnswer, NextRequest
<1>3. kind \notin BlockNames /\ kind # "root" /\ kind # "idle" /\ op # Idle
  BY <1>1, NamesDiffer DEF BlockNames, Idle
<1>4. OpKnown' /\ PagesKnown' /\ BlockKnown'
  BY <1>1, <1>3 DEF BlockInv, OpKnown, PagesKnown, BlockKnown
<1>5. From(chain) /\ \A c \in Chains : From(c) => From(c)'
  BY <1>1 DEF BlockInv, TypeOK, From
<1>6. /\ had \in Progress(kind)
      /\ "info" \in had => \E c \in Chains : From(c) /\ c.entity # Absent /\ read["info"] = InfoOf(c, kind)
      /\ "children" \in had => \E c \in Chains : From(c) /\ read["children"] \in Children(c)
  BY <1>1 DEF BlockInv, EntityKnown
<1>7. Tree = "tree" /\ Tree # "info" /\ Tree # "children"
  BY DEF Tree
<1>8. \A a, b : ToProof(a, b) \in {"error", "true", "false"}
  BY DEF ToProof
<1>9. Tree \notin had
  <2> SUFFICES ASSUME Tree \in had PROVE FALSE
    OBVIOUS
  <2>1. result = IF kind = "namespace" /\ read["children"].version = Absent THEN "error"
                 ELSE ToProof(Serialized(kind, read["info"], Found), read[Tree])
    BY <1>1 DEF BlockInv, EntityKnown
  <2> QED
    BY <1>1, <1>8, <2>1
<1>10. \/ had = {} /\ request = "info"
       \/ had = {"info"} /\ kind = "namespace" /\ request = "children"
       \/ had = {"info"} /\ kind # "namespace" /\ request = Tree
       \/ had = {"info", "children"} /\ kind = "namespace" /\ request = Tree
  <2> HIDE DEF had
  <2>1. had \in {{}, {"info"}, {"info", "children"}} /\ (had = {"info", "children"} => kind = "namespace")
    <3>1. CASE kind = "namespace"
      <4>1. had \in {{}, {"info"}, {"info", "children"}, {"info", "children", Tree}}
        BY <1>6, <3>1 DEF Progress
      <4> QED
        BY <1>9, <3>1, <4>1
    <3>2. CASE kind # "namespace"
      <4>1. had \in {{}, {"info"}, {"info", Tree}}
        BY <1>6, <3>2 DEF Progress
      <4>2. "children" \in {"info", "children"} /\ "children" \notin {} /\ "children" \notin {"info"}
        OBVIOUS
      <4> QED
        BY <1>9, <4>1, <4>2
    <3> QED
      BY <3>1, <3>2
  <2>2. \A k \in EntityKinds :
          /\ NextRequest(k, {}) = "info"
          /\ NextRequest(k, {"info"}) = IF k = "namespace" THEN "children" ELSE Tree
          /\ k = "namespace" => NextRequest(k, {"info", "children"}) = Tree
    BY RequestIs
  <2> QED
    BY <1>1, <2>1, <2>2
<1> HIDE DEF request, Proof
\* A request that failed, or that the node refuses.
<1>11. CASE /\ result' = "error"
            /\ failed' = ~Refused(request, kind)
            /\ read' = read
  <2>1. TypeOK'
    BY <1>1, <1>3, <1>11 DEF BlockInv, TypeOK
  <2>2. Refused(request, kind) => chain.entity = Absent \/ (kind = "namespace" /\ ~chain.root)
    BY DEF Refused
  <2>3. EntityKnown'
    BY <1>1, <1>5, <1>6, <1>9, <1>11, <2>2 DEF EntityKnown
  <2> QED
    BY <1>4, <2>1, <2>3 DEF BlockInv
<1>12. CASE /\ ~Refused(request, kind)
            /\ \E answer \in Answers(request, kind) :
                 /\ read' = Read(answer)
                 /\ result' = IF request # Tree THEN "none" ELSE Proof(answer)
            /\ failed' = failed
  <2>1. PICK answer \in Answers(request, kind) :
               /\ read' = Read(answer)
               /\ result' = IF request # Tree THEN "none" ELSE Proof(answer)
    BY <1>12
  <2>2. /\ DOMAIN read' = had \union {request}
        /\ read'[request] = answer
        /\ \A r \in had : r # request => read'[r] = read[r]
    BY <2>1
  <2>3. result' \in {"none", "true", "false", "error"}
    BY <1>8, <2>1 DEF Proof
  <2>4. TypeOK'
    BY <1>1, <1>3, <1>12, <2>3 DEF BlockInv, TypeOK
  <2> HIDE DEF had
  <2>5. CASE had = {} /\ request = "info"
    <3>1. answer = InfoOf(chain, kind)
      BY <1>7, <2>5 DEF Answers, InfoOf
    <3>2. chain.entity # Absent
      BY <1>12, <2>5 DEF Refused
    <3>3. DOMAIN read' = {"info"} /\ read'["info"] = InfoOf(chain, kind) /\ result' = "none"
      BY <1>7, <2>1, <2>2, <2>5, <3>1
    <3>4. EntityKnown'
      BY <1>1, <1>5, <1>7, <3>2, <3>3 DEF EntityKnown, Progress, From
    <3> QED
      BY <1>4, <2>4, <3>4 DEF BlockInv
  <2>6. CASE had = {"info"} /\ kind = "namespace" /\ request = "children"
    <3>1. answer \in Children(chain)
      BY <1>7, <2>6 DEF Answers
    <3>2. DOMAIN read' = {"info", "children"} /\ read'["info"] = read["info"]
          /\ read'["children"] \in Children(chain) /\ result' = "none"
      BY <1>7, <2>1, <2>2, <2>6, <3>1
    <3>3. \E c \in Chains : From(c)' /\ c.entity # Absent /\ read'["info"] = InfoOf(c, kind)
      BY <1>5, <1>6, <2>6, <3>2
    <3>4. \E c \in Chains : From(c)' /\ read'["children"] \in Children(c)
      BY <1>5, <3>2 DEF From
    <3>5. EntityKnown'
      BY <1>1, <1>7, <2>6, <3>2, <3>3, <3>4 DEF EntityKnown, Progress
    <3> QED
      BY <1>4, <2>4, <3>5 DEF BlockInv
  <2>7. CASE request = Tree /\ "info" \in had /\ (kind = "namespace" => had = {"info", "children"})
             /\ (kind # "namespace" => had = {"info"})
    <3>1. answer = Given(chain, kind)
      <4>1. PICK given \in BOOLEAN : answer = ToMerkleStateInfo(chain, kind, given)
        BY <1>7, <2>7 DEF Answers
      <4>2. chain \in Chains
        BY <1>5 DEF From
      <4> QED
        BY <4>1, <4>2, TreeGiven
    <3>2. read'["info"] = read["info"] /\ read'[Tree] = Given(chain, kind)
          /\ ("children" \in had => read'["children"] = read["children"])
      BY <1>7, <2>2, <2>7, <3>1
    <3>3. DOMAIN read' \in Progress(kind) /\ "info" \in DOMAIN read' /\ Tree \in DOMAIN read'
          /\ ("children" \in DOMAIN read' => "children" \in had)
      BY <1>7, <2>2, <2>7 DEF Progress
    <3>4. Found' = Found
      BY <1>1, <2>7, <3>2 DEF Found
    <3>5. (kind = "namespace" => read'["children"] = read["children"])
      BY <2>7, <3>2
    <3>6. result' = IF kind = "namespace" /\ read'["children"].version = Absent THEN "error"
                    ELSE ToProof(Serialized(kind, read'["info"], Found'), read'[Tree])
      <4>1. result' = Proof(read'[Tree])
        BY <2>1, <2>2, <2>7
      <4> QED
        BY <3>2, <3>4, <3>5, <4>1 DEF Proof
    <3>7. \E c \in Chains : From(c)' /\ c.entity # Absent /\ read'["info"] = InfoOf(c, kind)
      BY <1>5, <1>6, <2>7, <3>2
    <3>8. "children" \in DOMAIN read' => \E c \in Chains : From(c)' /\ read'["children"] \in Children(c)
      BY <1>5, <1>6, <3>2, <3>3
    <3>9. \E c \in Chains : From(c)' /\ read'[Tree] = Given(c, kind)
      BY <1>5, <3>2 DEF From
    <3>10. EntityKnown'
      BY <1>1, <3>3, <3>6, <3>7, <3>8, <3>9 DEF EntityKnown
    <3> QED
      BY <1>4, <2>4, <3>10 DEF BlockInv
  <2> QED
    BY <1>10, <2>5, <2>6, <2>7
<1> QED
  BY <1>2, <1>11, <1>12

\* Every step keeps the invariant.
LEMMA BlockStep == ASSUME BlockInv, [Next]_vars PROVE BlockInv'
<1>1. ASSUME NEW hash \in Transactions, ValidateTransactionInBlock(hash) PROVE BlockInv'
  BY <1>1, CallsKept DEF ValidateTransactionInBlock, BlockNames
<1>2. ASSUME NEW statement \in Statements, ValidateStatementInBlock(statement) PROVE BlockInv'
  BY <1>2, CallsKept DEF ValidateStatementInBlock, BlockNames
<1>3. ASSUME NEW order \in Orders, CalculateTransactionsMerkleRootHash(order) PROVE BlockInv'
  BY <1>3, CallsKept DEF CalculateTransactionsMerkleRootHash
<1>4. ASSUME NEW kind \in EntityKinds, ProofById(kind) PROVE BlockInv'
  BY <1>4, CallsKept DEF ProofById
<1>5. ASSUME NEW request \in BlockRequests, BlockAnswer(request) PROVE BlockInv'
  BY <1>5, BlockAnswerKept
<1>6. ASSUME PageAnswer PROVE BlockInv'
  BY <1>6, PageAnswerKept
<1>7. ASSUME EntityAnswer PROVE BlockInv'
  BY <1>7, EntityAnswerKept
<1>8. ASSUME NEW c \in Chains, ChainChanges(c) PROVE BlockInv'
  BY <1>8, ChangesKept
<1>9. ASSUME UNCHANGED vars PROVE BlockInv'
  BY <1>9, StutterKept
<1> QED
  BY <1>1, <1>2, <1>3, <1>4, <1>5, <1>6, <1>7, <1>8, <1>9 DEF Next

\* The invariant holds of every behaviour.
LEMMA BlockInvariant == Spec => []BlockInv
<1>1. BlockInv /\ [Next]_vars => BlockInv'
  BY BlockStep
<1> QED
  BY BlockInit, <1>1, PTL DEF Spec

\* The leaves of a block are a sequence.
LEMMA ListIsPlain ==
    ASSUME NEW c \in Chains, NEW what \in BlockNames
    PROVE  Plain(List(c, what))
<1>1. c.transactions \in Seq(Transactions) /\ c.receipts \in Seq(Statements)
  BY ChainsAssumption
<1>2. CASE what = "transactions"
  BY <1>1, <1>2, PlainSeq DEF List
<1>3. CASE what # "transactions"
  <2> DEFINE s == [i \in DOMAIN c.receipts |-> StatementLeaf(c.receipts[i])]
  <2>1. Len(c.receipts) \in Nat /\ DOMAIN c.receipts = 1..Len(c.receipts)
    BY <1>1
  <2>2. s = [i \in 1..Len(c.receipts) |-> s[i]]
    BY <2>1
  <2> HIDE DEF s
  <2>3. Plain(s)
    BY <2>1, <2>2, PlainIs
  <2> QED
    BY <1>3, <2>3 DEF List, s
<1> QED
  BY <1>2, <1>3

\* The node's path of a leaf that a block holds leads to the root of that block.
LEMMA HeldIsProven ==
    ASSUME NEW c \in Chains, NEW what \in BlockNames, NEW leaf, Holds(c, what, leaf)
    PROVE  ValidateInBlock(leaf, MerklePath(c, what, leaf), MerkleRoot(List(c, what)))
<1> DEFINE leaves == List(c, what)
           i == CHOOSE k \in DOMAIN leaves : leaves[k] = leaf
<1>1. i \in DOMAIN leaves /\ leaves[i] = leaf
  BY DEF Holds
<1>2. MerklePath(c, what, leaf) = PathOf(leaves, i)
  BY DEF MerklePath
<1>3. Plain(leaves)
  BY ListIsPlain
<1> HIDE DEF leaves, i
<1>4. DOMAIN leaves = 1..Len(leaves) /\ Len(leaves) \in Nat
  BY <1>3, PlainHas
<1>5. leaves # <<>>
  BY <1>1
<1>6. ValidateInBlock(leaves[i], PathOf(leaves, i), MerkleRoot(leaves))
  BY <1>1, <1>3, <1>4, <1>5, PathProves
<1> QED
  BY <1>1, <1>2, <1>6 DEF leaves

\* A path leads from a leaf to one root.
LEMMA OneRoot ==
    ASSUME NEW leaf, NEW path, NEW r, NEW q, ValidateInBlock(leaf, path, r), ValidateInBlock(leaf, path, q)
    PROVE  r = q
BY DEF ValidateInBlock

\* What the invariant says of a proof that was found valid.
LEMMA BlockWasSo == BlockInv => ProvenWasSo
<1> SUFFICES ASSUME BlockInv, result = "true"
             PROVE  /\ op.name \in BlockNames =>
                         \E c \in Chains : Holds(c, op.name, op.leaf) /\ MerkleRoot(List(c, op.name)) = read["block"]
                    /\ op.name \in EntityKinds =>
                         \E c \in Chains :
                           /\ c.entity # Absent /\ read[Tree].leaf[1].value = LeafOf(c, op.name)
                           /\ IF op.name = "namespace" THEN ToSet(read["children"].paths) = c.children
                              ELSE \A f \in ToSet(Entities[op.name].serialized) : read["info"][f][2] = c.entity
  BY DEF ProvenWasSo, BlockNames
<1>1. ASSUME op.name \in BlockNames
      PROVE  \E c \in Chains : Holds(c, op.name, op.leaf) /\ MerkleRoot(List(c, op.name)) = read["block"]
  <2>1. DOMAIN read = BlockRequests /\ ValidateInBlock(op.leaf, read["path"], read["block"])
    BY <1>1 DEF BlockInv, BlockKnown
  <2>2. PICK c \in Chains : Holds(c, op.name, op.leaf) /\ read["path"] = MerklePath(c, op.name, op.leaf)
    BY <1>1, <2>1 DEF BlockInv, BlockKnown, BlockRequests
  <2>3. ValidateInBlock(op.leaf, read["path"], MerkleRoot(List(c, op.name)))
    BY <1>1, <2>2, HeldIsProven
  <2> QED
    BY <2>1, <2>2, <2>3, OneRoot
<1>2. ASSUME op.name \in EntityKinds
      PROVE  \E c \in Chains :
               /\ c.entity # Absent /\ read[Tree].leaf[1].value = LeafOf(c, op.name)
               /\ IF op.name = "namespace" THEN ToSet(read["children"].paths) = c.children
                  ELSE \A f \in ToSet(Entities[op.name].serialized) : read["info"][f][2] = c.entity
  <2> DEFINE kind == op.name
  <2>1. Tree \in DOMAIN read /\ DOMAIN read \in Progress(kind)
    BY <1>2 DEF BlockInv, EntityKnown
  <2>2. "info" \in DOMAIN read /\ (kind = "namespace" => "children" \in DOMAIN read)
    BY <2>1 DEF Progress, Tree
  <2>3. PICK e \in Chains : read[Tree] = Given(e, kind)
    BY <1>2, <2>1 DEF BlockInv, EntityKnown
  <2>4. "true" = IF kind = "namespace" /\ read["children"].version = Absent THEN "error"
                 ELSE ToProof(Serialized(kind, read["info"], Found), Given(e, kind))
    BY <1>2, <2>1, <2>3 DEF BlockInv, EntityKnown
  <2>5. ToProof(Serialized(kind, read["info"], Found), Given(e, kind)) = "true"
    BY <2>4
  <2>6. Given(e, kind).leaf # <<>> /\ Serialized(kind, read["info"], Found) = Given(e, kind).leaf[1].value
    BY <2>5 DEF ToProof
  <2>7. e.entity # Absent /\ Given(e, kind).leaf[1].value = LeafOf(e, kind)
    BY <2>6, GivenHas
  <2>8. PICK c \in Chains : read["info"] = InfoOf(c, kind)
    BY <1>2, <2>2 DEF BlockInv, EntityKnown
  <2>9. PICK d \in Chains : kind = "namespace" => Found \in Children(d)
    <3>1. CASE kind = "namespace"
      BY <1>2, <2>2, <3>1 DEF BlockInv, EntityKnown, Found
    <3>2. CASE kind # "namespace"
      BY <2>3, <3>2
    <3> QED
      BY <3>1, <3>2
  <2>10. Serialized(kind, InfoOf(c, kind), Found) = LeafOf(e, kind)
    BY <2>6, <2>7, <2>8
  <2>11. IF kind = "namespace" THEN ToSet(Found.paths) = e.children
         ELSE \A f \in ToSet(Entities[kind].serialized) : InfoOf(c, kind)[f][2] = e.entity
    BY <1>2, <2>9, <2>10, LeafTells
  <2>12. kind = "namespace" => Found = read["children"]
    BY DEF Found
  <2>13. read[Tree].leaf[1].value = LeafOf(e, kind)
    BY <2>3, <2>7
  <2>14. IF kind = "namespace" THEN ToSet(read["children"].paths) = e.children
         ELSE \A f \in ToSet(Entities[kind].serialized) : read["info"][f][2] = e.entity
    BY <2>8, <2>11, <2>12
  <2> QED
    BY <2>7, <2>13, <2>14
<1> QED
  BY <1>1, <1>2

\* What it says of one that was not, when the chain stood still.
LEMMA BlockIsProven == BlockInv => UndisturbedIsProven
<1> SUFFICES ASSUME BlockInv, result \in {"false", "error"}, ~failed, changes = op.begun
             PROVE  \/ op.name \in BlockNames /\ ~Holds(chain, op.name, op.leaf)
                    \/ /\ op.name \in EntityKinds
                       /\ (chain.entity = Absent \/ (op.name = "namespace" /\ ~chain.root))
  BY DEF UndisturbedIsProven, BlockNames
<1>1. chain \in Chains /\ \A c \in Chains : From(c) => c = chain
  BY DEF BlockInv, TypeOK, From
<1>2. op.name \in {"root"} \union BlockNames \union EntityKinds
  BY DEF BlockInv, OpKnown
<1>3. op.name # "root"
  BY NamesDiffer DEF BlockInv, TypeOK, PagesKnown
<1>4. ASSUME op.name \in BlockNames PROVE ~Holds(chain, op.name, op.leaf)
  <2>1. result = "false"
    BY <1>4, NamesDiffer DEF BlockInv, TypeOK, BlockNames
  <2> SUFFICES ASSUME DOMAIN read = BlockRequests, ~ValidateInBlock(op.leaf, read["path"], read["block"])
               PROVE  FALSE
    BY <1>4, <2>1 DEF BlockInv, BlockKnown
  <2>2. read["block"] = MerkleRoot(List(chain, op.name))
    BY <1>1, <1>4 DEF BlockInv, BlockKnown, BlockRequests
  <2>3. Holds(chain, op.name, op.leaf) /\ read["path"] = MerklePath(chain, op.name, op.leaf)
    BY <1>1, <1>4 DEF BlockInv, BlockKnown, BlockRequests
  <2> QED
    BY <1>1, <1>4, <2>2, <2>3, HeldIsProven
<1>5. ASSUME op.name \in EntityKinds PROVE chain.entity = Absent \/ (op.name = "namespace" /\ ~chain.root)
  <2> DEFINE kind == op.name
  <2>1. ASSUME Tree \in DOMAIN read PROVE FALSE
    <3>1. "info" \in DOMAIN read /\ (kind = "namespace" => "children" \in DOMAIN read)
      BY <1>5, <2>1 DEF BlockInv, EntityKnown, Progress, Tree
    <3>2. read[Tree] = Given(chain, kind)
      BY <1>1, <1>5, <2>1 DEF BlockInv, EntityKnown
    <3>3. chain.entity # Absent /\ read["info"] = InfoOf(chain, kind)
      BY <1>1, <1>5, <3>1 DEF BlockInv, EntityKnown
    <3>4. kind = "namespace" => read["children"] \in Children(chain) /\ Found = read["children"]
      BY <1>1, <1>5, <3>1 DEF BlockInv, EntityKnown, Found
    <3>5. kind = "namespace" => read["children"].version # Absent
      BY <1>1, <3>3, <3>4, ChildrenAre
    <3>6. Serialized(kind, read["info"], Found) = LeafOf(chain, kind)
      BY <1>1, <1>5, <3>3, <3>4, LeafMet
    <3>7. Given(chain, kind).leaf # <<>> /\ Given(chain, kind).leaf[1].value = LeafOf(chain, kind)
      BY <1>1, <3>3, GivenHas
    <3>8. result = ToProof(Serialized(kind, read["info"], Found), read[Tree])
      BY <1>5, <2>1, <3>5 DEF BlockInv, EntityKnown
    <3> QED
      BY <3>2, <3>6, <3>7, <3>8 DEF ToProof
  <2> QED
    BY <1>5, <2>1 DEF BlockInv, EntityKnown
<1> QED
  BY <1>2, <1>3, <1>4, <1>5

\* And of the root that a proof shows.
LEMMA BlockRootIs == BlockInv => RootIsTheChains
<1> SUFFICES ASSUME BlockInv, op.name \in EntityKinds, result \in {"true", "false"}
             PROVE  \E c \in Chains : StateRoot(c, op.name) = GetRootHash(read[Tree])
  BY DEF RootIsTheChains
<1> DEFINE kind == op.name
<1>1. Tree \in DOMAIN read
  BY DEF BlockInv, EntityKnown
<1>2. PICK c \in Chains : read[Tree] = Given(c, kind)
  BY <1>1 DEF BlockInv, EntityKnown
<1>3. result = IF kind = "namespace" /\ read["children"].version = Absent THEN "error"
               ELSE ToProof(Serialized(kind, read["info"], Found), read[Tree])
  BY <1>1 DEF BlockInv, EntityKnown
<1>4. ~(read[Tree].leaf = <<>> /\ read[Tree].branches = <<>>)
  BY <1>3 DEF ToProof
<1> QED
  BY <1>2, <1>4, GivenHas

\* The state has the types it is declared with: only a call about an entity ends in an
\* error, and nothing is read before a call.
THEOREM BlockTypeCorrect == Spec => []TypeOK
BY BlockInvariant, PTL DEF BlockInv

\* Whatever the chains, and however they change between the requests: what
\* validateTransactionInBlock, validateStatementInBlock or a proof by id finds valid was so of
\* a chain the node had; a transaction or statement was in a block with that root, and the
\* state was that of the leaf, part by part.
THEOREM ProvenWasSoOfAChain == Spec => []ProvenWasSo
BY BlockInvariant, BlockWasSo, PTL

\* And if the chain stands still and no request fails, what is so is found valid: only a leaf
\* that is not in the block, an entity that is not there and a namespace that is no root are
\* not proven, and the pages of a block give its root.
THEOREM UndisturbedProves == Spec => []UndisturbedIsProven
BY BlockInvariant, BlockIsProven, PTL

\* The state root that a proof shows is that of a chain the node had, whether the tree came as
\* JSON or as bytes (toMerkleStateInfo, parseMerkleTreeFromRaw, getRootHash).
THEOREM ProvenRootIsAChains == Spec => []RootIsTheChains
BY BlockInvariant, BlockRootIs, PTL
=============================================================================
