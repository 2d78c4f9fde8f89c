-------------------------- MODULE DrainPolicyProofs --------------------------
(***************************************************************************)
(* Proof that the loop transcription of needDrainNode                      *)
(* (generic_plugin.go, lines 228-253) computes the existential             *)
(* needDrainNode of DrainPolicy, for desired and observed lists of any     *)
(* length over any addresses, VF counts and MTUs, VF counts being          *)
(* natural numbers.                                                        *)
(*                                                                         *)
(* InnerScan and needDrainNodeLoop are recursive functions defined in a    *)
(* LET: each is CHOOSE f : f = Body(f).  The argument gives, for each, a   *)
(* closed form that satisfies the equation pointwise (so the CHOOSE has a  *)
(* witness) and shows every solution equal to it by a least counterexample *)
(* (WFMin on the naturals, counting from the end of the list, where the    *)
(* recursion bottoms out).                                                 *)
(***************************************************************************)
EXTENDS MC_DrainPolicy, WellFoundedInduction, TLAPS

\* Least element of a non-empty set of naturals, from the well-foundedness
\* of < on Nat; it replaces an induction whose predicate is a parameter.
LEMMA LeastNat ==
    ASSUME NEW T, T \subseteq Nat, T # {}
    PROVE  \E m \in T : \A n \in T : m <= n
<1>1. PICK m \in T : \A y \in T : ~(<<y, m>> \in OpToRel(<, Nat))
  BY NatLessThanWellFounded, WFMin
<1>2. ASSUME NEW y \in T, y < m PROVE <<y, m>> \in OpToRel(<, Nat)
  BY <1>2 DEF OpToRel
<1>3. \A y \in T : ~(y < m)
  BY <1>1, <1>2, Zenon
<1>4. QED
  BY <1>3

-----------------------------------------------------------------------------
(* The inner loop over desired.                                            *)

\* The body of InnerScan's recursive function scan, with scan as f.
ScanBody(d, s, f) ==
    [j \in 1..(Len(d) + 1) |->
          IF j > Len(d)
            THEN [configured |-> FALSE, drain |-> FALSE]
          ELSE IF d[j].pciAddress # s.pciAddress
            THEN f[j + 1]
          ELSE IF s.numVfs = 0
            THEN [configured |-> TRUE, drain |-> FALSE]
          ELSE IF NeedUpdate(d[j], s)
            THEN [configured |-> TRUE, drain |-> TRUE]
          ELSE [configured |-> TRUE, drain |-> f[j + 1].drain]]

\* f solves scan's recursive equation.
ScanFix(d, s, f) == f = ScanBody(d, s, f)

\* The function scan that InnerScan defines.
ScanFn(d, s) == CHOOSE f : ScanFix(d, s, f)

\* InnerScan is scan[1] (unfolding the LET).
LEMMA InnerScanUnfold ==
    ASSUME NEW d, NEW s
    PROVE  InnerScan(d, s) = ScanFn(d, s)[1]
BY DEF InnerScan, ScanFn, ScanFix, ScanBody

\* The indices of desired, from j on, that carry the observed address.
Matches(d, s, j) == {m \in j..Len(d) : d[m].pciAddress = s.pciAddress}

\* What the scan from index j returns: configured when some later desired
\* interface has the address; drain when, besides, the observed interface
\* has VFs and one of them needs an update.
ScanClosed(d, s) ==
    [j \in 1..(Len(d) + 1) |->
        [configured |-> Matches(d, s, j) # {},
         drain      |-> s.numVfs # 0 /\ \E m \in Matches(d, s, j) : NeedUpdate(d[m], s)]]

\* The closed form satisfies scan's recursive equation.
LEMMA ScanClosedFix ==
    ASSUME NEW D, NEW d \in Seq(D), NEW s
    PROVE  ScanClosed(d, s) = ScanBody(d, s, ScanClosed(d, s))
<1> DEFINE L == Len(d)
           G == ScanClosed(d, s)
<1>1. L \in Nat
  OBVIOUS
<1>2. SUFFICES ASSUME NEW j \in 1..(L + 1) PROVE G[j] = ScanBody(d, s, G)[j]
  BY DEF ScanClosed, ScanBody
<1>3. CASE j > L
  <2>1. Matches(d, s, j) = {}
    BY <1>1, <1>3 DEF Matches
  <2>2. QED
    BY <1>1, <1>3, <2>1 DEF ScanClosed, ScanBody
<1>4. CASE j <= L /\ d[j].pciAddress # s.pciAddress
  <2>1. Matches(d, s, j) = Matches(d, s, j + 1)
    BY <1>1, <1>4 DEF Matches
  <2>2. QED
    BY <1>1, <1>4, <2>1 DEF ScanClosed, ScanBody
<1>5. CASE j <= L /\ d[j].pciAddress = s.pciAddress
  <2> DEFINE NU == \E m \in Matches(d, s, j + 1) : NeedUpdate(d[m], s)
  <2>1. Matches(d, s, j) = {j} \cup Matches(d, s, j + 1)
    BY <1>1, <1>5 DEF Matches
  <2>2. G[j] = [configured |-> TRUE,
                drain |-> s.numVfs # 0 /\ (NeedUpdate(d[j], s) \/ NU)]
    BY <1>1, <2>1 DEF ScanClosed
  <2>3. G[j + 1].drain = (s.numVfs # 0 /\ NU)
    BY <1>1, <1>5 DEF ScanClosed
  <2>4. ScanBody(d, s, G)[j] =
          IF s.numVfs = 0 THEN [configured |-> TRUE, drain |-> FALSE]
          ELSE IF NeedUpdate(d[j], s) THEN [configured |-> TRUE, drain |-> TRUE]
          ELSE [configured |-> TRUE, drain |-> G[j + 1].drain]
    BY <1>1, <1>5 DEF ScanBody
  <2>5. QED
    BY <2>2, <2>3, <2>4
<1>6. QED
  BY <1>1, <1>3, <1>4, <1>5

\* Entry j of the body depends on the function only through entry j + 1.
LEMMA ScanBodyLocal ==
    ASSUME NEW d, Len(d) \in Nat, NEW s, NEW f, NEW g,
           NEW j \in 1..Len(d), f[j + 1] = g[j + 1]
    PROVE  ScanBody(d, s, f)[j] = ScanBody(d, s, g)[j]
<1> DEFINE Br(x) == IF d[j].pciAddress # s.pciAddress THEN x
                    ELSE IF s.numVfs = 0 THEN [configured |-> TRUE, drain |-> FALSE]
                    ELSE IF NeedUpdate(d[j], s) THEN [configured |-> TRUE, drain |-> TRUE]
                    ELSE [configured |-> TRUE, drain |-> x.drain]
<1>1. j \in 1..(Len(d) + 1) /\ ~(j > Len(d))
  OBVIOUS
<1>2. ScanBody(d, s, f)[j] = Br(f[j + 1])
  BY <1>1 DEF ScanBody
<1>3. ScanBody(d, s, g)[j] = Br(g[j + 1])
  BY <1>1 DEF ScanBody
<1>4. QED
  BY <1>2, <1>3

\* Every solution of scan's equation is the closed form.
LEMMA ScanUnique ==
    ASSUME NEW D, NEW d \in Seq(D), NEW s, NEW f, ScanFix(d, s, f)
    PROVE  f = ScanClosed(d, s)
<1> DEFINE L == Len(d)
           G == ScanClosed(d, s)
           Bad == {n \in 0..L : f[L + 1 - n] # G[L + 1 - n]}
<1>1. L \in Nat
  OBVIOUS
<1>2. G = ScanBody(d, s, G)
  BY ScanClosedFix
<1>3. SUFFICES Bad = {}
  <2>1. ASSUME Bad = {}, NEW j \in 1..(L + 1) PROVE f[j] = G[j]
    <3>1. L + 1 - j \in 0..L /\ L + 1 - (L + 1 - j) = j
      BY <1>1
    <3>2. QED
      BY <2>1, <3>1
  <2>2. \A j \in 1..(L + 1) : f[j] = G[j]
    BY <2>1
  <2>3. QED
    BY <1>2, <2>2 DEF ScanFix, ScanBody
<1>4. SUFFICES ASSUME Bad # {} PROVE FALSE
  OBVIOUS
<1>5. PICK n \in Bad : \A k \in Bad : n <= k
  <2>1. Bad \subseteq Nat
    BY <1>1
  <2>2. QED
    BY <1>4, <2>1, LeastNat
<1>6. CASE n = 0
  <2>1. f[L + 1] = [configured |-> FALSE, drain |-> FALSE]
    BY <1>1 DEF ScanFix, ScanBody
  <2>2. G[L + 1] = [configured |-> FALSE, drain |-> FALSE]
    BY <1>1, <1>2 DEF ScanBody
  <2>3. QED
    BY <1>1, <1>5, <1>6, <2>1, <2>2
<1>7. CASE n # 0
  <2> DEFINE jj == L + 1 - n
  <2>1. jj \in 1..L /\ n - 1 \in 0..L /\ L + 1 - (n - 1) = jj + 1
    BY <1>1, <1>7
  <2>2. f[jj + 1] = G[jj + 1]
    BY <1>5, <2>1
  <2>3. ScanBody(d, s, f)[jj] = ScanBody(d, s, G)[jj]
    BY <1>1, <2>1, <2>2, ScanBodyLocal
  <2>4. f[jj] # G[jj]
    BY <1>5
  <2>5. f[jj] = ScanBody(d, s, f)[jj] /\ G[jj] = ScanBody(d, s, G)[jj]
    BY <1>2 DEF ScanFix
  <2>6. QED
    BY <2>3, <2>4, <2>5
<1>8. QED
  BY <1>6, <1>7

\* The inner loop of needDrainNode returns the closed form from index 1.
LEMMA InnerScanClosed ==
    ASSUME NEW D, NEW d \in Seq(D), NEW s
    PROVE  InnerScan(d, s) = ScanClosed(d, s)[1]
<1>1. ScanFix(d, s, ScanFn(d, s))
  BY ScanClosedFix DEF ScanFn, ScanFix
<1>2. ScanFn(d, s) = ScanClosed(d, s)
  BY <1>1, ScanUnique
<1>3. QED
  BY <1>2, InnerScanUnfold
-----------------------------------------------------------------------------
(* The outer loop over current.                                            *)

\* An observed interface on which the outer loop returns true.
Hit(d, s) ==
    \/ InnerScan(d, s).drain
    \/ ~InnerScan(d, s).configured /\ s.numVfs > 0

\* The body of needDrainNodeLoop's recursive function loop, with loop as f.
LoopBody(d, c, f) ==
    [i \in 0..Len(c) |->
          IF i = Len(c) THEN FALSE
          ELSE LET r == InnerScan(d, c[i + 1]) IN
               IF r.drain THEN TRUE
               ELSE IF ~r.configured /\ c[i + 1].numVfs > 0 THEN TRUE
               ELSE f[i + 1]]

\* f solves loop's recursive equation.
LoopFix(d, c, f) == f = LoopBody(d, c, f)

\* The function loop that needDrainNodeLoop defines.
LoopFn(d, c) == CHOOSE f : LoopFix(d, c, f)

\* What the outer loop returns from index i: some later interface is a hit.
LoopClosed(d, c) == [i \in 0..Len(c) |-> \E m \in (i + 1)..Len(c) : Hit(d, c[m])]

\* needDrainNodeLoop is loop[0] (unfolding the LET).
LEMMA LoopUnfold ==
    ASSUME NEW d, NEW c
    PROVE  needDrainNodeLoop(d, c) = LoopFn(d, c)[0]
BY DEF needDrainNodeLoop, LoopFn, LoopFix, LoopBody

\* The closed form satisfies loop's recursive equation.
LEMMA LoopClosedFix ==
    ASSUME NEW d, NEW c, Len(c) \in Nat
    PROVE  LoopClosed(d, c) = LoopBody(d, c, LoopClosed(d, c))
<1> DEFINE L == Len(c)
           G == LoopClosed(d, c)
<1>1. SUFFICES ASSUME NEW i \in 0..L PROVE G[i] = LoopBody(d, c, G)[i]
  BY DEF LoopClosed, LoopBody
<1>2. CASE i = L
  BY <1>2 DEF LoopClosed, LoopBody
<1>3. CASE i # L
  <2>1. (i + 1)..L = {i + 1} \cup (i + 2)..L /\ i + 1 \in 0..L
    BY <1>3
  <2>2. G[i] = (Hit(d, c[i + 1]) \/ G[i + 1])
    <3>1. G[i] = \E m \in (i + 1)..L : Hit(d, c[m])
      BY DEF LoopClosed
    <3>2. G[i + 1] = \E m \in (i + 2)..L : Hit(d, c[m])
      BY <2>1 DEF LoopClosed
    <3>3. QED
      BY <2>1, <3>1, <3>2
  <2>3. LoopBody(d, c, G)[i] = (Hit(d, c[i + 1]) \/ G[i + 1])
    <3> DEFINE r == InnerScan(d, c[i + 1])
    <3>1. LoopBody(d, c, G)[i] =
            IF r.drain THEN TRUE
            ELSE IF ~r.configured /\ c[i + 1].numVfs > 0 THEN TRUE
            ELSE G[i + 1]
      BY <1>3 DEF LoopBody
    <3>2. Hit(d, c[i + 1]) = (r.drain \/ (~r.configured /\ c[i + 1].numVfs > 0))
      BY DEF Hit
    <3>3. G[i + 1] \in BOOLEAN
      BY <2>1 DEF LoopClosed
    <3>4. QED
      BY <3>1, <3>2, <3>3
  <2>4. QED
    BY <2>2, <2>3
<1>4. QED
  BY <1>2, <1>3

\* One iteration of the outer loop on observed interface s: return true on
\* a drain or on an unconfigured interface with VFs, else continue with x.
LoopStep(d, s, x) ==
    IF InnerScan(d, s).drain THEN TRUE
    ELSE IF ~InnerScan(d, s).configured /\ s.numVfs > 0 THEN TRUE
    ELSE x

\* Entry i < Len(c) of the body is one iteration on c[i + 1], continuing
\* with entry i + 1 of the function.
LEMMA LoopBodyAt ==
    ASSUME NEW d, NEW c, Len(c) \in Nat, NEW f, NEW i \in 0..(Len(c) - 1)
    PROVE  LoopBody(d, c, f)[i] = LoopStep(d, c[i + 1], f[i + 1])
BY DEF LoopBody, LoopStep

\* Every solution of loop's equation is the closed form.
LEMMA LoopUnique ==
    ASSUME NEW d, NEW c, Len(c) \in Nat, NEW f, LoopFix(d, c, f)
    PROVE  f = LoopClosed(d, c)
<1> DEFINE L == Len(c)
           G == LoopClosed(d, c)
           Bad == {n \in 0..L : f[L - n] # G[L - n]}
<1>1. G = LoopBody(d, c, G)
  BY LoopClosedFix
<1>2. SUFFICES Bad = {}
  <2>1. ASSUME Bad = {}, NEW i \in 0..L PROVE f[i] = G[i]
    <3>1. L - i \in 0..L /\ L - (L - i) = i
      OBVIOUS
    <3>2. QED
      BY <2>1, <3>1
  <2>2. \A i \in 0..L : f[i] = G[i]
    BY <2>1
  <2>3. QED
    BY <1>1, <2>2 DEF LoopFix, LoopBody
<1>3. SUFFICES ASSUME Bad # {} PROVE FALSE
  OBVIOUS
<1>4. PICK n \in Bad : \A k \in Bad : n <= k
  <2>1. Bad \subseteq Nat
    OBVIOUS
  <2>2. QED
    BY <1>3, <2>1, LeastNat
<1>5. CASE n = 0
  <2>1. f[L] = FALSE
    BY DEF LoopFix, LoopBody
  <2>2. G[L] = FALSE
    BY <1>1 DEF LoopBody
  <2>3. f[L - n] # G[L - n] /\ L - n = L
    BY <1>4, <1>5
  <2>4. QED
    BY <2>1, <2>2, <2>3
<1>6. CASE n # 0
  <2> DEFINE ii == L - n
  <2>1. ii \in 0..(L - 1) /\ n - 1 \in 0..L /\ L - (n - 1) = ii + 1
    BY <1>6
  <2>2. f[ii + 1] = G[ii + 1]
    BY <1>4, <2>1
  <2>3. LoopBody(d, c, f)[ii] = LoopBody(d, c, G)[ii]
    <3>1. ii \in 0..(Len(c) - 1)
      BY <2>1
    <3>2. LoopBody(d, c, f)[ii] = LoopStep(d, c[ii + 1], f[ii + 1])
      BY <3>1, LoopBodyAt
    <3>3. LoopBody(d, c, G)[ii] = LoopStep(d, c[ii + 1], G[ii + 1])
      BY <3>1, LoopBodyAt
    <3>4. QED
      BY <2>2, <3>2, <3>3
  <2>4. f[ii] # G[ii]
    BY <1>4
  <2>5. f[ii] = LoopBody(d, c, f)[ii] /\ G[ii] = LoopBody(d, c, G)[ii]
    BY <1>1 DEF LoopFix
  <2>6. QED
    BY <2>3, <2>4, <2>5
<1>7. QED
  BY <1>5, <1>6

\* The outer loop of needDrainNode returns the closed form from index 0.
LEMMA LoopClosedValue ==
    ASSUME NEW d, NEW c, Len(c) \in Nat
    PROVE  needDrainNodeLoop(d, c) = \E m \in 1..Len(c) : Hit(d, c[m])
<1>1. LoopFix(d, c, LoopFn(d, c))
  BY LoopClosedFix DEF LoopFn, LoopFix
<1>2. LoopFn(d, c) = LoopClosed(d, c)
  BY <1>1, LoopUnique
<1>3. QED
  BY <1>2, LoopUnfold DEF LoopClosed

\* On one observed interface with a natural VF count, the loop's return
\* condition is the one needDrainNode states.
LEMMA HitMatchesSpec ==
    ASSUME NEW D, NEW d \in Seq(D), NEW s, s.numVfs \in Nat
    PROVE  Hit(d, s) <=>
             /\ s.numVfs # 0
             /\ \/ \E j \in 1..Len(d) :
                     /\ d[j].pciAddress = s.pciAddress
                     /\ NeedUpdate(d[j], s)
                \/ ~Configured(d, s)
<1> DEFINE X == InnerScan(d, s)
           NU == \E j \in 1..Len(d) : d[j].pciAddress = s.pciAddress /\ NeedUpdate(d[j], s)
<1>1. Len(d) \in Nat
  OBVIOUS
<1>2. X = ScanClosed(d, s)[1]
  BY InnerScanClosed
<1>3. X = [configured |-> Matches(d, s, 1) # {},
           drain      |-> s.numVfs # 0 /\ \E m \in Matches(d, s, 1) : NeedUpdate(d[m], s)]
  BY <1>1, <1>2 DEF ScanClosed
<1>4. (Matches(d, s, 1) # {}) = Configured(d, s)
  BY DEF Matches, Configured
<1>5. (\E m \in Matches(d, s, 1) : NeedUpdate(d[m], s)) = NU
  BY DEF Matches
<1>6. X.configured = Configured(d, s) /\ X.drain = (s.numVfs # 0 /\ NU)
  BY <1>3, <1>4, <1>5
<1>7. Hit(d, s) <=> (s.numVfs # 0 /\ NU) \/ (~Configured(d, s) /\ s.numVfs > 0)
  BY <1>6, Zenon DEF Hit
<1>8. QED
  BY <1>7

\* The loops of needDrainNode decide a drain exactly when needDrainNode
\* says, for lists of any length, when observed VF counts are natural.
LEMMA LoopMatchesSpec ==
    ASSUME NEW D, NEW d \in Seq(D), NEW C, NEW c \in Seq(C),
           \A m \in 1..Len(c) : c[m].numVfs \in Nat
    PROVE  needDrainNodeLoop(d, c) = needDrainNode(d, c)
<1>1. \A m \in 1..Len(c) : Hit(d, c[m]) <=>
          /\ c[m].numVfs # 0
          /\ \/ \E j \in 1..Len(d) :
                  /\ d[j].pciAddress = c[m].pciAddress
                  /\ NeedUpdate(d[j], c[m])
             \/ ~Configured(d, c[m])
  BY HitMatchesSpec
<1>2. needDrainNodeLoop(d, c) = \E m \in 1..Len(c) : Hit(d, c[m])
  <2>1. Len(c) \in Nat
    OBVIOUS
  <2>2. QED
    BY <2>1, LoopClosedValue
<1>3. needDrainNode(d, c) =
        \E m \in 1..Len(c) :
          /\ c[m].numVfs # 0
          /\ \/ \E j \in 1..Len(d) :
                  /\ d[j].pciAddress = c[m].pciAddress
                  /\ NeedUpdate(d[j], c[m])
             \/ ~Configured(d, c[m])
  BY DEF needDrainNode
<1>4. QED
  BY <1>1, <1>2, <1>3

-----------------------------------------------------------------------------
(* The bounded instance of MC_DrainPolicy, for every value of its          *)
(* constants.                                                              *)

\* The lists the model starts from, and keeps.
ListsInv ==
    /\ desired \in Seq(Iface)
    /\ current \in Seq(Iface)

\* For every set of addresses, MTUs, natural VF counts and list bound, the
\* drain decision of needDrainNode's loops (break on a configured PF with
\* no VFs, return on the first interface needing an update or a reset)
\* always equals the needDrainNode the plugin model relies on.
THEOREM DrainLoopCorrect == Spec => []DrainLoopMatchesSpec
<1>1. Init => ListsInv
  <2>1. IfaceLists \subseteq Seq(Iface)
    BY DEF IfaceLists
  <2>2. QED
    BY <2>1 DEF Init, ListsInv
<1>2. ListsInv /\ [Next]_vars => ListsInv'
  BY DEF ListsInv, Next, vars
<1>3. ListsInv => DrainLoopMatchesSpec
  <2> SUFFICES ASSUME ListsInv PROVE DrainLoopMatchesSpec
    OBVIOUS
  <2>1. \A m \in 1..Len(current) : current[m].numVfs \in Nat
    <3>1. \A m \in 1..Len(current) : current[m] \in Iface
      BY DEF ListsInv
    <3>2. QED
      BY <3>1, VfCountsAssumption DEF Iface
  <2>2. QED
    BY <2>1, LoopMatchesSpec DEF ListsInv, DrainLoopMatchesSpec
<1>4. QED
  BY <1>1, <1>2, <1>3, PTL DEF Spec


====
