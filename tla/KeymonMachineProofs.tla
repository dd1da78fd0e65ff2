------------------------ MODULE KeymonMachineProofs -------------------------
(***************************************************************************)
(* Proofs about the modifier-alone machine: the type invariant, that no    *)
(* key is ever stuck, that a candidate is alone, and that a clean tap      *)
(* fires.  The last one rests on CleanTapPending, which says what the      *)
(* machine knows while a tap is still clean.                               *)
(***************************************************************************)
EXTENDS KeymonMachine, TLAPS

\* The machine's sets have the types TypeOK gives them.
THEOREM TypeCorrect == Spec => []TypeOK
<1>1. Init => TypeOK
  BY MachineAssumption DEF Init, TypeOK, Keys, Marks
<1>2. TypeOK /\ [Next]_vars => TypeOK'
  <2> SUFFICES ASSUME TypeOK, [Next]_vars PROVE TypeOK'
    OBVIOUS
  <2> USE MachineAssumption DEF TypeOK, Keys, Marks
  <2>1. ASSUME NEW k \in Modifiers, ModifierDown(k) PROVE TypeOK'
    BY <2>1 DEF ModifierDown, Joined
  <2>2. ASSUME NEW k \in Modifiers, ModifierUp(k) PROVE TypeOK'
    BY <2>2 DEF ModifierUp
  <2>3. ASSUME NEW k \in Ordinary, OrdinaryDown(k) PROVE TypeOK'
    BY <2>3 DEF OrdinaryDown, Joined
  <2>4. ASSUME NEW k \in Ordinary, OrdinaryUp(k) PROVE TypeOK'
    BY <2>4 DEF OrdinaryUp
  <2>5. CASE Ignored
    BY <2>5 DEF Ignored
  <2>6. CASE Scroll
    BY <2>6 DEF Scroll, Joined
  <2>7. ASSUME NEW gone \in SUBSET down, Reset(gone) PROVE TypeOK'
    BY <2>7 DEF Reset, Joined
  <2>8. CASE UNCHANGED vars
    BY <2>8 DEF vars, machineVars
  <2> QED
    BY <2>1, <2>2, <2>3, <2>4, <2>5, <2>6, <2>7, <2>8 DEF Next
<1> QED
  BY <1>1, <1>2, PTL DEF Spec

\* What makes NoStuckKey inductive: a key that is up can be pressed without
\* being taken for one whose press was missed.
KnownKeys == NoStuckKey /\ unseen \subseteq down

\* The machine's picture of the keys is exact in every reachable state.
LEMMA KeysAreKnown == Spec => []KnownKeys
<1>1. Init => KnownKeys
  BY MachineAssumption DEF Init, KnownKeys, NoStuckKey, Keys
<1>2. TypeOK /\ KnownKeys /\ [Next]_vars => KnownKeys'
  <2> SUFFICES ASSUME TypeOK, KnownKeys, [Next]_vars PROVE KnownKeys'
    OBVIOUS
  <2> USE MachineAssumption DEF TypeOK, KnownKeys, NoStuckKey, Keys
  <2>1. ASSUME NEW k \in Modifiers, ModifierDown(k) PROVE KnownKeys'
    BY <2>1 DEF ModifierDown
  <2>2. ASSUME NEW k \in Modifiers, ModifierUp(k) PROVE KnownKeys'
    BY <2>2 DEF ModifierUp
  <2>3. ASSUME NEW k \in Ordinary, OrdinaryDown(k) PROVE KnownKeys'
    BY <2>3 DEF OrdinaryDown
  <2>4. ASSUME NEW k \in Ordinary, OrdinaryUp(k) PROVE KnownKeys'
    BY <2>4 DEF OrdinaryUp
  <2>5. CASE Ignored
    BY <2>5 DEF Ignored
  <2>6. CASE Scroll
    BY <2>6 DEF Scroll
  <2>7. ASSUME NEW gone \in SUBSET down, Reset(gone) PROVE KnownKeys'
    BY <2>7 DEF Reset
  <2>8. CASE UNCHANGED vars
    BY <2>8 DEF vars, machineVars
  <2> QED
    BY <2>1, <2>2, <2>3, <2>4, <2>5, <2>6, <2>7, <2>8 DEF Next
<1> QED
  BY <1>1, <1>2, TypeCorrect, PTL DEF Spec

\* No key is stuck in the machine and none it saw pressed is missing,
\* whatever was held when the daemon started or when a device failed.
THEOREM NoKeyIsStuck == Spec => []NoStuckKey
BY KeysAreKnown, PTL DEF KnownKeys

\* A pending candidate has no other key with it, now or since some modifier
\* was pressed.
THEOREM CandidatesAreAlone == Spec => []CandidateIsAlone
<1>1. Init => CandidateIsAlone
  BY DEF Init, CandidateIsAlone
<1>2. TypeOK /\ CandidateIsAlone /\ [Next]_vars => CandidateIsAlone'
  <2> SUFFICES ASSUME TypeOK, CandidateIsAlone, [Next]_vars, candidate'
               PROVE  /\ held' = {}
                      /\ modifiers' # {}
                      /\ \E m \in Modifiers : company'[m] \subseteq Modifiers
    BY DEF CandidateIsAlone
  <2> USE MachineAssumption DEF TypeOK
  <2>1. ASSUME NEW k \in Modifiers, ModifierDown(k)
        PROVE  /\ held' = {}
               /\ modifiers' # {}
               /\ \E m \in Modifiers : company'[m] \subseteq Modifiers
    <3>1. held' = {} /\ modifiers' # {}
      BY <2>1 DEF ModifierDown, CandidateIsAlone
    <3>2. company'[k] \subseteq Modifiers
      BY <2>1, <3>1 DEF ModifierDown, Joined
    <3> QED
      BY <3>1, <3>2
  <2>2. ASSUME NEW k \in Modifiers, ModifierUp(k)
        PROVE  /\ held' = {}
               /\ modifiers' # {}
               /\ \E m \in Modifiers : company'[m] \subseteq Modifiers
    <3>1. candidate /\ ~(modifiers \subseteq {k})
      BY <2>2 DEF ModifierUp
    <3>2. modifiers' # {} /\ held' = {}
      BY <2>2, <3>1 DEF ModifierUp, CandidateIsAlone
    <3> QED
      BY <2>2, <3>1, <3>2 DEF ModifierUp, CandidateIsAlone
  <2>3. ASSUME NEW k \in Ordinary PROVE ~OrdinaryDown(k)
    BY DEF OrdinaryDown
  <2>4. ASSUME NEW k \in Ordinary, OrdinaryUp(k)
        PROVE  /\ held' = {}
               /\ modifiers' # {}
               /\ \E m \in Modifiers : company'[m] \subseteq Modifiers
    BY <2>4 DEF OrdinaryUp, CandidateIsAlone
  <2>5. CASE Ignored \/ UNCHANGED vars
    BY <2>5 DEF Ignored, vars, machineVars, CandidateIsAlone
  <2>6. ~Scroll
    BY DEF Scroll
  <2>7. ASSUME NEW gone \in SUBSET down PROVE ~Reset(gone)
    BY DEF Reset
  <2> QED
    BY <2>1, <2>2, <2>3, <2>4, <2>5, <2>6, <2>7 DEF Next
<1> QED
  BY <1>1, <1>2, TypeCorrect, PTL DEF Spec

\* While the machine has seen a modifier go down alone and nothing since, it
\* is the only one held and its candidate is pending.
CleanTapPending ==
    \A m \in Modifiers :
        company[m] = {} => m \notin unseen /\ (m \in down => candidate /\ modifiers = {m})

\* Every step keeps CleanTapPending: a press, a wheel event or a failed
\* device leaves its mark on every tap.
LEMMA CleanTapStep ==
    TypeOK /\ KnownKeys /\ CleanTapPending /\ [Next]_vars => CleanTapPending'
<1> SUFFICES ASSUME TypeOK, KnownKeys, CleanTapPending, [Next]_vars,
                    NEW m \in Modifiers, company'[m] = {}
             PROVE  m \notin unseen' /\ (m \in down' => candidate' /\ modifiers' = {m})
  BY DEF CleanTapPending
<1> USE MachineAssumption DEF TypeOK
<1>1. ASSUME NEW k \in Modifiers, ModifierDown(k)
      PROVE  m \notin unseen' /\ (m \in down' => candidate' /\ modifiers' = {m})
  <2>1. m = k
    BY <1>1 DEF ModifierDown, Joined
  <2>2. held = {} /\ modifiers = {}
    BY <1>1, <2>1 DEF ModifierDown, Joined
  <2>3. k \notin unseen
    BY <1>1 DEF ModifierDown, KnownKeys
  <2> QED
    BY <1>1, <2>1, <2>2, <2>3 DEF ModifierDown
<1>2. ASSUME NEW k \in Modifiers, ModifierUp(k)
      PROVE  m \notin unseen' /\ (m \in down' => candidate' /\ modifiers' = {m})
  BY <1>2 DEF ModifierUp, CleanTapPending, KnownKeys, NoStuckKey
<1>3. ASSUME NEW k \in Ordinary PROVE ~OrdinaryDown(k)
  BY DEF OrdinaryDown, Joined
<1>4. ASSUME NEW k \in Ordinary, OrdinaryUp(k)
      PROVE  m \notin unseen' /\ (m \in down' => candidate' /\ modifiers' = {m})
  BY <1>4 DEF OrdinaryUp, CleanTapPending
<1>5. CASE Ignored \/ UNCHANGED vars
  BY <1>5 DEF Ignored, vars, machineVars, CleanTapPending
<1>6. ~Scroll
  BY DEF Scroll, Joined
<1>7. ASSUME NEW gone \in SUBSET down PROVE ~Reset(gone)
  BY DEF Reset, Joined
<1> QED
  BY <1>1, <1>2, <1>3, <1>4, <1>5, <1>6, <1>7 DEF Next

\* A modifier pressed with nothing held and released with nothing in between
\* fires its group.
THEOREM CleanTapsFire == Spec => TapFires
<1>1. Init => CleanTapPending
  BY DEF Init, CleanTapPending
<1>2. TypeOK /\ KnownKeys /\ CleanTapPending /\ [Next]_vars
        => [\A m \in Modifiers : ModifierUp(m) /\ company[m] = {} => fired' = GroupOf[m]]_vars
  BY DEF CleanTapPending, ModifierUp
<1> QED
  BY <1>1, <1>2, CleanTapStep, TypeCorrect, KeysAreKnown, PTL DEF Spec, TapFires
=============================================================================
