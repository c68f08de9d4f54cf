--------------------------- MODULE LoadingProofs ---------------------------
(***************************************************************************)
(* What Loading promises, for any urls and names.  A package that is       *)
(* loaded as Loading says (MCCompiler: ImplementsLoading) never looks for  *)
(* a module that is not there.                                             *)
(***************************************************************************)
EXTENDS Loading, TLAPS

LoadingInv == TypeOK /\ StartedIsLinked

LEMMA LoadingInit == Init => LoadingInv
  BY DEF Init, LoadingInv, TypeOK, StartedIsLinked, Compiled, Started

LEMMA LoadingStep == LoadingInv /\ [Next]_vars => LoadingInv'
<1> SUFFICES ASSUME LoadingInv, [Next]_vars
             PROVE  LoadingInv'
  OBVIOUS
<1> USE DEF LoadingInv, TypeOK, StartedIsLinked, Compiled, Started, Closed
<1>1. CASE Launch
  BY <1>1 DEF Launch
<1>2. ASSUME NEW u \in Urls, Compile(u)
      PROVE  LoadingInv'
  <2>1. PICK needed \in SUBSET Urls :
          imports' = [w \in Compiled \cup {u} |-> IF w = u THEN needed ELSE imports[w]]
    BY <1>2 DEF Compile
  <2>2. Started = {} /\ published' = published
    BY <1>2 DEF Compile
  <2>. QED BY <2>1, <2>2
<1>3. ASSUME NEW u \in Urls, Begin(u)
      PROVE  LoadingInv'
  <2>1. u \in Compiled
    BY <1>3 DEF Begin
  <2>. QED BY <1>3, <2>1 DEF Begin
<1>4. ASSUME NEW u \in Urls, Publish(u)
      PROVE  LoadingInv'
  BY <1>4 DEF Publish
<1>5. CASE UNCHANGED vars
  BY <1>5 DEF vars
<1>. QED BY <1>1, <1>2, <1>3, <1>4, <1>5 DEF Next

LEMMA LoadingAlways == Spec => []LoadingInv
  BY LoadingInit, LoadingStep, PTL DEF Spec

(* import of modules.wat never looks for a module that was not linked *)
THEOREM NothingIsMissing == Spec => []StartedIsLinked
<1>1. LoadingInv => StartedIsLinked
  BY DEF LoadingInv
<1>. QED BY LoadingAlways, <1>1, PTL
=============================================================================
