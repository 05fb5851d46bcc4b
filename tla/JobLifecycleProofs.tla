-------------------------- MODULE JobLifecycleProofs ---------------------------
(***************************************************************************)
(* The promise of JobLifecycle is coherent for every set of identifiers:   *)
(* `before` never leaves its type, and it is a strict total order on the   *)
(* waiting jobs and on nobody else.                                        *)
(***************************************************************************)
EXTENDS JobLifecycle, TLAPS

LineInv == LifecycleTypeOK /\ FairLine

(* Nobody is accepted, forgotten or abandoned out of the line: a step that  *)
(* keeps the waiting jobs and the order keeps the line fair.                *)
LEMMA SameLine ==
  ASSUME FairLine, In("waiting")' = In("waiting"), UNCHANGED before
  PROVE  FairLine'
BY DEF FairLine

(* Removing a waiting job from the phase and from the order keeps the line  *)
(* fair for the others.                                                     *)
LEMMA ShorterLine ==
  ASSUME LineInv, NEW id \in JobId,
         In("waiting")' = In("waiting") \ {id}, before' = LeaveLine(id)
  PROVE  FairLine'
<1>1. ASSUME NEW pair \in before'
      PROVE  {pair[1], pair[2]} \subseteq In("waiting")' /\ pair[1] # pair[2]
  BY <1>1 DEF LineInv, FairLine, LeaveLine
<1>2. \A a, b \in In("waiting")' :
        <<a, b>> \in before' <=> <<a, b>> \in before
  BY DEF LeaveLine
<1>. QED
  BY <1>1, <1>2 DEF LineInv, FairLine

LEMMA LifecycleTyped == LifecycleSpec => []LifecycleTypeOK
<1>1. LifecycleInit => LifecycleTypeOK
  BY DEF LifecycleInit, LifecycleTypeOK, Phase
<1>2. LifecycleTypeOK /\ [LifecycleNext]_lifecycleVars => LifecycleTypeOK'
  <2> SUFFICES ASSUME LifecycleTypeOK, [LifecycleNext]_lifecycleVars
               PROVE  LifecycleTypeOK'
    OBVIOUS
  <2>. USE DEF LifecycleTypeOK, Phase
  <2>1. CASE \E id \in JobId, forgotten \in SUBSET In("done") : Accept(id, forgotten)
    BY <2>1 DEF Accept
  <2>2. CASE \E ids \in SUBSET In("done") : Forgotten(ids)
    BY <2>2 DEF Forgotten
  <2>3. CASE \E id \in JobId : Abandon(id)
    BY <2>3 DEF Abandon
  <2>4. CASE \E id \in JobId : Enqueue(id)
    BY <2>4 DEF Enqueue, In
  <2>5. CASE \E id \in JobId : Begin(id)
    BY <2>5 DEF Begin, LeaveLine
  <2>6. CASE \E id \in JobId : End(id)
    BY <2>6 DEF End, LeaveLine
  <2>7. CASE ShutDown
    BY <2>7 DEF ShutDown
  <2>8. CASE UNCHANGED lifecycleVars
    BY <2>8 DEF lifecycleVars
  <2>. QED
    BY <2>1, <2>2, <2>3, <2>4, <2>5, <2>6, <2>7, <2>8 DEF LifecycleNext
<1>. QED
  BY <1>1, <1>2, PTL DEF LifecycleSpec

(* The promise is coherent: at every moment the order of submission decides *)
(* between any two waiting jobs, so "first come, first served" has a        *)
(* meaning, and a job that left the line never comes before another one.    *)
THEOREM LineIsFair == LifecycleSpec => []FairLine
<1>1. LifecycleInit => FairLine
  BY DEF LifecycleInit, FairLine, In
<1>2. LifecycleTypeOK /\ FairLine /\ [LifecycleNext]_lifecycleVars => FairLine'
  <2> SUFFICES ASSUME LifecycleTypeOK, FairLine, [LifecycleNext]_lifecycleVars
               PROVE  FairLine'
    OBVIOUS
  <2>0. LineInv
    BY DEF LineInv
  <2>1. ASSUME NEW id \in JobId, NEW forgotten \in SUBSET In("done"),
               Accept(id, forgotten)
        PROVE  FairLine'
    <3>1. In("waiting")' = In("waiting")
      BY <2>1 DEF Accept, In, LifecycleTypeOK
    <3>. QED
      BY <2>1, <3>1, SameLine DEF Accept
  <2>2. ASSUME NEW ids \in SUBSET In("done"), Forgotten(ids)
        PROVE  FairLine'
    <3>1. In("waiting")' = In("waiting")
      BY <2>2 DEF Forgotten, In, LifecycleTypeOK
    <3>. QED
      BY <2>2, <3>1, SameLine DEF Forgotten
  <2>3. ASSUME NEW id \in JobId, Abandon(id)
        PROVE  FairLine'
    <3>1. In("waiting")' = In("waiting")
      BY <2>3 DEF Abandon, In, LifecycleTypeOK
    <3>. QED
      BY <2>3, <3>1, SameLine DEF Abandon
  <2>4. ASSUME NEW id \in JobId, Enqueue(id)
        PROVE  FairLine'
    <3>1. /\ In("waiting")' = In("waiting") \cup {id}
          /\ id \notin In("waiting")
          /\ before' = before \cup (In("waiting") \X {id})
      BY <2>4 DEF Enqueue, In, LifecycleTypeOK
    <3>2. \A pair \in before' :
            {pair[1], pair[2]} \subseteq In("waiting")' /\ pair[1] # pair[2]
      BY <3>1 DEF FairLine
    <3>3. \A a, b \in JobId :
            <<a, b>> \in before' <=>
              <<a, b>> \in before \/ (a \in In("waiting") /\ b = id)
      BY <3>1
    <3>4. \A a \in JobId : <<a, id>> \notin before /\ <<id, a>> \notin before
      BY <3>1 DEF FairLine
    <3>5. In("waiting")' \subseteq JobId
      BY DEF In
    <3>6. \A a, b \in In("waiting")' :
            a # b => (<<a, b>> \in before' <=> <<b, a>> \notin before')
      BY <3>1, <3>3, <3>4, <3>5 DEF FairLine
    <3>7. \A a, b, c \in In("waiting")' :
            <<a, b>> \in before' /\ <<b, c>> \in before' => <<a, c>> \in before'
      BY <3>1, <3>3, <3>4, <3>5 DEF FairLine
    <3>. QED
      BY <3>2, <3>6, <3>7 DEF FairLine
  <2>5. ASSUME NEW id \in JobId, Begin(id)
        PROVE  FairLine'
    <3>1. In("waiting")' = In("waiting") \ {id}
      BY <2>5 DEF Begin, In, LifecycleTypeOK
    <3>. QED
      BY <2>0, <2>5, <3>1, ShorterLine DEF Begin
  <2>6. ASSUME NEW id \in JobId, End(id)
        PROVE  FairLine'
    <3>1. In("waiting")' = In("waiting") \ {id}
      BY <2>6 DEF End, In, LifecycleTypeOK
    <3>. QED
      BY <2>0, <2>6, <3>1, ShorterLine DEF End
  <2>7. CASE ShutDown
    BY <2>7 DEF ShutDown, FairLine, In
  <2>8. CASE UNCHANGED lifecycleVars
    BY <2>8, SameLine DEF lifecycleVars, In
  <2>. QED
    BY <2>1, <2>2, <2>3, <2>4, <2>5, <2>6, <2>7, <2>8 DEF LifecycleNext
<1>. QED
  BY <1>1, <1>2, LifecycleTyped, PTL DEF LifecycleSpec
================================================================================
