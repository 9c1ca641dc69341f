------------------------ MODULE CloudFormationProofs ------------------------
(* What the stacks may rely on for every template: the engine's state is   *)
(* well typed, no resource outlives one it needs, and the order of the     *)
(* needs is kept forward and backward.                                     *)
EXTENDS CloudFormation, TLAPS

(* Going forward, a resource is begun only when those it needs have been   *)
(* dealt with; everything that has been dealt with is ready.               *)
NeedsFirst ==
  op \in Forward =>
    /\ \A r \in working : needs[r] \cap todo = {}
    /\ Resources \subseteq ready \cup todo

(* Going back, nothing is begun on a resource while one exists that needs  *)
(* it: what is done on its deletion comes after all their work.            *)
UsersFirst ==
  op \in Backward => \A r \in Resources \ ready : users[r] \cap Present = {}

(* What the steps need besides: the stack is whole after its creation, and *)
(* nothing is under way when no operation is.                              *)
Whole ==
  /\ op = "none" => Present = {} /\ ~running
  /\ op \in {"update", "rollback"} => Resources \subseteq Present
  /\ running \/ todo = {}
  /\ working \subseteq todo
  /\ op \in Backward => todo \subseteq Present
  /\ op \in {"create", "update"} => failed = {}
  /\ op = "create" => \A r \in ready : needs[r] \cap todo = {}

Inv == EngineTypeOK /\ NeedsFirst /\ UsersFirst /\ Whole /\ Grounded

LEMMA UsersOf ==
  ASSUME EngineTypeOK
  PROVE  /\ \A r \in Resources : needs[r] \subseteq Resources
         /\ \A r \in Resources : users[r] = {q \in Resources : r \in needs[q]}
BY DEF EngineTypeOK, Closed, Users, Resources

LEMMA InitInv == EngineInit => Inv
<1> SUFFICES ASSUME EngineInit PROVE Inv
  OBVIOUS
<1>1. EngineTypeOK
  BY TemplatesClosed DEF EngineInit, EngineTypeOK, Present
<1>2. NeedsFirst /\ UsersFirst /\ Whole /\ Grounded
  BY DEF EngineInit, NeedsFirst, UsersFirst, Whole, Grounded, Present, Forward, Backward
<1> QED
  BY <1>1, <1>2 DEF Inv

LEMMA OperateInv ==
  ASSUME Inv, NEW kind \in {"create", "update", "delete"}, NEW resources \in SUBSET Resources,
         Operate(kind, resources),
         kind = "create" => op = "none" /\ resources = Resources,
         kind = "update" => op \in Forward,
         kind = "delete" => Present # {} /\ resources = Present
  PROVE  Inv'
<1>1. ~running /\ todo = {} /\ working = {} /\ op' = kind /\ todo' = resources /\ running'
  BY DEF Inv, Whole, Operate
<1>2. UNCHANGED <<needs, users, ready, working, failed>>
  BY DEF Operate
<1>3. EngineTypeOK'
  BY <1>1, <1>2 DEF Inv, EngineTypeOK, Present, Resources, Forward, Backward
<1>4. op \in Forward => Resources \subseteq ready /\ failed = {}
  BY <1>1 DEF Inv, NeedsFirst, EngineTypeOK, Present
<1>5. NeedsFirst'
  BY <1>1, <1>2, <1>4 DEF NeedsFirst, Forward, Resources
<1>6. UsersFirst'
  BY <1>1, <1>2, <1>4 DEF Inv, UsersFirst, EngineTypeOK, Whole, Forward, Backward, Present, Resources
<1>7. Whole'
  BY <1>1, <1>2, <1>4 DEF Inv, Whole, Forward, Backward, Present, Resources
<1>8. Grounded'
  BY <1>2 DEF Inv, Grounded, Present
<1> QED
  BY <1>3, <1>5, <1>6, <1>7, <1>8 DEF Inv

LEMMA StartInv ==
  ASSUME Inv, NEW atOnce, Start(atOnce)
  PROVE  Inv'
<1> DEFINE starting == Startable
           done == starting \cap atOnce
<1>1. /\ starting # {} /\ starting \subseteq todo \ working
      /\ op \in Forward => \A r \in starting : needs[r] \cap todo = {}
      /\ op \notin Forward => \A r \in starting : users[r] \cap Present = {}
  BY DEF Start, Startable
<1>2. /\ todo' = todo \ done /\ working' = working \cup (starting \ atOnce)
      /\ ready' = (ready \ starting) \cup (IF op \in Forward THEN done ELSE {})
      /\ failed' = failed \ starting
      /\ UNCHANGED <<needs, users, op, running>>
  BY DEF Start
<1> HIDE DEF starting
<1>3. EngineTypeOK'
  BY <1>1, <1>2 DEF Inv, EngineTypeOK, Present, Resources, Forward, Backward
<1>4. NeedsFirst'
  BY <1>1, <1>2 DEF Inv, NeedsFirst, Resources
<1>5. op \in Forward => Present' = Present \cup starting
  BY <1>1, <1>2 DEF Present
<1>6. op \notin Forward => Present' = Present \ done
  <2> SUFFICES ASSUME op \notin Forward PROVE Present' = Present \ done
    OBVIOUS
  <2>1. op \in Backward
    BY <1>1 DEF Inv, EngineTypeOK, Whole
  <2>2. starting \subseteq ready \cup failed /\ working \cap starting = {}
    BY <1>1, <2>1 DEF Inv, Whole, Present
  <2> QED
    BY <1>2, <2>2 DEF Present
<1>7. UsersFirst'
  <2> SUFFICES ASSUME op \in Backward, NEW r \in Resources, r \notin ready'
               PROVE  users[r] \cap Present' = {}
    BY <1>2 DEF UsersFirst, Resources
  <2>1. op \notin Forward
    BY DEF Forward, Backward
  <2>2. Present' \subseteq Present
    BY <2>1, <1>6
  <2>3. CASE r \in starting
    BY <2>1, <2>2, <2>3, <1>1
  <2>4. CASE r \notin starting
    BY <2>1, <2>2, <2>4, <1>2 DEF Inv, UsersFirst
  <2> QED
    BY <2>3, <2>4
<1>8. Whole'
  <2>2. op = "none" => Present' = {} /\ ~running'
    BY <1>1, <1>2 DEF Inv, Whole
  <2>3. op' \in {"update", "rollback"} => Resources' \subseteq Present'
    BY <1>2, <1>5 DEF Inv, Whole, Forward, Resources
  <2>4. (running' \/ todo' = {}) /\ working' \subseteq todo'
    BY <1>1, <1>2 DEF Inv, Whole
  <2>5. op' \in Backward => todo' \subseteq Present'
    BY <1>2, <1>6 DEF Inv, Whole, Forward, Backward
  <2>6. op' \in {"create", "update"} => failed' = {}
    BY <1>2 DEF Inv, Whole
  <2>7. op' = "create" => \A r \in ready' : needs'[r] \cap todo' = {}
    BY <1>1, <1>2 DEF Inv, Whole, Forward
  <2> QED
    BY <1>1, <1>2, <2>2, <2>3, <2>4, <2>5, <2>6, <2>7 DEF Whole, Inv
<1>9. Grounded'
  <2>1. CASE op \in Forward
    <3> SUFFICES ASSUME NEW r \in Present' PROVE needs[r] \subseteq Present'
      BY <1>2 DEF Grounded
    <3>1. CASE r \in Present
      BY <2>1, <3>1, <1>5 DEF Inv, Grounded
    <3>2. CASE r \in starting
      <4>1. needs[r] \cap todo = {} /\ r \in Resources
        BY <3>2, <1>1, <2>1 DEF Inv, EngineTypeOK
      <4>2. needs[r] \subseteq ready
        BY <4>1, <2>1, UsersOf DEF Inv, NeedsFirst
      <4> QED
        BY <4>2, <1>5, <2>1 DEF Present
    <3> QED
      BY <2>1, <3>1, <3>2, <1>5
  <2>2. CASE op \notin Forward
    <3> SUFFICES ASSUME NEW r \in Present', NEW q \in needs[r], q \in done PROVE FALSE
      BY <2>2, <1>2, <1>6 DEF Inv, Grounded
    <3>1. r \in Present /\ r \in Resources /\ q \in Resources
      BY <2>2, <1>6, <1>1, UsersOf DEF Inv, EngineTypeOK
    <3>2. r \in users[q]
      BY <3>1, UsersOf DEF Inv
    <3> QED
      BY <3>1, <3>2, <2>2, <1>1
  <2> QED
    BY <2>1, <2>2
<1> QED
  BY <1>3, <1>4, <1>7, <1>8, <1>9 DEF Inv

LEMMA SucceedInv ==
  ASSUME Inv, NEW r, Succeed(r)
  PROVE  Inv'
<1>1. /\ r \in working /\ r \in todo /\ r \in Resources /\ r \notin ready
      /\ working' = working \ {r} /\ todo' = todo \ {r}
      /\ ready' = IF op \in Forward THEN ready \cup {r} ELSE ready
      /\ UNCHANGED <<needs, users, op, running, failed>>
  BY DEF Succeed, Inv, Whole, EngineTypeOK, Present
<1>2. EngineTypeOK'
  BY <1>1 DEF Inv, EngineTypeOK, Present, Resources, Forward, Backward
<1>3. NeedsFirst'
  BY <1>1 DEF Inv, NeedsFirst, Resources
<1>4. op \in Forward => Present' = Present
  BY <1>1 DEF Present
<1>5. op \notin Forward => Present' = Present \ {r}
  BY <1>1 DEF Present, Inv, EngineTypeOK
<1>6. UsersFirst'
  BY <1>1, <1>4, <1>5 DEF Inv, UsersFirst, Forward, Backward, Resources
<1>7. Whole'
  <2>1. op \in Backward => op \notin Forward
    BY DEF Forward, Backward
  <2>2. op # "none"
    BY <1>1 DEF Inv, Whole, Present
  <2>3. op = "create" => \A q \in ready' : needs'[q] \cap todo' = {}
    BY <1>1 DEF Inv, Whole, NeedsFirst, Forward
  <2> QED
    BY <1>1, <1>4, <1>5, <2>1, <2>2, <2>3 DEF Inv, Whole, Forward, Resources
<1>8. Grounded'
  <2>1. CASE op \in Forward
    BY <2>1, <1>1, <1>4 DEF Inv, Grounded
  <2>2. CASE op \notin Forward
    <3>1. op \in Backward
      BY <2>2, <1>1 DEF Inv, EngineTypeOK, Whole, Present
    <3>2. users[r] \cap Present = {}
      BY <3>1, <1>1 DEF Inv, UsersFirst
    <3> SUFFICES ASSUME NEW q \in Present', r \in needs[q] PROVE FALSE
      BY <2>2, <1>1, <1>5 DEF Inv, Grounded
    <3>3. q \in Present /\ q \in Resources
      BY <2>2, <1>5 DEF Inv, EngineTypeOK
    <3> QED
      BY <3>2, <3>3, <1>1, UsersOf DEF Inv
  <2> QED
    BY <2>1, <2>2
<1> QED
  BY <1>2, <1>3, <1>6, <1>7, <1>8 DEF Inv

LEMMA FailCreateInv ==
  ASSUME Inv, NEW r, FailCreate(r)
  PROVE  Inv'
<1>1. /\ op = "create" /\ op \in Forward /\ op' = "cleanup" /\ todo' = Present /\ running
      /\ working' = {} /\ failed' = failed \cup working /\ failed = {}
      /\ UNCHANGED <<needs, users, running, ready>>
  BY DEF FailCreate, Inv, Whole, Forward
<1>2. Present' = Present /\ Resources' = Resources
  BY <1>1 DEF Present, Resources
<1>3. EngineTypeOK'
  BY <1>1, <1>2 DEF Inv, EngineTypeOK, Present, Backward
<1>4. NeedsFirst' /\ Whole' /\ Grounded'
  BY <1>1, <1>2 DEF Inv, NeedsFirst, Whole, Grounded, Forward
<1>5. UsersFirst'
  <2> SUFFICES ASSUME NEW q \in Resources, q \notin ready, NEW u \in users[q], u \in Present
               PROVE  FALSE
    BY <1>1, <1>2 DEF UsersFirst
  <2>1. q \in todo
    BY <1>1 DEF Inv, NeedsFirst
  <2>2. q \in needs[u]
    BY UsersOf DEF Inv
  <2> QED
    BY <2>1, <2>2, <1>1 DEF Inv, NeedsFirst, Whole, Present
<1> QED
  BY <1>3, <1>4, <1>5 DEF Inv

LEMMA FailUpdateInv ==
  ASSUME Inv, NEW r, NEW changed, FailUpdate(r, changed)
  PROVE  Inv'
<1>1. /\ op = "update" /\ op \in Forward /\ op' = "rollback" /\ todo' = changed \ (todo \ working)
      /\ todo \subseteq changed /\ changed \subseteq Resources
      /\ running /\ working' = {} /\ failed' = failed \cup working /\ failed = {}
      /\ working \subseteq todo
      /\ UNCHANGED <<needs, users, running, ready>>
  BY DEF FailUpdate, Inv, Whole, Forward
<1>2. Present' = Present /\ Resources' = Resources
  BY <1>1 DEF Present, Resources
<1>3. EngineTypeOK'
  BY <1>1, <1>2 DEF Inv, EngineTypeOK, Present, Forward
<1>4. Resources \subseteq ready' \cup todo'
  BY <1>1 DEF Inv, Whole, Present
<1>5. NeedsFirst' /\ UsersFirst'
  BY <1>1, <1>2, <1>4 DEF NeedsFirst, UsersFirst, Backward
<1>6. Whole' /\ Grounded'
  BY <1>1, <1>2 DEF Inv, Whole, Grounded, Backward
<1> QED
  BY <1>3, <1>5, <1>6 DEF Inv

LEMMA FailDeleteInv ==
  ASSUME Inv, NEW r, FailDelete(r)
  PROVE  Inv'
<1>1. /\ r \in working /\ op \in Backward /\ op \notin Forward
      /\ working' = working \ {r} /\ failed' = failed \cup {r} /\ todo' = todo \ {r}
      /\ UNCHANGED <<needs, users, op, running, ready>>
  BY DEF FailDelete, Forward, Backward
<1>2. Present' = Present /\ Resources' = Resources
  BY <1>1 DEF Present, Resources
<1>3. EngineTypeOK'
  BY <1>1, <1>2 DEF Inv, EngineTypeOK, Present
<1>4. NeedsFirst' /\ UsersFirst' /\ Grounded'
  BY <1>1, <1>2 DEF Inv, NeedsFirst, UsersFirst, Grounded
<1>5. Whole'
  BY <1>1, <1>2 DEF Inv, Whole, Forward, Backward
<1> QED
  BY <1>3, <1>4, <1>5 DEF Inv

LEMMA FinishInv ==
  ASSUME Inv, Finish
  PROVE  Inv'
<1>1. /\ working = {} /\ (op \in Forward => todo = {})
      /\ running /\ running' = FALSE /\ todo' = {}
      /\ UNCHANGED <<needs, users, op, ready, working, failed>>
  BY DEF Finish
<1>2. Present' = Present /\ Resources' = Resources
  BY <1>1 DEF Present, Resources
<1>3. EngineTypeOK' /\ UsersFirst' /\ Grounded'
  BY <1>1, <1>2 DEF Inv, EngineTypeOK, UsersFirst, Grounded
<1>4. NeedsFirst' /\ Whole'
  BY <1>1, <1>2 DEF Inv, NeedsFirst, Whole
<1> QED
  BY <1>3, <1>4 DEF Inv

LEMMA StepInv == Inv /\ [EngineNext]_engine => Inv'
<1> SUFFICES ASSUME Inv, [EngineNext]_engine PROVE Inv'
  OBVIOUS
<1>1. CASE Create
  BY <1>1, OperateInv DEF Create
<1>2. CASE \E changed \in SUBSET Resources : Update(changed)
  BY <1>2, OperateInv DEF Update
<1>3. CASE Delete
  <2>1. Present \in SUBSET Resources
    BY DEF Inv, EngineTypeOK
  <2> QED
    BY <1>3, <2>1, OperateInv DEF Delete
<1>4. CASE \E atOnce \in SUBSET Resources : Start(atOnce)
  BY <1>4, StartInv
<1>5. CASE \E r \in Resources : Succeed(r)
  BY <1>5, SucceedInv
<1>6. CASE \E r \in Resources : FailCreate(r)
  BY <1>6, FailCreateInv
<1>7. CASE \E r \in Resources : \E changed \in SUBSET Resources : FailUpdate(r, changed)
  BY <1>7, FailUpdateInv
<1>8. CASE \E r \in Resources : FailDelete(r)
  BY <1>8, FailDeleteInv
<1>9. CASE Finish
  BY <1>9, FinishInv
<1>10. CASE UNCHANGED engine
  BY <1>10 DEF engine, Inv, EngineTypeOK, NeedsFirst, UsersFirst, Whole, Grounded, Present, Resources
<1> QED
  BY <1>1, <1>2, <1>3, <1>4, <1>5, <1>6, <1>7, <1>8, <1>9, <1>10 DEF EngineNext

THEOREM EngineInv == EngineSpec => []Inv
BY InitInv, StepInv, PTL DEF EngineSpec

(* The engine's state is well typed.                                       *)
THEOREM EngineTyped == EngineSpec => []EngineTypeOK
<1>1. Inv => EngineTypeOK
  BY DEF Inv
<1> QED
  BY <1>1, EngineInv, PTL

(* No resource outlives one it needs, whatever fails and whenever.         *)
THEOREM EngineGrounded == EngineSpec => []Grounded
<1>1. Inv => Grounded
  BY DEF Inv
<1> QED
  BY <1>1, EngineInv, PTL

(* Work begins only after that of the needs going forward, and only when   *)
(* there are no users left going back.                                     *)
THEOREM EngineOrdered == EngineSpec => [](NeedsFirst /\ UsersFirst)
<1>1. Inv => NeedsFirst /\ UsersFirst
  BY DEF Inv
<1> QED
  BY <1>1, EngineInv, PTL
=============================================================================
