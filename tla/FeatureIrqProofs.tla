-------------------------- MODULE FeatureIrqProofs --------------------------
(***************************************************************************)
(* Proofs about FeatureIrq, for any set of eventfds, any number of vectors *)
(* and any number of open files.                                           *)
(***************************************************************************)
EXTENDS FeatureIrq, FiniteSetTheorems, TLAPS

-----------------------------------------------------------------------------
(* The inductive invariant.                                                *)

Steps == {"vector", "put", "request", "store"}

\* The arrays of file descriptors an ioctl may pass.
Arrays == UNION {[1..n -> Fds] : n \in Nat}

Calls == [pc : Steps \cup {"return"}, start : Nat, count : Nat, fds : Arrays,
          j : Nat, undo : BOOLEAN, old : [Vectors -> Fds]]

\* A call in progress works on a vector of a block of the context.
CallInv ==
  call # NoCall =>
    /\ call \in Calls
    /\ call.fds \in [1..call.count -> Fds]
    /\ call.start <= call.j /\ call.j < call.start + call.count
    /\ call.start + call.count <= CtxNum

VarsOK ==
  /\ open_count \in Nat /\ open_count <= MaxOpen
  /\ trigger \in [Vectors -> Fds] /\ action \in [Vectors -> Fds]
  /\ refs \in [EventFds -> Nat]

\* The handler of a vector signals its trigger, except for the vector that is
\* being changed; an undone block takes no new eventfd.
HandlerInv ==
  /\ call = NoCall => action = trigger
  /\ call # NoCall =>
       /\ \A v \in Vectors : v # call.j \/ call.pc \in {"vector", "return"} =>
            action[v] = trigger[v]
       /\ call.pc = "put" => trigger[call.j] # None /\ action[call.j] = None
       /\ call.pc \in {"request", "store"} =>
            ~call.undo /\ trigger[call.j] = None /\ fd # None
       /\ call.pc = "request" => action[call.j] = None
       /\ call.pc = "store" => action[call.j] = fd

\* The vectors that have an eventfd as their trigger.
Users(e) == {v \in Vectors : trigger[v] = e}

\* The vector that is being set holds the eventfd it has taken.
Taken(e) == IF call # NoCall /\ call.pc \in {"request", "store"} /\ fd = e THEN 1 ELSE 0

RefInv == \A e \in EventFds : refs[e] = Cardinality(Users(e)) + Taken(e)

\* How far a block is set: the vectors before j have their new eventfds and
\* those after it their old ones; or it is being undone from the one that
\* failed down to j.
BlockInv ==
  call # NoCall =>
    /\ \A v \in Vectors : v < call.start \/ v >= call.start + call.count =>
         trigger[v] = call.old[v]
    /\ ~call.undo => \A v \in Vectors :
         /\ call.start <= v /\ (v < call.j \/ (v = call.j /\ call.pc = "return")) =>
              trigger[v] = call.fds[v - call.start + 1]
         /\ call.j < v => trigger[v] = call.old[v]
    /\ call.undo => \E failed \in call.j..(call.start + call.count - 1) :
         \A v \in Vectors :
           /\ (call.j < v \/ (v = call.j /\ call.pc = "return")) /\ v <= failed =>
                trigger[v] = None
           /\ failed < v => trigger[v] = call.old[v]
    /\ call.pc = "return" =>
         call.j = IF call.undo THEN call.start ELSE call.start + call.count - 1

\* Without an open file every vector is clear or being cleared.
ClosedInv ==
  open_count = 0 =>
    IF call = NoCall THEN \A v \in Vectors : trigger[v] = None
    ELSE /\ call.start = 0 /\ call.count = CtxNum /\ ~call.undo
         /\ \A i \in 1..call.count : call.fds[i] = None

IndInv == CallInv /\ VarsOK /\ HandlerInv /\ RefInv /\ BlockInv /\ ClosedInv

-----------------------------------------------------------------------------
(* The call record.                                                        *)

\* No call is in progress exactly when its pc says so.
LEMMA InCall ==
  ASSUME CallInv
  PROVE  /\ call = NoCall <=> call.pc = "none"
         /\ call # NoCall => call \in Calls /\ call.pc \in Steps \cup {"return"}
  BY DEF CallInv, NoCall, Calls, Steps

\* The eventfd for the current vector is one of the array, or none.
LEMMA FdType ==
  ASSUME CallInv, call # NoCall
  PROVE  /\ fd \in Fds
         /\ call.j \in Vectors /\ call.start \in Nat /\ call.count \in Nat
         /\ call.j \in Nat /\ call.undo \in BOOLEAN /\ call.old \in [Vectors -> Fds]
         /\ call.j - call.start + 1 \in 1..call.count
  <1>1. /\ call.start \in Nat /\ call.count \in Nat /\ call.j \in Nat
        /\ call.undo \in BOOLEAN /\ call.old \in [Vectors -> Fds]
        /\ call.fds \in [1..call.count -> Fds]
        /\ call.start <= call.j /\ call.j < call.start + call.count
        /\ call.start + call.count <= CtxNum
    BY DEF CallInv, Calls
  <1>2. call.j - call.start + 1 \in 1..call.count /\ call.j \in Vectors
    BY <1>1, IrqAssumption DEF Vectors
  <1> QED BY <1>1, <1>2 DEF fd, Fds

\* Everything but the pc stays.
Kept ==
  /\ call'.start = call.start /\ call'.count = call.count /\ call'.fds = call.fds
  /\ call'.old = call.old

\* Going to another step for the same vector.
LEMMA GotoStep ==
  ASSUME CallInv, call # NoCall, NEW x \in Steps \cup {"return"}, Goto(x)
  PROVE  /\ call' # NoCall /\ CallInv' /\ Kept
         /\ call'.pc = x /\ call'.j = call.j /\ call'.undo = call.undo
         /\ fd' = fd
  <1>1. call \in Calls
    BY DEF CallInv
  <1>2. /\ call' \in Calls /\ call'.pc = x /\ call'.j = call.j /\ call'.undo = call.undo
        /\ Kept
    BY <1>1 DEF Goto, Calls, Kept
  <1>3. call' # NoCall
    BY <1>2 DEF NoCall, Steps
  <1> QED BY <1>2, <1>3 DEF CallInv, Kept, fd

\* A failure turns the call to undoing.
LEMMA UndoStep ==
  ASSUME CallInv, call # NoCall, Undo
  PROVE  /\ call' # NoCall /\ CallInv' /\ Kept
         /\ call'.pc = "vector" /\ call'.j = call.j /\ call'.undo = TRUE
  <1>1. call \in Calls
    BY DEF CallInv
  <1>2. /\ call' \in Calls /\ call'.pc = "vector" /\ call'.j = call.j /\ call'.undo = TRUE
        /\ Kept
    BY <1>1 DEF Undo, Calls, Kept, Steps
  <1>3. call' # NoCall
    BY <1>2 DEF NoCall
  <1> QED BY <1>2, <1>3 DEF CallInv, Kept

\* The loop goes on to the next vector of the block, or ends.
LEMMA NextVectorStep ==
  ASSUME CallInv, call # NoCall, NextVector
  PROVE  /\ call' # NoCall /\ CallInv' /\ Kept /\ call'.undo = call.undo
         /\ \/ /\ call'.pc = "return" /\ call'.j = call.j
               /\ call.j = IF call.undo THEN call.start ELSE call.start + call.count - 1
            \/ /\ call'.pc = "vector"
               /\ call'.j = IF call.undo THEN call.j - 1 ELSE call.j + 1
  <1> DEFINE last == IF call.undo THEN call.start ELSE call.start + call.count - 1
  <1>0. call \in Calls /\ call.undo \in BOOLEAN
    BY DEF CallInv, Calls
  <1>1. CASE call.j = last
    <2>1. Goto("return")
      BY <1>1 DEF NextVector
    <2> QED BY <1>1, <2>1, GotoStep
  <1>2. CASE call.j # last
    <2> DEFINE k == IF call.undo THEN call.j - 1 ELSE call.j + 1
    <2>1. call' = [call EXCEPT !.pc = "vector", !.j = k]
      BY <1>2 DEF NextVector
    <2>2. k \in Nat /\ call.start <= k /\ k < call.start + call.count
      BY <1>2, <1>0, FdType DEF CallInv
    <2> HIDE DEF k
    <2>3. call' \in Calls /\ call'.pc = "vector" /\ call'.j = k /\ call'.undo = call.undo /\ Kept
      BY <1>0, <2>1, <2>2 DEF Calls, Kept, Steps
    <2>4. call' # NoCall
      BY <2>3 DEF NoCall
    <2>5. CallInv'
      BY <2>2, <2>3, <2>4 DEF CallInv, Kept
    <2> QED BY <2>3, <2>4, <2>5 DEF k
  <1> QED BY <1>1, <1>2

-----------------------------------------------------------------------------
(* Counting the vectors of an eventfd.                                     *)

\* Only finitely many vectors have an eventfd.
LEMMA UsersFinite ==
  ASSUME NEW e
  PROVE  IsFiniteSet(Users(e)) /\ Cardinality(Users(e)) \in Nat
  <1>1. IsFiniteSet(Vectors)
    BY IrqAssumption, FS_Interval DEF Vectors
  <1> QED BY <1>1, FS_Subset, FS_CardinalityType DEF Users

\* A vector without an eventfd that gets one adds one user to it.
LEMMA UserAdded ==
  ASSUME VarsOK, NEW j \in Vectors, trigger[j] = None, NEW x \in EventFds,
         trigger' = [trigger EXCEPT ![j] = x], NEW e \in EventFds
  PROVE  Cardinality(Users(e)') = Cardinality(Users(e)) + (IF e = x THEN 1 ELSE 0)
  <1>1. CASE e = x
    <2>1. Users(e)' = Users(e) \cup {j} /\ j \notin Users(e)
      BY <1>1, IrqAssumption DEF Users, VarsOK
    <2>2. Cardinality(Users(e) \cup {j}) = Cardinality(Users(e)) + 1
      BY <2>1, UsersFinite, FS_AddElement
    <2> QED BY <1>1, <2>1, <2>2
  <1>2. CASE e # x
    <2>1. Users(e)' = Users(e)
      BY <1>2, IrqAssumption DEF Users, VarsOK
    <2>2. Cardinality(Users(e)) \in Nat
      BY UsersFinite
    <2> QED BY <1>2, <2>1, <2>2
  <1> QED BY <1>1, <1>2

\* A vector that is cleared takes one user away from its eventfd.
LEMMA UserRemoved ==
  ASSUME VarsOK, NEW j \in Vectors, trigger[j] # None,
         trigger' = [trigger EXCEPT ![j] = None], NEW e \in EventFds
  PROVE  /\ Cardinality(Users(e)') = Cardinality(Users(e)) - (IF e = trigger[j] THEN 1 ELSE 0)
         /\ Cardinality(Users(e)') \in Nat
  <1>1. CASE e = trigger[j]
    <2>1. Users(e)' = Users(e) \ {j} /\ j \in Users(e)
      BY <1>1, IrqAssumption DEF Users, VarsOK
    <2>2. Cardinality(Users(e) \ {j}) = Cardinality(Users(e)) - 1
      BY <2>1, UsersFinite, FS_RemoveElement
    <2>3. IsFiniteSet(Users(e) \ {j})
      BY UsersFinite, FS_Subset
    <2>4. Cardinality(Users(e) \ {j}) \in Nat
      BY <2>3, FS_CardinalityType
    <2> QED BY <1>1, <2>1, <2>2, <2>4
  <1>2. CASE e # trigger[j]
    <2>1. Users(e)' = Users(e)
      BY <1>2, IrqAssumption DEF Users, VarsOK
    <2>2. Cardinality(Users(e)) \in Nat
      BY UsersFinite
    <2> QED BY <1>2, <2>1, <2>2
  <1> QED BY <1>1, <1>2

-----------------------------------------------------------------------------
(* The inductive step, one lemma per action.                               *)

\* A call clears or sets a block from its first vector on.
LEMMA SetBlockStep ==
  ASSUME IndInv, call = NoCall, NEW start \in Nat, NEW count \in Nat, count > 0,
         start + count <= CtxNum, NEW fds \in [1..count -> Fds], SetBlock(start, count, fds),
         UNCHANGED <<trigger, action, refs>>, open_count' \in Nat, open_count' <= MaxOpen,
         open_count' > 0 \/ (start = 0 /\ count = CtxNum /\ \A i \in 1..count : fds[i] = None)
  PROVE  IndInv'
  <1> USE DEF IndInv
  <1>1. /\ call' \in Calls /\ call' # NoCall /\ call'.pc = "vector"
        /\ call'.start = start /\ call'.count = count /\ call'.fds = fds
        /\ call'.j = start /\ call'.undo = FALSE /\ call'.old = trigger
    <2>1. fds \in Arrays
      BY DEF Arrays
    <2> QED BY <2>1 DEF SetBlock, Calls, NoCall, Steps, VarsOK
  <1>2. CallInv' /\ VarsOK'
    BY <1>1 DEF CallInv, VarsOK
  <1>3. HandlerInv'
    BY <1>1 DEF HandlerInv
  <1>4. RefInv'
    <2>1. \A e \in EventFds : Taken(e)' = 0 /\ Taken(e) = 0 /\ Users(e)' = Users(e)
      BY <1>1 DEF Taken, Users
    <2> QED BY <2>1 DEF RefInv
  <1>5. BlockInv'
    BY <1>1, IrqAssumption DEF BlockInv, Vectors
  <1>6. ClosedInv'
    BY <1>1 DEF ClosedInv
  <1> QED BY <1>2, <1>3, <1>4, <1>5, <1>6

\* The ioctl, with the checks on its numbers.
LEMMA SetIrqStep ==
  ASSUME IndInv, NEW start \in 0..(Width - 1), NEW count \in 0..(Width - 1),
         NEW fds \in [1..count -> Fds], SetIrq(start, count, fds)
  PROVE  IndInv'
  <1>1. call = NoCall /\ open_count' > 0 /\ open_count' \in Nat /\ open_count' <= MaxOpen
    BY InCall DEF SetIrq, IndInv, VarsOK
  <1>2. count > 0 /\ start + count <= CtxNum
    <2> DEFINE end == (start + count) % Width
    <2>1. ~(end > CtxNum) /\ ~(end < start) /\ count # 0
      BY DEF SetIrq, block_valid
    <2>2. start + count < Width => end = start + count
      BY IrqAssumption
    <2>3. start + count >= Width => end = start + count - Width
      BY IrqAssumption
    <2> HIDE DEF end
    <2> QED BY <2>1, <2>2, <2>3, IrqAssumption
  <1> QED BY <1>1, <1>2, SetBlockStep DEF SetIrq

\* Opening, and closing a file: the last close clears every vector.
LEMMA OpenStep ==
  ASSUME IndInv, Open \/ Release
  PROVE  IndInv'
  <1>1. call = NoCall /\ open_count' \in Nat /\ open_count' <= MaxOpen
    BY InCall, IrqAssumption DEF Open, Release, IndInv, VarsOK
  <1>2. CASE Release /\ open_count = 1 /\ CtxNum > 0
    <2>1. [i \in 1..CtxNum |-> None] \in [1..CtxNum -> Fds]
      BY DEF Fds
    <2> QED BY <1>1, <1>2, <2>1, SetBlockStep, IrqAssumption DEF Release
  <1>3. CASE ~(Release /\ open_count = 1 /\ CtxNum > 0)
    <2>1. UNCHANGED <<trigger, action, refs, call>> /\ (open_count' > 0 \/ CtxNum = 0)
      BY <1>3, IrqAssumption DEF Open, Release, IndInv, VarsOK
    <2>2. CallInv' /\ VarsOK' /\ HandlerInv' /\ BlockInv'
      BY <1>1, <2>1 DEF IndInv, CallInv, VarsOK, HandlerInv, BlockInv, fd
    <2>3. RefInv'
      BY <2>1 DEF IndInv, RefInv, Users, Taken, fd
    <2>4. ClosedInv'
      BY <1>1, <2>1, IrqAssumption DEF ClosedInv, Vectors, IndInv, VarsOK
    <2> QED BY <2>2, <2>3, <2>4 DEF IndInv
  <1> QED BY <1>2, <1>3

\* What the actions of fpga_set_vector_signal start from.
LEMMA Working ==
  ASSUME IndInv, call.pc # "none"
  PROVE  /\ call # NoCall /\ CallInv /\ call \in Calls /\ call.j \in Vectors
         /\ fd \in Fds /\ call.undo \in BOOLEAN
  BY InCall, FdType DEF IndInv

\* free_irq: the handler is gone before the eventfd is.
LEMMA FreeIrqStep ==
  ASSUME IndInv, FreeIrq
  PROVE  IndInv'
  <1> USE DEF FreeIrq
  <1>1. call # NoCall /\ CallInv /\ call.j \in Vectors
    BY Working
  <1>2. /\ call' # NoCall /\ CallInv' /\ Kept
        /\ call'.pc = "put" /\ call'.j = call.j /\ call'.undo = call.undo
        /\ fd' = fd
    BY <1>1, GotoStep DEF Steps
  <1>3. VarsOK'
    BY DEF IndInv, VarsOK, Fds
  <1>4. HandlerInv'
    BY <1>1, <1>2 DEF IndInv, HandlerInv, VarsOK
  <1>5. RefInv'
    <2>1. \A e \in EventFds : Taken(e)' = 0 /\ Taken(e) = 0 /\ Users(e)' = Users(e)
      BY <1>2 DEF Taken, Users
    <2> QED BY <2>1 DEF IndInv, RefInv
  <1>6. BlockInv'
    BY <1>1, <1>2 DEF IndInv, BlockInv, Kept
  <1>7. ClosedInv'
    BY <1>1, <1>2 DEF IndInv, ClosedInv, Kept
  <1> QED BY <1>2, <1>3, <1>4, <1>5, <1>6, <1>7 DEF IndInv

\* The old eventfd is dropped: nothing signals it any more.
LEMMA PutTriggerStep ==
  ASSUME IndInv, PutTrigger
  PROVE  IndInv'
  <1> USE DEF PutTrigger
  <1>1. call # NoCall /\ CallInv /\ call.j \in Vectors
    BY Working
  <1>2. /\ call' # NoCall /\ CallInv' /\ Kept
        /\ call'.pc = "vector" /\ call'.j = call.j /\ call'.undo = call.undo
        /\ fd' = fd
    BY <1>1, GotoStep DEF Steps
  <1>0. PICK j \in Vectors : j = call.j
    BY <1>1
  <1>3. VarsOK /\ trigger[j] # None /\ trigger[j] \in EventFds /\ action[j] = None
    BY <1>0, <1>1 DEF IndInv, HandlerInv, VarsOK, Fds
  <1>4. \A e \in EventFds :
          /\ Cardinality(Users(e)') = Cardinality(Users(e)) - (IF e = trigger[j] THEN 1 ELSE 0)
          /\ Cardinality(Users(e)') \in Nat
    BY <1>0, <1>3, UserRemoved
  <1>5. RefInv' /\ refs' \in [EventFds -> Nat]
    <2>1. \A e \in EventFds : Taken(e)' = 0 /\ Taken(e) = 0
      BY <1>2 DEF Taken
    <2>2. ASSUME NEW e \in EventFds PROVE refs'[e] = Cardinality(Users(e)') /\ refs'[e] \in Nat
      <3>1. refs[e] = Cardinality(Users(e)) /\ Cardinality(Users(e)) \in Nat
        BY <2>1, UsersFinite DEF IndInv, RefInv
      <3>2. refs'[e] = refs[e] - (IF e = trigger[j] THEN 1 ELSE 0)
        BY <1>0, <1>3, <3>1 DEF VarsOK
      <3> QED BY <1>4, <3>1, <3>2
    <2>3. refs' \in [EventFds -> Nat]
      BY <2>2, <1>3 DEF VarsOK
    <2> QED BY <2>1, <2>2, <2>3 DEF RefInv
  <1>6. VarsOK'
    BY <1>5, <1>0, <1>3 DEF VarsOK, Fds
  <1>7. HandlerInv'
    BY <1>1, <1>2, <1>0, <1>3 DEF IndInv, HandlerInv, VarsOK
  <1>8. BlockInv'
    <2>1. \A v \in Vectors : trigger'[v] = IF v = call.j THEN None ELSE trigger[v]
      BY <1>3 DEF VarsOK
    <2>2. call.start <= call.j /\ call.j < call.start + call.count
          /\ call.j \in Nat /\ call.start \in Nat /\ call.count \in Nat
      BY <1>1, FdType DEF CallInv
    <2>3. \A v \in Vectors : v \in Int
      BY DEF Vectors
    <2> QED BY <1>1, <1>2, <2>1, <2>2, <2>3 DEF IndInv, BlockInv, Kept
  <1>9. ClosedInv'
    BY <1>1, <1>2 DEF IndInv, ClosedInv, Kept
  <1> QED BY <1>2, <1>5, <1>6, <1>7, <1>8, <1>9 DEF IndInv

\* The loop moves on once the current vector has what it should have.
LEMMA AdvanceBlock ==
  ASSUME IndInv, call # NoCall, NextVector,
         \A v \in Vectors : trigger'[v] = IF v = call.j THEN fd ELSE trigger[v]
  PROVE  BlockInv'
  <1>1. /\ call' # NoCall /\ CallInv' /\ Kept /\ call'.undo = call.undo
        /\ \/ /\ call'.pc = "return" /\ call'.j = call.j
              /\ call.j = IF call.undo THEN call.start ELSE call.start + call.count - 1
           \/ /\ call'.pc = "vector"
              /\ call'.j = IF call.undo THEN call.j - 1 ELSE call.j + 1
    BY NextVectorStep DEF IndInv
  <1>2. call.start <= call.j /\ call.j < call.start + call.count
        /\ call.j \in Nat /\ call.start \in Nat /\ call.count \in Nat /\ call.undo \in BOOLEAN
        /\ call'.start <= call'.j
    BY <1>1, FdType DEF CallInv, IndInv
  <1>3. \A v \in Vectors : v \in Int
    BY DEF Vectors
  <1>4. BlockInv
    BY DEF IndInv
  <1>5. \A v \in Vectors : v < call.start \/ v >= call.start + call.count =>
          trigger'[v] = call.old[v]
    BY <1>2, <1>3, <1>4 DEF BlockInv
  <1>6. CASE ~call.undo
    <2>1. fd = call.fds[call.j - call.start + 1]
      BY <1>6 DEF fd
    <2>2. \A v \in Vectors :
            /\ call.start <= v /\ v <= call.j => trigger'[v] = call.fds[v - call.start + 1]
            /\ call.j < v => trigger'[v] = call.old[v]
      BY <1>2, <1>3, <1>4, <1>6, <2>1 DEF BlockInv
    <2> QED BY <1>1, <1>2, <1>3, <1>5, <1>6, <2>2 DEF BlockInv, Kept
  <1>7. CASE call.undo
    <2>1. fd = None
      BY <1>7 DEF fd
    <2>2. PICK failed \in call.j..(call.start + call.count - 1) :
            \A v \in Vectors : /\ call.j < v /\ v <= failed => trigger[v] = None
                               /\ failed < v => trigger[v] = call.old[v]
      BY <1>4, <1>7 DEF BlockInv
    <2>3. \A v \in Vectors : /\ call.j <= v /\ v <= failed => trigger'[v] = None
                             /\ failed < v => trigger'[v] = call.old[v]
      BY <1>2, <1>3, <2>1, <2>2
    <2>4. failed \in call'.j..(call'.start + call'.count - 1)
      BY <1>1, <1>2, <1>7 DEF Kept
    <2>5. \A v \in Vectors :
           /\ (call'.j < v \/ (v = call'.j /\ call'.pc = "return")) /\ v <= failed =>
                trigger'[v] = None
           /\ failed < v => trigger'[v] = call'.old[v]
      BY <1>1, <1>2, <1>3, <1>7, <2>3 DEF Kept
    <2> QED BY <1>1, <1>2, <1>5, <1>7, <2>4, <2>5 DEF BlockInv, Kept
  <1> QED BY <1>2, <1>6, <1>7

\* A vector that gets no eventfd is done.
LEMMA NoEventfdStep ==
  ASSUME IndInv, NoEventfd
  PROVE  IndInv'
  <1> USE DEF NoEventfd
  <1>1. call # NoCall /\ CallInv /\ call.j \in Vectors
    BY Working
  <1>2. /\ call' # NoCall /\ CallInv' /\ Kept /\ call'.undo = call.undo
        /\ call'.pc \in {"return", "vector"}
    BY <1>1, NextVectorStep
  <1>3. VarsOK'
    BY DEF IndInv, VarsOK
  <1>4. HandlerInv'
    BY <1>1, <1>2 DEF IndInv, HandlerInv
  <1>5. RefInv'
    <2>1. \A e \in EventFds : Taken(e)' = 0 /\ Taken(e) = 0 /\ Users(e)' = Users(e)
      BY <1>2 DEF Taken, Users
    <2> QED BY <2>1 DEF IndInv, RefInv
  <1>6. BlockInv'
    BY <1>1, AdvanceBlock
  <1>7. ClosedInv'
    BY <1>1, <1>2 DEF IndInv, ClosedInv, Kept
  <1> QED BY <1>2, <1>3, <1>4, <1>5, <1>6, <1>7 DEF IndInv

\* While no file is open the calls take no eventfd.
LEMMA ClosedTakesNone ==
  ASSUME IndInv, call # NoCall, fd # None
  PROVE  open_count # 0 /\ ~call.undo
  <1>1. call.j - call.start + 1 \in 1..call.count /\ CallInv
    BY FdType DEF IndInv
  <1> QED BY <1>1 DEF IndInv, ClosedInv, fd

\* The new eventfd is taken.
LEMMA GetEventfdStep ==
  ASSUME IndInv, GetEventfd
  PROVE  IndInv'
  <1> USE DEF GetEventfd
  <1>1. call # NoCall /\ CallInv /\ call.j \in Vectors /\ fd \in EventFds
        /\ open_count # 0 /\ ~call.undo
    BY Working, ClosedTakesNone DEF Fds
  <1>2. /\ call' # NoCall /\ CallInv' /\ Kept
        /\ call'.pc = "request" /\ call'.j = call.j /\ call'.undo = call.undo
        /\ fd' = fd
    BY <1>1, GotoStep DEF Steps
  <1>3. VarsOK'
    BY <1>1 DEF IndInv, VarsOK
  <1>4. HandlerInv'
    BY <1>1, <1>2 DEF IndInv, HandlerInv
  <1>5. RefInv'
    <2>1. ASSUME NEW e \in EventFds PROVE refs'[e] = Cardinality(Users(e)') + Taken(e)'
      <3>1. Taken(e) = 0 /\ Taken(e)' = IF fd = e THEN 1 ELSE 0
        BY <1>2 DEF Taken
      <3>2. Users(e)' = Users(e)
        BY DEF Users
      <3>3. refs[e] = Cardinality(Users(e)) /\ Cardinality(Users(e)) \in Nat
        BY <3>1, UsersFinite DEF IndInv, RefInv
      <3>4. refs'[e] = refs[e] + IF fd = e THEN 1 ELSE 0
        BY <1>1, <3>3 DEF IndInv, VarsOK
      <3> QED BY <3>1, <3>2, <3>3, <3>4
    <2> QED BY <2>1 DEF RefInv
  <1>6. BlockInv'
    BY <1>1, <1>2 DEF IndInv, BlockInv, Kept
  <1>7. ClosedInv'
    BY <1>1 DEF ClosedInv
  <1> QED BY <1>2, <1>3, <1>4, <1>5, <1>6, <1>7 DEF IndInv

\* A failure at vector j: those before it keep their new eventfds until the
\* undoing gets to them, j itself has none.
LEMMA UndoBlock ==
  ASSUME IndInv, call # NoCall, Undo, call.pc # "return", ~call.undo, UNCHANGED trigger,
         trigger[call.j] = None
  PROVE  BlockInv'
  <1>1. /\ call' # NoCall /\ CallInv' /\ Kept
        /\ call'.pc = "vector" /\ call'.j = call.j /\ call'.undo = TRUE
    BY UndoStep DEF IndInv
  <1>2. call.start <= call.j /\ call.j < call.start + call.count
        /\ call.j \in Nat /\ call.start \in Nat /\ call.count \in Nat
    BY FdType DEF CallInv, IndInv
  <1>3. \A v \in Vectors : v \in Int
    BY DEF Vectors
  <1>4. call.j \in call.j..(call.start + call.count - 1)
    BY <1>2
  <1>5. \A v \in Vectors : /\ ~(call.j < v /\ v <= call.j)
                           /\ call.j < v => trigger[v] = call.old[v]
    BY <1>2, <1>3 DEF IndInv, BlockInv
  <1> QED BY <1>1, <1>4, <1>5 DEF IndInv, BlockInv, Kept

\* The eventfd could not be taken.
LEMMA GetFailsStep ==
  ASSUME IndInv, GetFails
  PROVE  IndInv'
  <1> USE DEF GetFails
  <1>1. call # NoCall /\ CallInv /\ open_count # 0 /\ ~call.undo
    BY Working, ClosedTakesNone
  <1>2. /\ call' # NoCall /\ CallInv' /\ Kept
        /\ call'.pc = "vector" /\ call'.j = call.j /\ call'.undo = TRUE
    BY <1>1, UndoStep
  <1>3. VarsOK'
    BY DEF IndInv, VarsOK
  <1>4. HandlerInv'
    BY <1>1, <1>2 DEF IndInv, HandlerInv
  <1>5. RefInv'
    <2>1. \A e \in EventFds : Taken(e)' = 0 /\ Taken(e) = 0 /\ Users(e)' = Users(e)
      BY <1>2 DEF Taken, Users
    <2> QED BY <2>1 DEF IndInv, RefInv
  <1>6. BlockInv'
    BY <1>1, UndoBlock
  <1>7. ClosedInv'
    BY <1>1 DEF ClosedInv
  <1> QED BY <1>2, <1>3, <1>4, <1>5, <1>6, <1>7 DEF IndInv

\* request_irq: from here on the handler may signal the new eventfd.
LEMMA RequestIrqStep ==
  ASSUME IndInv, RequestIrq
  PROVE  IndInv'
  <1> USE DEF RequestIrq
  <1>1. /\ call # NoCall /\ CallInv /\ call.j \in Vectors /\ fd \in Fds
        /\ fd # None /\ ~call.undo /\ trigger[call.j] = None
    BY Working DEF IndInv, HandlerInv
  <1>2. /\ call' # NoCall /\ CallInv' /\ Kept
        /\ call'.pc = "store" /\ call'.j = call.j /\ call'.undo = call.undo
        /\ fd' = fd
    BY <1>1, GotoStep DEF Steps
  <1>3. VarsOK'
    BY <1>1 DEF IndInv, VarsOK
  <1>4. HandlerInv'
    BY <1>1, <1>2 DEF IndInv, HandlerInv, VarsOK
  <1>5. RefInv'
    <2>1. \A e \in EventFds : Taken(e)' = Taken(e) /\ Users(e)' = Users(e)
      BY <1>1, <1>2 DEF Taken, Users
    <2> QED BY <2>1 DEF IndInv, RefInv
  <1>6. BlockInv'
    BY <1>1, <1>2 DEF IndInv, BlockInv, Kept
  <1>7. ClosedInv'
    BY <1>1, ClosedTakesNone DEF ClosedInv
  <1> QED BY <1>2, <1>3, <1>4, <1>5, <1>6, <1>7 DEF IndInv

\* request_irq failed: the eventfd it would have signalled is dropped again.
LEMMA RequestFailsStep ==
  ASSUME IndInv, RequestFails
  PROVE  IndInv'
  <1> USE DEF RequestFails
  <1>1. /\ call # NoCall /\ CallInv /\ call.j \in Vectors /\ fd \in EventFds
        /\ fd # None /\ ~call.undo /\ trigger[call.j] = None /\ action[call.j] = None
        /\ open_count # 0
    BY Working, ClosedTakesNone DEF IndInv, HandlerInv, Fds
  <1>2. /\ call' # NoCall /\ CallInv' /\ Kept
        /\ call'.pc = "vector" /\ call'.j = call.j /\ call'.undo = TRUE
    BY <1>1, UndoStep
  <1>3. RefInv' /\ refs' \in [EventFds -> Nat]
    <2>1. ASSUME NEW e \in EventFds
          PROVE  refs'[e] = Cardinality(Users(e)') + Taken(e)' /\ refs'[e] \in Nat
      <3>1. Taken(e)' = 0 /\ Taken(e) = IF fd = e THEN 1 ELSE 0
        BY <1>1, <1>2 DEF Taken
      <3>2. Users(e)' = Users(e)
        BY DEF Users
      <3>3. refs[e] = Cardinality(Users(e)) + Taken(e) /\ Cardinality(Users(e)) \in Nat
        BY UsersFinite DEF IndInv, RefInv
      <3>4. refs'[e] = refs[e] - IF fd = e THEN 1 ELSE 0
        BY <1>1, <3>1, <3>3 DEF IndInv, VarsOK
      <3> QED BY <3>1, <3>2, <3>3, <3>4
    <2>2. refs' \in [EventFds -> Nat]
      BY <2>1 DEF IndInv, VarsOK
    <2> QED BY <2>1, <2>2 DEF RefInv
  <1>4. VarsOK'
    BY <1>3 DEF IndInv, VarsOK
  <1>5. HandlerInv'
    BY <1>1, <1>2 DEF IndInv, HandlerInv
  <1>6. BlockInv'
    BY <1>1, UndoBlock
  <1>7. ClosedInv'
    BY <1>1 DEF ClosedInv
  <1> QED BY <1>2, <1>3, <1>4, <1>5, <1>6, <1>7 DEF IndInv

\* The reference passes to the vector's trigger.
LEMMA StoreTriggerStep ==
  ASSUME IndInv, StoreTrigger
  PROVE  IndInv'
  <1> USE DEF StoreTrigger
  <1>1. /\ call # NoCall /\ CallInv /\ call.j \in Vectors /\ fd \in EventFds
        /\ ~call.undo /\ trigger[call.j] = None /\ action[call.j] = fd
        /\ open_count # 0 /\ VarsOK
    BY Working, ClosedTakesNone DEF IndInv, HandlerInv, Fds
  <1>2. /\ call' # NoCall /\ CallInv' /\ Kept /\ call'.undo = call.undo
        /\ call'.pc \in {"return", "vector"}
    BY <1>1, NextVectorStep
  <1>3. \A v \in Vectors : trigger'[v] = IF v = call.j THEN fd ELSE trigger[v]
    BY <1>1 DEF VarsOK
  <1>4. VarsOK'
    BY <1>1 DEF VarsOK, Fds
  <1>5. HandlerInv'
    BY <1>1, <1>2, <1>3 DEF IndInv, HandlerInv
  <1>6. RefInv'
    <2>0. PICK j \in Vectors, x \in EventFds : j = call.j /\ x = fd
      BY <1>1
    <2>1. ASSUME NEW e \in EventFds PROVE refs'[e] = Cardinality(Users(e)') + Taken(e)'
      <3>1. Taken(e)' = 0 /\ Taken(e) = IF e = x THEN 1 ELSE 0
        BY <1>1, <1>2, <2>0 DEF Taken
      <3>2. Cardinality(Users(e)') = Cardinality(Users(e)) + (IF e = x THEN 1 ELSE 0)
        BY <1>1, <2>0, UserAdded
      <3>3. refs[e] = Cardinality(Users(e)) + Taken(e) /\ Cardinality(Users(e)) \in Nat
        BY UsersFinite DEF IndInv, RefInv
      <3> QED BY <3>1, <3>2, <3>3
    <2> QED BY <2>1 DEF RefInv
  <1>7. BlockInv'
    BY <1>1, <1>3, AdvanceBlock
  <1>8. ClosedInv'
    BY <1>1 DEF ClosedInv
  <1> QED BY <1>2, <1>4, <1>5, <1>6, <1>7, <1>8 DEF IndInv

\* The call returns.
LEMMA ReturnStep ==
  ASSUME IndInv, Return
  PROVE  IndInv'
  <1> USE DEF Return
  <1>1. call # NoCall /\ CallInv /\ call.pc = "return" /\ call' = NoCall
    BY Working
  <1>2. CallInv' /\ VarsOK' /\ BlockInv'
    BY <1>1 DEF IndInv, CallInv, VarsOK, BlockInv
  <1>3. HandlerInv'
    BY <1>1 DEF IndInv, HandlerInv, VarsOK
  <1>4. RefInv'
    <2>1. \A e \in EventFds : Taken(e)' = 0 /\ Taken(e) = 0 /\ Users(e)' = Users(e)
      BY <1>1 DEF Taken, Users
    <2> QED BY <2>1 DEF IndInv, RefInv
  <1>5. ClosedInv'
    <2> SUFFICES ASSUME open_count = 0 PROVE \A v \in Vectors : trigger[v] = None
      BY <1>1 DEF ClosedInv
    <2>1. /\ call.start = 0 /\ call.count = CtxNum /\ ~call.undo
          /\ \A i \in 1..call.count : call.fds[i] = None
      BY <1>1 DEF IndInv, ClosedInv
    <2>2. call.j = CtxNum - 1
      BY <1>1, <2>1, IrqAssumption DEF IndInv, BlockInv
    <2>3. \A v \in Vectors : v + 1 \in 1..CtxNum /\ 0 <= v /\ v <= call.j
      BY <2>2, IrqAssumption DEF Vectors
    <2>4. \A v \in Vectors : trigger[v] = call.fds[v - call.start + 1]
      BY <1>1, <2>1, <2>3, <2>2, IrqAssumption DEF IndInv, BlockInv, Vectors
    <2> QED BY <2>1, <2>3, <2>4, IrqAssumption DEF Vectors
  <1> QED BY <1>2, <1>3, <1>4, <1>5 DEF IndInv

\* Before the first open no vector has an eventfd.
LEMMA InitInv == Init => IndInv
  <1> SUFFICES ASSUME Init PROVE IndInv
    OBVIOUS
  <1>1. CallInv /\ HandlerInv /\ BlockInv /\ ClosedInv
    BY DEF Init, CallInv, HandlerInv, BlockInv, ClosedInv
  <1>2. VarsOK
    BY IrqAssumption DEF Init, VarsOK, Fds
  <1>3. \A e \in EventFds : Users(e) = {} /\ Taken(e) = 0
    BY IrqAssumption DEF Init, Users, Taken
  <1>4. RefInv
    BY <1>3, FS_EmptySet DEF Init, RefInv
  <1> QED BY <1>1, <1>2, <1>4 DEF IndInv

\* Every step preserves the inductive invariant.
LEMMA InductiveStep == IndInv /\ [Next]_vars => IndInv'
  <1> SUFFICES ASSUME IndInv, [Next]_vars PROVE IndInv'
    OBVIOUS
  <1>1. CASE UNCHANGED vars
    <2>1. CallInv' /\ VarsOK' /\ HandlerInv' /\ BlockInv' /\ ClosedInv'
      BY <1>1 DEF vars, IndInv, CallInv, VarsOK, HandlerInv, BlockInv, ClosedInv, fd
    <2>2. RefInv'
      BY <1>1 DEF vars, IndInv, RefInv, Users, Taken, fd
    <2> QED BY <2>1, <2>2 DEF IndInv
  <1>2. CASE Next
    BY <1>2, OpenStep, SetIrqStep, FreeIrqStep, PutTriggerStep, NoEventfdStep,
       GetEventfdStep, GetFailsStep, RequestIrqStep, RequestFailsStep, StoreTriggerStep,
       ReturnStep DEF Next
  <1> QED BY <1>1, <1>2

\* The inductive invariant holds in every reachable state.
LEMMA Inductive == Spec => []IndInv
  BY InitInv, InductiveStep, PTL DEF Spec

-----------------------------------------------------------------------------
(* The theorems.                                                           *)

\* No call ever reaches a vector outside the feature's context, however the
\* numbers of the ioctl wrap, and no eventfd's references go below zero.
THEOREM IrqTypeOK == Spec => []TypeOK
  <1>1. IndInv => TypeOK
    <2> SUFFICES ASSUME IndInv PROVE TypeOK
      OBVIOUS
    <2>1. open_count \in 0..MaxOpen /\ trigger \in [Vectors -> Fds]
          /\ action \in [Vectors -> Fds] /\ refs \in [EventFds -> Nat]
      BY IrqAssumption DEF IndInv, VarsOK
    <2>2. CASE call = NoCall
      BY <2>1, <2>2 DEF TypeOK, NoCall
    <2>3. CASE call # NoCall
      <3>1. call.pc \in Steps \cup {"return"} /\ call.j \in Vectors /\ CallInv
        BY <2>3, InCall, FdType DEF IndInv
      <3> QED BY <2>1, <2>3, <3>1 DEF TypeOK, CallInv, Steps
    <2> QED BY <2>2, <2>3
  <1> QED BY <1>1, Inductive, PTL

\* An interrupt that arrives between any two steps of fpga_set_vector_signal
\* signals an eventfd the driver still holds, and no reference is lost or
\* dropped twice, on the error paths included.
THEOREM IrqEventfdsHeld == Spec => []EventfdsHeld
  <1>1. IndInv => EventfdsHeld
    <2> SUFFICES ASSUME IndInv PROVE EventfdsHeld
      OBVIOUS
    <2>1. \A e \in EventFds :
            refs[e] = Cardinality({v \in Vectors : trigger[v] = e})
                        + (IF call.pc \in {"request", "store"} /\ fd = e THEN 1 ELSE 0)
      BY DEF IndInv, RefInv, Users, Taken, NoCall
    <2>2. call.pc \in {"none", "return"} => action = trigger
      <3>1. call.pc = "none" => call = NoCall
        BY InCall DEF IndInv
      <3>2. call # NoCall /\ call.pc = "return" => action = trigger
        BY DEF IndInv, HandlerInv, VarsOK
      <3> QED BY <3>1, <3>2 DEF IndInv, HandlerInv
    <2>3. ASSUME NEW v \in Vectors, action[v] # None PROVE refs[action[v]] > 0
      <3>1. PICK e \in EventFds : e = action[v]
        BY <2>3 DEF IndInv, VarsOK, Fds
      <3>2. refs[e] = Cardinality(Users(e)) + Taken(e) /\ Cardinality(Users(e)) \in Nat
            /\ Taken(e) \in Nat
        BY UsersFinite DEF IndInv, RefInv, Taken
      <3>3. CASE trigger[v] = e
        <4>1. v \in Users(e)
          BY <3>3 DEF Users
        <4>2. Cardinality(Users(e)) # 0
          BY <4>1, UsersFinite, FS_EmptySet
        <4> QED BY <3>1, <3>2, <4>2
      <3>4. CASE trigger[v] # e
        <4>1. call # NoCall /\ v = call.j /\ call.pc \notin {"vector", "return"}
          BY <3>1, <3>4 DEF IndInv, HandlerInv
        <4>2. call.pc \in {"put", "request", "store"}
          BY <4>1, InCall DEF IndInv, Steps
        <4>3. call.pc = "store" /\ fd = e
          BY <2>3, <3>1, <4>1, <4>2 DEF IndInv, HandlerInv
        <4>4. Taken(e) = 1
          BY <4>1, <4>3 DEF Taken
        <4> QED BY <3>1, <3>2, <4>4
      <3> QED BY <3>3, <3>4
    <2> QED BY <2>1, <2>2, <2>3 DEF EventfdsHeld
  <1> QED BY <1>1, Inductive, PTL

\* fpga_msix_set_block sets the whole block, or leaves no vector with a new
\* eventfd; vectors outside the block are untouched.
THEOREM IrqAllOrNothing == Spec => []AllOrNothing
  <1>1. IndInv => AllOrNothing
    <2> SUFFICES ASSUME IndInv, call.pc = "return" PROVE AllOrNothing
      BY DEF AllOrNothing
    <2> DEFINE block == call.start..(call.start + call.count - 1)
    <2>1. call # NoCall /\ BlockInv /\ CallInv
      BY InCall DEF IndInv
    <2>2. /\ call.j \in Nat /\ call.start \in Nat /\ call.count \in Nat
          /\ call.start + call.count <= CtxNum /\ call.undo \in BOOLEAN
      BY <2>1, FdType DEF CallInv
    <2>3. block \subseteq Vectors
      BY <2>2, IrqAssumption DEF Vectors
    <2>4. \A v \in Vectors \ block : trigger[v] = call.old[v]
      BY <2>1, <2>2, IrqAssumption DEF BlockInv, Vectors
    <2>5. CASE ~call.undo
      <3>1. \A v \in block : trigger[v] = call.fds[v - call.start + 1]
        <4>1. ASSUME NEW v \in block PROVE trigger[v] = call.fds[v - call.start + 1]
          <5>1. v \in Vectors /\ call.start <= v /\ v <= call.j /\ v \in Nat
            BY <2>1, <2>2, <2>3, <2>5, <4>1 DEF BlockInv
          <5> QED BY <2>1, <2>2, <2>5, <5>1 DEF BlockInv
        <4> QED BY <4>1
      <3> QED BY <2>4, <3>1 DEF AllOrNothing
    <2>6. CASE call.undo
      <3>1. call.j = call.start
        BY <2>1, <2>6 DEF BlockInv
      <3>2. PICK failed \in block : \A v \in Vectors :
              /\ (call.j < v \/ v = call.j) /\ v <= failed => trigger[v] = None
              /\ failed < v => trigger[v] = call.old[v]
        BY <2>1, <2>6, <3>1 DEF BlockInv
      <3>3. \A v \in block : trigger[v] = IF v <= failed THEN None ELSE call.old[v]
        <4>1. ASSUME NEW v \in block
              PROVE  trigger[v] = IF v <= failed THEN None ELSE call.old[v]
          <5>1. v \in Vectors /\ (call.j < v \/ v = call.j) /\ v \in Nat /\ failed \in Nat
            BY <2>2, <2>3, <3>1, <4>1
          <5> QED BY <3>2, <5>1
        <4> QED BY <4>1
      <3> QED BY <2>4, <3>3 DEF AllOrNothing
    <2> QED BY <2>2, <2>5, <2>6
  <1> QED BY <1>1, Inductive, PTL

\* After the last close no vector keeps an eventfd of a process that is gone.
THEOREM IrqQuietWhenClosed == Spec => []QuietWhenClosed
  <1>1. IndInv => QuietWhenClosed
    <2> SUFFICES ASSUME IndInv, open_count = 0, call.pc = "none" PROVE QuietWhenClosed
      BY DEF QuietWhenClosed
    <2>1. call = NoCall
      BY InCall DEF IndInv
    <2>2. \A v \in Vectors : trigger[v] = None /\ action[v] = None
      BY <2>1 DEF IndInv, ClosedInv, HandlerInv
    <2>3. \A e \in EventFds : Users(e) = {} /\ Taken(e) = 0
      BY <2>1, <2>2, IrqAssumption DEF Users, Taken
    <2>4. \A e \in EventFds : refs[e] = 0
      BY <2>3, FS_EmptySet DEF IndInv, RefInv
    <2> QED BY <2>2, <2>4 DEF QuietWhenClosed
  <1> QED BY <1>1, Inductive, PTL
=============================================================================
