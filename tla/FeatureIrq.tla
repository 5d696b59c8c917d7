------------------------------ MODULE FeatureIrq ------------------------------
(***************************************************************************)
(* Interrupts of a sub-feature: eventfds that user space attaches to the   *)
(* MSI-X vectors of a port or of the FME (feature-dev.c, and the SET_IRQ   *)
(* ioctls of afu.c, afu-error.c and fme-error.c).                          *)
(*                                                                         *)
(* fpga_msix_set_block runs under pdata->lock, so one call at a time; but  *)
(* interrupts arrive between any two of its steps, and they signal the     *)
(* eventfd that request_irq was given.  A vector is handled in the order   *)
(* of fpga_set_vector_signal: free_irq, drop the eventfd, take the new     *)
(* eventfd, request_irq, store it.                                         *)
(***************************************************************************)
EXTENDS Naturals, FiniteSets, Sequences

CONSTANTS EventFds,
          None,       \* no eventfd: a negative file descriptor, a null trigger
          CtxNum,     \* feature->ctx_num
          Width,      \* the ioctl's numbers are unsigned and below Width
          MaxOpen     \* bound on the open files

ASSUME IrqAssumption ==
  /\ CtxNum \in Nat /\ Width \in Nat /\ CtxNum < Width
  /\ MaxOpen \in Nat
  /\ None \notin EventFds

VARIABLES
  open_count,  \* pdata->open_count
  trigger,     \* feature->ctx[v].trigger
  action,      \* what the handler of vector v signals: request_irq's dev_id
  refs,        \* references the driver holds on each eventfd
  call         \* the call of fpga_msix_set_block in progress

vars == <<open_count, trigger, action, refs, call>>

Vectors == 0..(CtxNum - 1)
Fds == EventFds \cup {None}

\* "pc" is the next step for vector j; "undo" that the block is being undone;
\* "old" the triggers before the call.
NoCall == [pc |-> "none"]

TypeOK ==
  /\ open_count \in 0..MaxOpen
  /\ trigger \in [Vectors -> Fds] /\ action \in [Vectors -> Fds]
  /\ refs \in [EventFds -> Nat]
  /\ call.pc \in {"none", "vector", "put", "request", "store", "return"}
  /\ call.pc \in {"vector", "put", "request", "store"} =>
       call.j \in Vectors /\ call.start <= call.j
  /\ call.pc # "none" => call.start + call.count <= CtxNum

Init ==
  /\ open_count = 0
  /\ trigger = [v \in Vectors |-> None] /\ action = trigger
  /\ refs = [e \in EventFds |-> 0]
  /\ call = NoCall

-----------------------------------------------------------------------------
\* A new call; fds is a function on 1..count.
SetBlock(start, count, fds) ==
  call' = [pc |-> "vector", start |-> start, count |-> count, fds |-> fds,
           j |-> start, undo |-> FALSE, old |-> trigger]

\* Mutant: the wrap of start + count is not noticed.
block_wrapped(start, count) ==
  LET end == (start + count) % Width IN ~(end > CtxNum \/ count = 0)

\* The checks of port_afu_set_irq on 32-bit numbers, then those of
\* fpga_msix_set_block.
block_valid(start, count) ==
  LET end == (start + count) % Width
  IN  /\ ~(end > CtxNum \/ end < start \/ count = 0)
      /\ ~(start >= CtxNum \/ end > CtxNum)

\* FPGA_PORT_UAFU_SET_IRQ; the error interrupts are the block of one vector.
SetIrq(start, count, fds) ==
  /\ call.pc = "none" /\ open_count > 0
  /\ block_valid(start, count)
  /\ SetBlock(start, count, fds)
  /\ UNCHANGED <<open_count, trigger, action, refs>>

Open ==
  /\ call.pc = "none" /\ open_count < MaxOpen
  /\ open_count' = open_count + 1
  /\ UNCHANGED <<trigger, action, refs, call>>

\* Mutant: the last close leaves the vectors as they are.
ReleaseArmed ==
  /\ call.pc = "none" /\ open_count > 0
  /\ open_count' = open_count - 1
  /\ UNCHANGED <<trigger, action, refs, call>>

\* afu_release and fme_release: the last close clears every vector.
Release ==
  /\ call.pc = "none" /\ open_count > 0
  /\ open_count' = open_count - 1
  /\ IF open_count = 1 /\ CtxNum > 0
     THEN SetBlock(0, CtxNum, [i \in 1..CtxNum |-> None])
     ELSE UNCHANGED call
  /\ UNCHANGED <<trigger, action, refs>>

-----------------------------------------------------------------------------
(* fpga_set_vector_signal for vector j, which must be in the context.      *)

\* The eventfd for vector j: none while the block is being undone.
fd == IF call.undo THEN None ELSE call.fds[call.j - call.start + 1]

Goto(to) == call' = [call EXCEPT !.pc = to]

\* Mutant: the handler stays registered.
FreeIrqForgotten ==
  /\ call.pc = "vector" /\ trigger[call.j] # None
  /\ Goto("put")
  /\ UNCHANGED <<open_count, trigger, action, refs>>

FreeIrq ==
  /\ call.pc = "vector" /\ trigger[call.j] # None
  /\ action' = [action EXCEPT ![call.j] = None]
  /\ Goto("put")
  /\ UNCHANGED <<open_count, trigger, refs>>

PutTrigger ==
  /\ call.pc = "put"
  /\ refs' = [refs EXCEPT ![trigger[call.j]] = @ - 1]
  /\ trigger' = [trigger EXCEPT ![call.j] = None]
  /\ Goto("vector")
  /\ UNCHANGED <<open_count, action>>

\* The loop of fpga_msix_set_block goes on: up to the end of the block, or
\* back to its start.
NextVector ==
  LET last == IF call.undo THEN call.start ELSE call.start + call.count - 1
  IN  IF call.j = last
      THEN Goto("return")
      ELSE call' = [call EXCEPT !.pc = "vector",
                                !.j = IF call.undo THEN @ - 1 ELSE @ + 1]

\* Mutant: the block is not undone.
NotUndone == Goto("return")

\* A vector failed: it and those before it are cleared.
Undo == call' = [call EXCEPT !.pc = "vector", !.undo = TRUE]

NoEventfd ==
  /\ call.pc = "vector" /\ trigger[call.j] = None /\ fd = None
  /\ NextVector
  /\ UNCHANGED <<open_count, trigger, action, refs>>

GetEventfd ==
  /\ call.pc = "vector" /\ trigger[call.j] = None /\ fd # None
  /\ refs' = [refs EXCEPT ![fd] = @ + 1]
  /\ Goto("request")
  /\ UNCHANGED <<open_count, trigger, action>>

\* No memory for the name, or the descriptor is not an eventfd.
GetFails ==
  /\ call.pc = "vector" /\ trigger[call.j] = None /\ fd # None
  /\ Undo
  /\ UNCHANGED <<open_count, trigger, action, refs>>

RequestIrq ==
  /\ call.pc = "request"
  /\ action' = [action EXCEPT ![call.j] = fd]
  /\ Goto("store")
  /\ UNCHANGED <<open_count, trigger, refs>>

RequestFails ==
  /\ call.pc = "request"
  /\ refs' = [refs EXCEPT ![fd] = @ - 1]
  /\ Undo
  /\ UNCHANGED <<open_count, trigger, action>>

StoreTrigger ==
  /\ call.pc = "store"
  /\ trigger' = [trigger EXCEPT ![call.j] = fd]
  /\ NextVector
  /\ UNCHANGED <<open_count, action, refs>>

Return ==
  /\ call.pc = "return"
  /\ call' = NoCall
  /\ UNCHANGED <<open_count, trigger, action, refs>>

-----------------------------------------------------------------------------
Next ==
  \/ Open \/ Release
  \/ \E start, count \in 0..(Width - 1) :
       \E fds \in [1..count -> Fds] : SetIrq(start, count, fds)
  \/ FreeIrq \/ PutTrigger \/ NoEventfd \/ GetEventfd \/ GetFails
  \/ RequestIrq \/ RequestFails \/ StoreTrigger \/ Return

Spec == Init /\ [][Next]_vars

-----------------------------------------------------------------------------
(* Properties.                                                             *)

\* An interrupt only ever signals an eventfd the driver holds a reference on,
\* at every step of replacing or undoing a vector (fpga_msix_handler), and
\* between calls the handler of a vector signals that vector's trigger.  The
\* references on an eventfd are those of the vectors that have it as their
\* trigger, and the one of the vector being set: none is lost or dropped twice
\* on an error path.
EventfdsHeld ==
  /\ \A v \in Vectors : action[v] # None => refs[action[v]] > 0
  /\ call.pc \in {"none", "return"} => action = trigger
  /\ \A e \in EventFds :
       refs[e] = Cardinality({v \in Vectors : trigger[v] = e})
                   + (IF call.pc \in {"request", "store"} /\ fd = e THEN 1 ELSE 0)

\* When set_block returns, the whole block has the eventfds asked for; or,
\* after a failure, no vector has a new eventfd (those up to the one that failed
\* have none, the rest keep theirs).  Vectors outside the block are untouched.
AllOrNothing ==
  call.pc = "return" =>
    LET block == call.start..(call.start + call.count - 1)
    IN  /\ \/ \A v \in block : trigger[v] = call.fds[v - call.start + 1]
           \/ \E failed \in block : \A v \in block :
                trigger[v] = IF v <= failed THEN None ELSE call.old[v]
        /\ \A v \in Vectors \ block : trigger[v] = call.old[v]

\* After the last close no vector keeps an eventfd of a process that is gone.
QuietWhenClosed ==
  open_count = 0 /\ call.pc = "none" =>
    /\ \A v \in Vectors : trigger[v] = None /\ action[v] = None
    /\ \A e \in EventFds : refs[e] = 0
=============================================================================
