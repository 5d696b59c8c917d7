----------------------------- MODULE FmePrProofs -----------------------------
(***************************************************************************)
(* Proofs about FmePr, for any set of threads and ports, any bandwidth,    *)
(* any FIFO and any time limit.                                            *)
(***************************************************************************)
EXTENDS FmePr, SequenceTheorems, TLAPS

-----------------------------------------------------------------------------
(* The inductive invariant.                                                *)

\* pdata->lock admits one call, from end to end.
LockInv == \A t \in Threads : pc[t] # "idle" <=> lock = t

\* An engine that is not loading has nothing left of the last load, and an
\* acknowledged reset has stopped the load.
EngineInv ==
  /\ pr_start_req = 0 => pr_push_complete = 0 /\ loader = None /\ fifo = <<>>
  /\ pr_reset_ack = 1 => pr_start_req = 0

\* A call that is under way has not reported an error yet; its words are
\* counted down from the whole image.
CallInv ==
  \A t \in Threads : pc[t] # "idle" =>
    /\ pr_err = None
    /\ WordsOf(t) <= Width /\ count <= WordsOf(t)
    /\ pc[t] \in {"reset", "ready", "start"} => count = WordsOf(t)

\* The words the engine has loaded, followed by those in its FIFO, are the
\* first n words of the image of t.
Pushed(t, n) ==
  /\ Len(config[port_id]) + Len(fifo) = n
  /\ \A i \in 1..Len(config[port_id]) : config[port_id][i] = <<t, i>>
  /\ \A i \in 1..Len(fifo) : fifo[i] = <<t, Len(config[port_id]) + i>>

\* From the moment the engine was found idle it works on this call's image
\* and nothing else.
LoadInv ==
  \A t \in Threads :
    /\ pc[t] \in {"start", "write", "complete"} => pr_reset = 0 /\ pr_reset_ack = 0
    /\ pc[t] = "start" => pr_start_req = 0 /\ pr_error = None
    /\ pc[t] \in {"write", "complete"} =>
         /\ pr_regionid = port_id
         /\ pr_error \in {None, t}
         /\ pr_start_req = 1 => loader = t
         /\ Pushed(t, WordsOf(t) - count)
    /\ pc[t] = "write" =>
         pr_start_req = 1 /\ pr_push_complete = 0 /\ pr_credit + Len(fifo) <= Credits
    /\ pc[t] = "complete" => count = 0

ConfigOK == config \in [Ports -> Seq(Words)]

IndInv ==
  /\ TypeOK /\ ConfigOK
  /\ LockInv /\ EngineInv /\ CallInv /\ LoadInv
  /\ StatusIsOwn

-----------------------------------------------------------------------------
(* Arithmetic of the image's size.                                         *)

\* The quotient of a division.
LEMMA Quotient ==
  ASSUME NEW a \in Nat, NEW b \in Nat \ {0}
  PROVE  /\ a \div b \in Nat
         /\ (a \div b) * b <= a
         /\ a < (a \div b) * b + b
  BY SMT

\* The bounds are positive.
LEMMA Bounds ==
  /\ Bandwidth \in Nat /\ Bandwidth > 0 /\ Width \in Nat /\ Width > 0
  /\ Credits \in Nat /\ Credits > 0 /\ MaxDelay \in Nat
  /\ None \notin Threads
  BY PrAssumption

\* Zero is within each of them.
LEMMA Zeros ==
  0 \in 0..(Width - 1) /\ 0 \in 0..Width /\ 0 \in 0..Credits /\ 0 \in 0..(MaxDelay + 1)
  BY Bounds

Rounded(n) == (n + Bandwidth - 1) \div Bandwidth

\* Unless its aligned size wraps to zero, the aligned image is whole words and
\* covers the image.
LEMMA AlignedWords ==
  ASSUME NEW n \in 0..(Width - 1)
  PROVE  /\ Rounded(n) \in Nat
         /\ Rounded(n) * Bandwidth >= n
         /\ aligned(n) # 0 =>
              aligned(n) \div Bandwidth = Rounded(n) /\ Rounded(n) <= Width
  <1> DEFINE k == Rounded(n)
  <1> DEFINE q == Width \div Bandwidth
  <1>1. Bandwidth \in Nat \ {0} /\ Width \in Nat \ {0} /\ n \in Nat /\ n < Width
        /\ n + Bandwidth - 1 \in Nat
    BY PrAssumption
  <1>2. k \in Nat /\ k * Bandwidth <= n + Bandwidth - 1 /\ n + Bandwidth - 1 < k * Bandwidth + Bandwidth
    BY <1>1, Quotient DEF Rounded
  <1>3. q \in Nat /\ Width = q * Bandwidth
    BY <1>1, PrAssumption, SMT
  <1>4. aligned(n) = (k * Bandwidth) % Width
    BY DEF aligned, Rounded
  <1> HIDE DEF k, q
  <1>5. k * Bandwidth < (q + 1) * Bandwidth
    BY <1>1, <1>2, <1>3
  <1>6. k <= q
    BY <1>1, <1>2, <1>3, <1>5
  <1>7. k * Bandwidth <= Width
    BY <1>1, <1>2, <1>3, <1>6
  <1>8. k * Bandwidth >= n
    BY <1>1, <1>2
  <1>9. aligned(n) # 0 => aligned(n) = k * Bandwidth
    BY <1>1, <1>2, <1>4, <1>7
  <1>10. (k * Bandwidth) \div Bandwidth = k /\ k <= Width
    BY <1>1, <1>2, <1>7
  <1> QED BY <1>2, <1>8, <1>9, <1>10 DEF k

\* The words of a call's image.
LEMMA WordsType ==
  ASSUME TypeOK, NEW t \in Threads
  PROVE  WordsOf(t) = Rounded(size[t]) /\ WordsOf(t) \in Nat
         /\ WordsOf(t) * Bandwidth >= size[t]
  <1>1. size[t] \in 0..(Width - 1) /\ WordsOf(t) = Rounded(size[t])
    BY DEF TypeOK, WordsOf, Rounded
  <1> QED BY <1>1, AlignedWords

-----------------------------------------------------------------------------
(* The inductive step, one lemma per action or group of actions.           *)

\* A call in progress is alone.
LEMMA Alone ==
  ASSUME IndInv, NEW t \in Threads, pc[t] # "idle"
  PROVE  lock = t /\ \A u \in Threads : u # t => pc[u] = "idle"
  BY DEF IndInv, LockInv

\* The return of a call: its result and status agree, and the engine is left
\* to itself.
LEMMA EndStep ==
  ASSUME IndInv, NEW t \in Threads, pc[t] # "idle",
         NEW r \in {"ok", "EIO", "ETIMEDOUT"},
         NEW s \in {"write init error", "write error", "write complete error", "operating"},
         NEW err, err = IF r = "EIO" THEN t ELSE None,
         PrEnd(t, r, s, err), pr_error' \in Threads \cup {None},
         UNCHANGED <<port_id, ctlVars, loader, fifo, config>>
  PROVE  IndInv'
  <1> USE DEF PrEnd, Goto, ctlVars
  <1>1. lock = t /\ \A u \in Threads : pc'[u] = "idle"
    BY Alone DEF IndInv, TypeOK
  <1>2. TypeOK' /\ ConfigOK'
    <2>1. /\ lock' \in Threads \cup {None} /\ pr_err' \in Threads \cup {None}
          /\ status' \in [Threads -> Threads \cup {None}]
      BY DEF IndInv, TypeOK
    <2>2. /\ ret' \in [Threads -> {"ok", "EIO", "ETIMEDOUT", "refused"}]
          /\ pc' \in [Threads -> {"idle", "reset", "ready", "start", "write", "complete"}]
      BY DEF IndInv, TypeOK
    <2>3. /\ 0 \in 0..(Width - 1) /\ count' \in 0..Width
          /\ pr_credit' \in 0..Credits /\ delay' \in 0..(MaxDelay + 1)
      <3>1. count' = 0 /\ pr_credit' = 0 /\ delay' = 0
        OBVIOUS
      <3> QED BY <3>1, Zeros
    <2>4. size' \in [Threads -> 0..(Width - 1)]
      <3>1. size \in [Threads -> 0..(Width - 1)] /\ size' = [size EXCEPT ![t] = 0]
        BY DEF IndInv, TypeOK
      <3> HIDE DEF PrEnd
      <3> QED BY <2>3, <3>1
    <2>5. /\ mgr_state' \in {"write init error", "write error", "write complete error",
                             "operating"}
          /\ UNCHANGED <<port_id, ctlVars, loader, fifo, config>>
          /\ TypeOK /\ ConfigOK
      BY DEF IndInv
    <2> HIDE DEF PrEnd
    <2> QED BY <2>1, <2>2, <2>3, <2>4, <2>5 DEF TypeOK, ConfigOK
  <1>3. LockInv' /\ CallInv' /\ LoadInv'
    BY <1>1, Bounds DEF LockInv, CallInv, LoadInv
  <1>4. EngineInv'
    BY DEF IndInv, EngineInv
  <1>5. StatusIsOwn'
    BY DEF IndInv, StatusIsOwn, TypeOK
  <1> QED BY <1>2, <1>3, <1>4, <1>5 DEF IndInv

\* A refused call changes nothing but its own result.
LEMMA PrRefusedStep ==
  ASSUME IndInv, NEW t \in Threads, PrRefused(t)
  PROVE  IndInv'
  <1> USE DEF PrRefused, drvVars, hwVars, ctlVars
  <1>1. TypeOK' /\ ConfigOK'
    BY DEF IndInv, TypeOK, ConfigOK
  <1>2. LockInv' /\ CallInv' /\ EngineInv'
    BY DEF IndInv, LockInv, CallInv, EngineInv, WordsOf
  <1>3. LoadInv'
    BY DEF IndInv, LoadInv, WordsOf, Pushed
  <1>4. StatusIsOwn'
    BY DEF IndInv, StatusIsOwn, TypeOK
  <1> QED BY <1>1, <1>2, <1>3, <1>4 DEF IndInv

\* A call begins: the whole image is to be pushed.
LEMMA PrBeginStep ==
  ASSUME IndInv, NEW t \in Threads, NEW n \in 0..(Width - 1), NEW p \in Ports,
         PrBegin(t, p, n)
  PROVE  IndInv'
  <1>0. /\ lock = None /\ lock' = t /\ size' = [size EXCEPT ![t] = n]
        /\ pr_err' = None /\ port_id' = p /\ mgr_state' = "write init" /\ pr_reset' = 1
        /\ pc' = [pc EXCEPT ![t] = "reset"]
        /\ UNCHANGED <<ret, status, pr_credit, delay, pr_reset_ack, pr_start_req,
                       pr_push_complete, pr_regionid, pr_error, loader, fifo, config>>
    BY DEF PrBegin, Goto
  <1>1. \A u \in Threads : pc'[u] = IF u = t THEN "reset" ELSE "idle"
    BY <1>0, Bounds DEF IndInv, LockInv, TypeOK
  <1>2. count' = WordsOf(t)' /\ count' \in 0..Width
    <2>1. size'[t] = n
      BY <1>0 DEF IndInv, TypeOK
    <2>2. WordsOf(t)' = Rounded(n)
      BY <2>1 DEF WordsOf, Rounded
    <2>3. count' = Rounded(n) /\ Rounded(n) \in Nat /\ Rounded(n) <= Width
      BY AlignedWords DEF PrBegin
    <2> QED BY <2>2, <2>3, Bounds
  <1>3. TypeOK' /\ ConfigOK'
    BY <1>0, <1>2 DEF IndInv, TypeOK, ConfigOK
  <1>4. LockInv'
    <2>1. lock' = t
      BY <1>0
    <2> QED BY <1>1, <2>1 DEF LockInv
  <1>5. EngineInv'
    BY <1>0 DEF IndInv, EngineInv
  <1>6. CallInv'
    <2> SUFFICES ASSUME NEW u \in Threads, pc'[u] # "idle"
                 PROVE  /\ pr_err' = None
                        /\ WordsOf(u)' <= Width /\ count' <= WordsOf(u)'
                        /\ count' = WordsOf(u)'
      BY DEF CallInv
    <2>1. u = t
      BY <1>1
    <2>2. WordsOf(t)' <= Width /\ count' <= WordsOf(t)' /\ count' = WordsOf(t)'
      BY <1>2, Bounds
    <2>3. pr_err' = None
      BY <1>0
    <2> QED BY <2>1, <2>2, <2>3
  <1>7. LoadInv'
    BY <1>1 DEF LoadInv
  <1>8. StatusIsOwn'
    BY <1>0 DEF IndInv, StatusIsOwn
  <1> QED BY <1>3, <1>4, <1>5, <1>6, <1>7, <1>8 DEF IndInv

\* The waits of fme_pr_write_init: the engine is reset, then idle and without
\* an old error.
LEMMA WriteInitStep ==
  ASSUME IndInv, NEW t \in Threads, ResetAcked(t) \/ HostReady(t)
  PROVE  IndInv'
  <1> USE DEF drvVars, ctlVars, Goto
  <1>1. /\ UNCHANGED <<lock, ret, status, size, pr_err, port_id, mgr_state, count, pr_credit,
                       delay, pr_reset_ack, pr_start_req, pr_push_complete, pr_regionid,
                       loader, fifo, config>>
        /\ pc[t] \in {"reset", "ready"}
        /\ pr_reset' \in {0, 1}
        /\ pr_error' \in Threads \cup {None}
    BY DEF ResetAcked, HostReady, pr_err_handle, IndInv, TypeOK
  <1>2. /\ pc' = [pc EXCEPT ![t] = "ready"]
           \/ /\ pc' = [pc EXCEPT ![t] = "start"] /\ pr_error' = None
              /\ pr_reset' = 0 /\ pr_reset_ack = 0 /\ pr_start_req = 0 /\ fifo = <<>>
        /\ \A u \in Threads : u # t => pc[u] = "idle"
    BY <1>1, Alone DEF ResetAcked, HostReady, pr_err_handle, HostIdle
  <1>3. TypeOK' /\ ConfigOK'
    BY <1>1, <1>2 DEF IndInv, TypeOK, ConfigOK
  <1>4. LockInv'
    BY <1>1, <1>2 DEF LockInv, IndInv, TypeOK
  <1>5. EngineInv'
    BY <1>1 DEF IndInv, EngineInv
  <1>6. CallInv'
    BY <1>1, <1>2 DEF CallInv, IndInv, TypeOK, WordsOf
  <1>7. LoadInv'
    BY <1>1, <1>2 DEF LoadInv, IndInv, TypeOK
  <1>8. StatusIsOwn'
    BY <1>1 DEF IndInv, StatusIsOwn
  <1> QED BY <1>3, <1>4, <1>5, <1>6, <1>7, <1>8 DEF IndInv

\* The load starts with an empty FIFO and an empty region.
LEMMA WriteBeginStep ==
  ASSUME IndInv, NEW t \in Threads, WriteBegin(t)
  PROVE  IndInv'
  <1> USE DEF WriteBegin, Goto
  <1>1. /\ \A u \in Threads : pc'[u] = IF u = t THEN "write" ELSE "idle"
        /\ lock = t /\ pr_start_req = 0 /\ fifo = <<>> /\ pr_push_complete = 0
        /\ pr_reset = 0 /\ pr_reset_ack = 0 /\ pr_error = None
        /\ port_id \in Ports /\ count = WordsOf(t)
    BY Alone DEF IndInv, TypeOK, LoadInv, EngineInv, CallInv
  <1>2. pr_credit' = Credits /\ Len(fifo') = 0 /\ config'[port_id'] = <<>>
    BY <1>1, Bounds DEF FreeCredits, IndInv, ConfigOK
  <1>3. TypeOK' /\ ConfigOK'
    <2>1. <<>> \in Seq(Words)
      OBVIOUS
    <2>2. ConfigOK' /\ \A q \in Ports : config'[q] \in Seq(Words)
      BY <2>1, <1>1 DEF IndInv, ConfigOK
    <2>3. pr_credit' \in 0..Credits /\ delay' \in 0..(MaxDelay + 1)
      BY <1>2, Bounds
    <2>4. pc' \in [Threads -> {"idle", "reset", "ready", "start", "write", "complete"}]
      BY DEF IndInv, TypeOK
    <2> QED BY <1>1, <2>2, <2>3, <2>4 DEF IndInv, TypeOK
  <1>4. LockInv'
    BY <1>1 DEF LockInv, IndInv
  <1>5. EngineInv'
    BY <1>1 DEF EngineInv
  <1>6. CallInv'
    BY <1>1 DEF CallInv, IndInv, WordsOf
  <1>7. LoadInv'
    <2>1. WordsOf(t)' = WordsOf(t) /\ WordsOf(t) - count = 0
      <3>1. WordsOf(t)' = WordsOf(t)
        BY DEF WordsOf
      <3> QED BY <1>1, <3>1, WordsType DEF IndInv
    <2>2. Pushed(t, WordsOf(t) - count)'
      BY <1>2, <2>1 DEF Pushed
    <2> QED BY <1>1, <1>2, <2>2, Bounds DEF LoadInv
  <1>8. StatusIsOwn'
    BY DEF IndInv, StatusIsOwn
  <1> QED BY <1>3, <1>4, <1>5, <1>6, <1>7, <1>8 DEF IndInv

\* The numbers of the load.
LEMMA Numbers ==
  ASSUME TypeOK
  PROVE  /\ count \in Nat /\ count <= Width /\ pr_credit \in Nat /\ pr_credit <= Credits
         /\ delay \in Nat /\ delay <= MaxDelay + 1
         /\ fifo \in Seq(Words) /\ Len(fifo) \in Nat /\ Len(fifo) < Credits
         /\ port_id \in Ports /\ config[port_id] \in Seq(Words)
         /\ Len(config[port_id]) \in Nat
  <1>1. count \in 0..Width /\ pr_credit \in 0..Credits /\ delay \in 0..(MaxDelay + 1)
    BY DEF TypeOK
  <1>2. fifo \in Seq(Words) /\ Len(fifo) < Credits /\ port_id \in Ports
    BY DEF TypeOK
  <1>3. config[port_id] \in Seq(Words)
    BY <1>2 DEF TypeOK
  <1>4. Len(fifo) \in Nat /\ Len(config[port_id]) \in Nat
    BY <1>2, <1>3, LenProperties
  <1> QED BY <1>1, <1>2, <1>3, <1>4, Bounds

\* What holds of the call that pushes its image.
LEMMA Writing ==
  ASSUME IndInv, NEW t \in Threads, pc[t] \in {"write", "complete"}
  PROVE  /\ lock = t /\ \A u \in Threads : u # t => pc[u] = "idle"
         /\ pr_reset = 0 /\ pr_reset_ack = 0 /\ pr_regionid = port_id /\ port_id \in Ports
         /\ pr_error \in {None, t} /\ pr_err = None
         /\ WordsOf(t) \in Nat /\ WordsOf(t) <= Width
         /\ count \in Nat /\ count <= WordsOf(t)
         /\ config[port_id] \in Seq(Words) /\ fifo \in Seq(Words)
         /\ Pushed(t, WordsOf(t) - count)
         /\ pc[t] = "write" =>
              /\ pr_start_req = 1 /\ loader = t /\ pr_push_complete = 0
              /\ pr_credit \in Nat /\ pr_credit + Len(fifo) <= Credits
         /\ pc[t] = "complete" => count = 0
  <1>1. lock = t /\ \A u \in Threads : u # t => pc[u] = "idle"
    BY Alone
  <1>2. WordsOf(t) \in Nat
    BY WordsType DEF IndInv
  <1>3. pr_err = None /\ WordsOf(t) <= Width /\ count <= WordsOf(t)
    BY DEF IndInv, CallInv
  <1>4. /\ port_id \in Ports /\ count \in Nat /\ pr_credit \in Nat /\ fifo \in Seq(Words)
        /\ config[port_id] \in Seq(Words)
    BY Numbers DEF IndInv
  <1> QED BY <1>1, <1>2, <1>3, <1>4 DEF IndInv, LoadInv

\* Polling the credits: the copy is what the engine has.
LEMMA WritePollStep ==
  ASSUME IndInv, NEW t \in Threads, WritePoll(t)
  PROVE  IndInv'
  <1>1. /\ pc[t] = "write" /\ delay <= MaxDelay /\ delay' = delay + 1
        /\ pr_credit' = FreeCredits
        /\ UNCHANGED <<lock, pc, ret, status, size, pr_err, port_id, mgr_state, count,
             pr_reset, pr_reset_ack, pr_start_req, pr_push_complete, pr_regionid, pr_error,
             loader, fifo, config>>
    BY DEF WritePoll, callVars, hwVars, ctlVars
  <1>2. Len(fifo) \in Nat /\ Len(fifo) < Credits /\ delay \in Nat
    BY Numbers DEF IndInv
  <1>3. pr_credit' \in 0..Credits /\ pr_credit' + Len(fifo) = Credits
    BY <1>1, <1>2, Bounds DEF FreeCredits
  <1>4. delay' \in 0..(MaxDelay + 1)
    BY <1>1, <1>2, Bounds
  <1>5. TypeOK' /\ ConfigOK'
    BY <1>1, <1>3, <1>4 DEF IndInv, TypeOK, ConfigOK
  <1>6. LockInv' /\ EngineInv' /\ StatusIsOwn'
    BY <1>1 DEF IndInv, LockInv, EngineInv, StatusIsOwn
  <1>7. \A u \in Threads : WordsOf(u)' = WordsOf(u)
    BY <1>1 DEF WordsOf
  <1>8. CallInv'
    BY <1>1, <1>7 DEF IndInv, CallInv
  <1>9. LoadInv'
    <2>1. \A u \in Threads : Pushed(u, WordsOf(u) - count)' <=> Pushed(u, WordsOf(u) - count)
      BY <1>1, <1>7 DEF Pushed
    <2>2. pr_credit' + Len(fifo') <= Credits
      BY <1>1, <1>3, Bounds
    <2> QED BY <1>1, <2>1, <2>2 DEF IndInv, LoadInv
  <1> QED BY <1>5, <1>6, <1>8, <1>9 DEF IndInv

\* A word is pushed: it is the next one of the image, and a word of the FIFO
\* stays free.
LEMMA WriteWordStep ==
  ASSUME IndInv, NEW t \in Threads, WriteWord(t)
  PROVE  IndInv'
  <1>0. PICK w \in Threads \X Nat : w = <<t, WordsOf(t) - count + 1>>
    <2>1. pc[t] = "write"
      BY DEF WriteWord
    <2>2. WordsOf(t) \in Nat /\ count \in Nat /\ count <= WordsOf(t)
      BY <2>1, Writing
    <2>3. WordsOf(t) - count + 1 \in Nat
      BY <2>2
    <2> QED BY <2>3
  <1>1. /\ pc[t] = "write" /\ count > 0 /\ pr_credit > 1
        /\ fifo' = Append(fifo, w)
        /\ count' = count - 1 /\ pr_credit' = pr_credit - 1
        /\ UNCHANGED <<lock, pc, ret, status, size, pr_err, port_id, mgr_state, delay,
             pr_reset, pr_reset_ack, pr_start_req, pr_push_complete, pr_regionid, pr_error,
             loader, config>>
    BY <1>0 DEF WriteWord, callVars, ctlVars
  <1>2. /\ \A u \in Threads : u # t => pc[u] = "idle"
        /\ WordsOf(t) \in Nat /\ WordsOf(t) <= Width /\ count \in Nat /\ count <= WordsOf(t)
        /\ config[port_id] \in Seq(Words) /\ fifo \in Seq(Words)
        /\ Pushed(t, WordsOf(t) - count)
        /\ pr_credit \in Nat /\ pr_credit + Len(fifo) <= Credits
        /\ pr_start_req = 1
    BY <1>1, Writing
  <1>3. w \in Words
    <2>1. WordsOf(t) - count + 1 \in 1..Width
      BY <1>1, <1>2, Bounds
    <2> QED BY <1>0, <2>1 DEF Words
  <1>4. /\ fifo' \in Seq(Words) /\ Len(fifo') = Len(fifo) + 1 /\ Len(fifo) \in Nat
        /\ \A i \in 1..Len(fifo) : fifo'[i] = fifo[i]
        /\ fifo'[Len(fifo) + 1] = w
    BY <1>1, <1>2, <1>3
  <1>5. Len(fifo') < Credits /\ count' \in 0..Width /\ pr_credit' \in 0..Credits
        /\ pr_credit' + Len(fifo') <= Credits
    BY <1>1, <1>2, <1>4, Bounds
  <1>6. TypeOK' /\ ConfigOK'
    BY <1>1, <1>4, <1>5 DEF IndInv, TypeOK, ConfigOK
  <1>7. LockInv' /\ EngineInv' /\ StatusIsOwn'
    BY <1>1, <1>2 DEF IndInv, LockInv, EngineInv, StatusIsOwn
  <1>8. \A u \in Threads : WordsOf(u)' = WordsOf(u)
    BY <1>1 DEF WordsOf
  <1>9. CallInv'
    BY <1>1, <1>2, <1>8 DEF IndInv, CallInv
  <1>10. LoadInv'
    <2> DEFINE c == config[port_id]
    <2>1. /\ Len(c) + Len(fifo) = WordsOf(t) - count /\ Len(c) \in Nat
          /\ \A i \in 1..Len(c) : c[i] = <<t, i>>
          /\ \A i \in 1..Len(fifo) : fifo[i] = <<t, Len(c) + i>>
      BY <1>2 DEF Pushed
    <2>2. Len(c) + Len(fifo') = WordsOf(t) - count'
      <3>1. count' = count - 1 /\ Len(fifo') = Len(fifo) + 1 /\ Len(fifo) \in Nat
        BY <1>1, <1>4
      <3>2. WordsOf(t) \in Nat /\ count \in Nat
        BY <1>2
      <3>3. Len(c) + Len(fifo) = WordsOf(t) - count /\ Len(c) \in Nat
        BY <2>1
      <3> HIDE DEF c
      <3> QED BY <3>1, <3>2, <3>3
    <2>3. ASSUME NEW i \in 1..Len(fifo') PROVE fifo'[i] = <<t, Len(c) + i>>
      <3>1. CASE i \in 1..Len(fifo)
        BY <1>4, <2>1, <3>1
      <3>2. CASE i = Len(fifo) + 1
        <4>1. Len(c) + i = WordsOf(t) - count + 1
          <5>1. Len(fifo) \in Nat
            BY <1>4
          <5>2. WordsOf(t) \in Nat /\ count \in Nat
            BY <1>2
          <5>3. Len(c) + Len(fifo) = WordsOf(t) - count /\ Len(c) \in Nat
            BY <2>1
          <5> HIDE DEF c
          <5> QED BY <3>2, <5>1, <5>2, <5>3
        <4> QED BY <1>0, <1>4, <3>2, <4>1
      <3> QED BY <1>4, <3>1, <3>2
    <2>4. c' = c
      BY <1>1
    <2> HIDE DEF c
    <2>5. Pushed(t, WordsOf(t) - count)'
      BY <1>8, <2>1, <2>2, <2>3, <2>4 DEF Pushed, c
    <2> QED BY <1>1, <1>2, <1>5, <2>5 DEF IndInv, LoadInv
  <1> QED BY <1>6, <1>7, <1>9, <1>10 DEF IndInv

\* The whole image has been pushed.
LEMMA PushCompleteStep ==
  ASSUME IndInv, NEW t \in Threads, PushComplete(t)
  PROVE  IndInv'
  <1>1. /\ pc[t] = "write" /\ count = 0
        /\ mgr_state' = "write complete" /\ pr_push_complete' = 1
        /\ UNCHANGED <<lock, ret, status, size, pr_err, port_id, count, pr_credit, delay,
                 pr_reset, pr_reset_ack, pr_start_req, pr_regionid, pr_error, loader,
                 fifo, config>>
    BY DEF PushComplete
  <1>2. \A u \in Threads : pc'[u] = IF u = t THEN "complete" ELSE "idle"
    BY <1>1, Writing DEF PushComplete, Goto, IndInv, TypeOK
  <1>3. TypeOK' /\ ConfigOK'
    BY <1>1 DEF PushComplete, Goto, IndInv, TypeOK, ConfigOK
  <1>4. LockInv' /\ StatusIsOwn'
    <2>1. lock' = t
      BY <1>1, Writing
    <2> QED BY <1>1, <1>2, <2>1 DEF IndInv, LockInv, StatusIsOwn
  <1>5. EngineInv'
    BY <1>1, Writing DEF IndInv, EngineInv
  <1>6. \A u \in Threads : WordsOf(u)' = WordsOf(u)
    BY <1>1 DEF WordsOf
  <1>7. CallInv'
    <2>1. /\ pr_err = None /\ WordsOf(t) <= Width /\ count <= WordsOf(t)
      BY <1>1 DEF IndInv, CallInv
    <2> QED BY <1>1, <1>2, <1>6, <2>1 DEF CallInv
  <1>8. LoadInv'
    <2>1. Pushed(t, WordsOf(t) - count)' <=> Pushed(t, WordsOf(t) - count)
      BY <1>1, <1>6 DEF Pushed
    <2> QED BY <1>1, <1>2, <2>1 DEF IndInv, LoadInv
  <1> QED BY <1>3, <1>4, <1>5, <1>7, <1>8 DEF IndInv

\* The returns of a call: every wait may time out, and the engine may report
\* an error, which is this call's.
LEMMA ReturnStep ==
  ASSUME IndInv, NEW t \in Threads,
         InitTimeout(t) \/ WriteTimeout(t) \/ Released(t) \/ CompleteTimeout(t)
  PROVE  IndInv'
  <1> USE DEF hwVars, pr_err_handle
  <1>1. pc[t] # "idle" /\ pr_error' \in Threads \cup {None}
        /\ UNCHANGED <<port_id, ctlVars, loader, fifo, config>>
    BY DEF InitTimeout, WriteTimeout, Released, CompleteTimeout, IndInv, TypeOK
  <1>2. pr_err = None
    BY <1>1 DEF IndInv, CallInv
  <1>3. CASE InitTimeout(t)
    BY <1>1, <1>2, <1>3, EndStep DEF InitTimeout
  <1>4. CASE CompleteTimeout(t)
    BY <1>1, <1>2, <1>4, EndStep DEF CompleteTimeout
  <1>5. CASE WriteTimeout(t)
    <2>1. pr_error \in {None, t} /\ None # t
      BY <1>5, Writing, Bounds DEF WriteTimeout
    <2> QED BY <1>1, <1>5, <2>1, EndStep DEF WriteTimeout
  <1>6. CASE Released(t)
    <2>1. pr_error \in {None, t} /\ None # t
      BY <1>6, Writing, Bounds DEF Released
    <2> QED BY <1>1, <1>6, <2>1, EndStep DEF Released
  <1> QED BY <1>3, <1>4, <1>5, <1>6

\* The reset handshake: a reset empties the engine, and no call is loading
\* while it is asked for.
LEMMA HwResetStep ==
  ASSUME IndInv, HwReset \/ HwResetDone
  PROVE  IndInv'
  <1>1. /\ UNCHANGED <<lock, pc, ret, status, size, pr_err, port_id, mgr_state, count,
                       pr_credit, delay, pr_reset, pr_regionid, pr_error, config>>
        /\ pr_reset = 1 \/ pr_reset_ack = 1
        /\ \/ /\ pr_reset_ack' = 1 /\ pr_start_req' = 0 /\ pr_push_complete' = 0
              /\ loader' = None /\ fifo' = <<>>
           \/ pr_reset_ack' = 0 /\ UNCHANGED <<pr_start_req, pr_push_complete, loader, fifo>>
    BY DEF HwReset, HwResetDone, callVars, drvVars
  <1>2. fifo' \in Seq(Words) /\ Len(fifo') < Credits
    <2>1. fifo \in Seq(Words) /\ Len(fifo) < Credits
      BY Numbers DEF IndInv
    <2>2. <<>> \in Seq(Words) /\ Len(<<>>) < Credits
      BY Bounds
    <2> QED BY <1>1, <2>1, <2>2
  <1>3. TypeOK' /\ ConfigOK'
    BY <1>1, <1>2 DEF IndInv, TypeOK, ConfigOK
  <1>4. LockInv' /\ StatusIsOwn'
    BY <1>1 DEF IndInv, LockInv, StatusIsOwn
  <1>5. EngineInv'
    BY <1>1 DEF IndInv, EngineInv
  <1>6. CallInv'
    BY <1>1 DEF IndInv, CallInv, WordsOf
  <1>7. \A t \in Threads : pc[t] \notin {"start", "write", "complete"}
    BY <1>1 DEF IndInv, LoadInv
  <1>8. LoadInv'
    BY <1>1, <1>7 DEF LoadInv
  <1> QED BY <1>3, <1>4, <1>5, <1>6, <1>8 DEF IndInv

\* The engine loads the word at the head of its FIFO.
LEMMA HwTakesStep ==
  ASSUME IndInv, HwTakes
  PROVE  IndInv'
  <1>1. /\ UNCHANGED <<lock, pc, ret, status, size, pr_err, port_id, mgr_state, count,
                       pr_credit, delay, pr_reset, pr_reset_ack, pr_start_req,
                       pr_push_complete, pr_regionid, pr_error, loader>>
        /\ pr_start_req = 1 /\ fifo # <<>> /\ fifo' = Tail(fifo)
    BY DEF HwTakes, Loading, callVars, drvVars, ctlVars
  <1>2. /\ fifo \in Seq(Words) /\ Len(fifo) \in Nat /\ Len(fifo) < Credits
        /\ pr_regionid \in Ports /\ config \in [Ports -> Seq(Words)]
    BY Numbers DEF IndInv, TypeOK, ConfigOK
  <1>3. /\ Head(fifo) \in Words /\ fifo' \in Seq(Words) /\ Len(fifo') = Len(fifo) - 1
        /\ Len(fifo') \in Nat
        /\ \A i \in 1..Len(fifo') : fifo'[i] = fifo[i + 1]
    BY <1>1, <1>2, HeadTailProperties, LenProperties
  <1>4. /\ config' \in [Ports -> Seq(Words)]
        /\ config'[pr_regionid] = Append(config[pr_regionid], Head(fifo))
    BY <1>2, <1>3 DEF HwTakes
  <1>5. Len(fifo') < Credits
    BY <1>2, <1>3, Bounds
  <1>6. TypeOK' /\ ConfigOK'
    BY <1>1, <1>3, <1>4, <1>5 DEF IndInv, TypeOK, ConfigOK
  <1>7. LockInv' /\ StatusIsOwn'
    BY <1>1 DEF IndInv, LockInv, StatusIsOwn
  <1>8. EngineInv'
    BY <1>1 DEF IndInv, EngineInv
  <1>9. CallInv'
    BY <1>1 DEF IndInv, CallInv, WordsOf
  <1>10. LoadInv'
    <2>1. ASSUME NEW t \in Threads, pc[t] \in {"write", "complete"}
          PROVE  Pushed(t, WordsOf(t) - count)'
      <3>1. pr_regionid = port_id /\ Pushed(t, WordsOf(t) - count)
            /\ WordsOf(t)' = WordsOf(t)
        BY <1>1, <2>1, Writing DEF WordsOf
      <3>2. PICK c \in Seq(Words) : c = config[port_id]
        BY <1>2, <3>1
      <3>3. PICK d \in Seq(Words) : d = config'[port_id'] /\ d = Append(c, Head(fifo))
        BY <1>1, <1>2, <1>4, <3>1, <3>2
      <3>4. /\ Len(d) = Len(c) + 1 /\ Len(c) \in Nat
            /\ \A i \in 1..Len(c) : d[i] = c[i]
            /\ d[Len(c) + 1] = fifo[1]
        BY <1>2, <3>2, <3>3
      <3>5. /\ Len(c) + Len(fifo) = WordsOf(t) - count
            /\ \A i \in 1..Len(c) : c[i] = <<t, i>>
            /\ \A i \in 1..Len(fifo) : fifo[i] = <<t, Len(c) + i>>
        BY <3>1, <3>2 DEF Pushed
      <3>6. Len(d) + Len(fifo') = WordsOf(t) - count
        BY <1>2, <1>3, <3>4, <3>5
      <3>7. ASSUME NEW i \in 1..Len(d) PROVE d[i] = <<t, i>>
        <4>1. CASE i \in 1..Len(c)
          BY <3>4, <3>5, <4>1
        <4>2. CASE i = Len(c) + 1
          <5>1. 1 \in 1..Len(fifo)
            BY <1>2, <1>3
          <5> QED BY <3>4, <3>5, <4>2, <5>1
        <4> QED BY <3>4, <4>1, <4>2
      <3>8. ASSUME NEW i \in 1..Len(fifo') PROVE fifo'[i] = <<t, Len(d) + i>>
        <4>1. i + 1 \in 1..Len(fifo) /\ Len(c) + (i + 1) = Len(d) + i
          BY <1>2, <1>3, <3>4
        <4> QED BY <1>3, <3>5, <4>1
      <3> QED BY <1>1, <3>1, <3>3, <3>6, <3>7, <3>8 DEF Pushed
    <2>2. Len(fifo') <= Len(fifo)
      BY <1>2, <1>3
    <2>3. \A t \in Threads : pc[t] = "write" => pr_credit + Len(fifo') <= Credits
      <3> SUFFICES ASSUME NEW t \in Threads, pc[t] = "write"
                   PROVE  pr_credit + Len(fifo') <= Credits
        OBVIOUS
      <3>1. pr_credit + Len(fifo) <= Credits /\ pr_credit \in Nat
        BY Writing
      <3> QED BY <1>2, <1>3, <3>1, Bounds
    <2> QED BY <1>1, <2>1, <2>3 DEF IndInv, LoadInv
  <1> QED BY <1>6, <1>7, <1>8, <1>9, <1>10 DEF IndInv

\* The engine finds an error, in the image it loads; or it is done with the
\* image and lets go of it.
LEMMA HwEndsStep ==
  ASSUME IndInv, HwError \/ HwReleases
  PROVE  IndInv'
  <1>1. /\ UNCHANGED <<lock, pc, ret, status, size, pr_err, port_id, mgr_state, count,
                       pr_credit, delay, pr_reset, pr_reset_ack, pr_regionid, fifo, config>>
        /\ pr_start_req = 1
        /\ \/ pr_error' = loader /\ UNCHANGED <<pr_start_req, pr_push_complete, loader>>
           \/ /\ pr_push_complete = 1 /\ fifo = <<>>
              /\ pr_start_req' = 0 /\ pr_push_complete' = 0 /\ loader' = None
              /\ UNCHANGED pr_error
    BY DEF HwError, HwReleases, Loading, callVars, drvVars, ctlVars
  <1>2. TypeOK' /\ ConfigOK'
    BY <1>1 DEF IndInv, TypeOK, ConfigOK
  <1>3. LockInv' /\ StatusIsOwn'
    BY <1>1 DEF IndInv, LockInv, StatusIsOwn
  <1>4. EngineInv'
    BY <1>1 DEF IndInv, EngineInv
  <1>5. \A t \in Threads : WordsOf(t)' = WordsOf(t)
    BY <1>1 DEF WordsOf
  <1>6. CallInv'
    BY <1>1, <1>5 DEF IndInv, CallInv
  <1>7. \A t \in Threads : Pushed(t, WordsOf(t) - count)' <=> Pushed(t, WordsOf(t) - count)
    BY <1>1, <1>5 DEF Pushed
  <1>8. LoadInv'
    BY <1>1, <1>7 DEF IndInv, LoadInv
  <1> QED BY <1>2, <1>3, <1>4, <1>6, <1>8 DEF IndInv

\* Before the first call nothing is loaded or reported.
LEMMA InitInv == Init => IndInv
  <1> SUFFICES ASSUME Init PROVE IndInv
    OBVIOUS
  <1> USE DEF Init
  <1>1. <<>> \in Seq(Words) /\ Len(<<>>) = 0
    OBVIOUS
  <1>2. TypeOK
    BY <1>1, Zeros, Bounds DEF TypeOK
  <1>3. ConfigOK /\ LockInv /\ EngineInv /\ CallInv /\ LoadInv /\ StatusIsOwn
    BY <1>1, Bounds DEF ConfigOK, LockInv, EngineInv, CallInv, LoadInv, StatusIsOwn
  <1> QED BY <1>2, <1>3 DEF IndInv

\* Every step preserves the inductive invariant.
LEMMA InductiveStep == IndInv /\ [Next]_vars => IndInv'
  <1> SUFFICES ASSUME IndInv, [Next]_vars PROVE IndInv'
    OBVIOUS
  <1>1. CASE UNCHANGED vars
    <2> USE <1>1 DEF vars, callVars, drvVars, hwVars, ctlVars
    <2>1. TypeOK' /\ ConfigOK'
      BY DEF IndInv, TypeOK, ConfigOK
    <2>2. LockInv' /\ EngineInv' /\ CallInv' /\ StatusIsOwn'
      BY DEF IndInv, LockInv, EngineInv, CallInv, StatusIsOwn, WordsOf
    <2>3. LoadInv'
      BY DEF IndInv, LoadInv, Pushed, WordsOf
    <2> QED BY <2>1, <2>2, <2>3 DEF IndInv
  <1>2. CASE Next
    BY <1>2, PrRefusedStep, PrBeginStep, WriteInitStep, WriteBeginStep, WritePollStep,
       WriteWordStep, PushCompleteStep, ReturnStep, HwResetStep, HwTakesStep, HwEndsStep
       DEF Next, ThreadRuns, Hardware
  <1> QED BY <1>1, <1>2

\* The inductive invariant holds in every reachable state.
LEMMA Inductive == Spec => []IndInv
  BY InitInv, InductiveStep, PTL DEF Spec

-----------------------------------------------------------------------------
(* The theorems.                                                           *)

\* The state stays well typed; in particular the driver never pushes a word
\* into a full FIFO, however stale its copy of the credits is.
THEOREM PrTypeOK == Spec => []TypeOK
  BY Inductive, PTL DEF IndInv

\* The error code a call returns is the one of its own image.
THEOREM PrStatusIsOwn == Spec => []StatusIsOwn
  BY Inductive, PTL DEF IndInv

\* A call that returns 0 has loaded its whole image, in order, into the port
\* it named, and nothing of a call that timed out before.
THEOREM PrLoadComplete == Spec => LoadComplete
  <1> DEFINE Complete(t) ==
        /\ config[port_id] = [i \in 1..WordsOf(t) |-> <<t, i>>]
        /\ WordsOf(t) * Bandwidth >= size[t]
        /\ pr_error = None /\ pr_start_req = 0
  <1>1. ASSUME IndInv, Next, NEW t \in Threads,
               pc[t] # "idle", pc'[t] = "idle", ret'[t] = "ok"
        PROVE  Complete(t)
    <2>1. Released(t) /\ pr_error = None
      <3>1. /\ pc \in [Threads -> {"idle", "reset", "ready", "start", "write", "complete"}]
            /\ ret \in [Threads -> {"ok", "EIO", "ETIMEDOUT", "refused"}]
        BY <1>1 DEF IndInv, TypeOK
      <3>2. \A u \in Threads : u # t => pc[u] = "idle"
        BY <1>1, Alone
      <3>3. ASSUME NEW u \in Threads, ThreadRuns(u) PROVE u = t
        BY <3>2, <3>3 DEF ThreadRuns, ResetAcked, HostReady, InitTimeout, WriteBegin,
           WritePoll, WriteTimeout, WriteWord, PushComplete, Released, CompleteTimeout
      <3>4. ~(UNCHANGED pc) /\ \A u \in Threads : \A x : pc' = [pc EXCEPT ![u] = x] => u = t /\ x = "idle"
        BY <1>1, <3>1
      <3>5. ~Hardware
        BY <3>4 DEF Hardware, HwReset, HwResetDone, HwTakes, HwError, HwReleases, callVars
      <3>6. ASSUME NEW u \in Threads PROVE ~PrRefused(u)
        BY <3>4 DEF PrRefused
      <3>7. ASSUME NEW u \in Threads, NEW n \in 0..(Width - 1), NEW p \in Ports
            PROVE  ~PrBegin(u, p, n)
        BY <3>4 DEF PrBegin, Goto
      <3>8. ThreadRuns(t)
        BY <1>1, <3>3, <3>5, <3>6, <3>7 DEF Next
      <3>9. /\ ~ResetAcked(t) /\ ~HostReady(t) /\ ~WriteBegin(t) /\ ~PushComplete(t)
            /\ ~WritePoll(t) /\ ~WriteWord(t)
        BY <3>4 DEF ResetAcked, HostReady, WriteBegin, PushComplete, WritePoll, WriteWord,
           Goto, callVars
      <3>10. \A r, s, err : PrEnd(t, r, s, err) => r = "ok"
        BY <1>1, <3>1 DEF PrEnd
      <3>11. ~InitTimeout(t) /\ ~WriteTimeout(t) /\ ~CompleteTimeout(t)
        BY <3>10 DEF InitTimeout, WriteTimeout, CompleteTimeout
      <3>12. Released(t)
        BY <3>8, <3>9, <3>11 DEF ThreadRuns
      <3> QED BY <3>10, <3>12 DEF Released
    <2>2. pc[t] = "complete" /\ pr_start_req = 0
      BY <2>1 DEF Released
    <2>3. /\ config[port_id] \in Seq(Words) /\ Pushed(t, WordsOf(t) - count) /\ count = 0
          /\ WordsOf(t) \in Nat /\ fifo = <<>>
      BY <1>1, <2>2, Writing DEF IndInv, EngineInv
    <2>4. PICK c \in Seq(Words) : c = config[port_id]
      BY <2>3
    <2>5. Len(c) = WordsOf(t) /\ \A i \in 1..Len(c) : c[i] = <<t, i>>
      <3>1. Len(fifo) = 0 /\ Len(c) \in Nat
        BY <2>3
      <3>2. Len(c) + Len(fifo) = WordsOf(t) - count
        BY <2>3, <2>4 DEF Pushed
      <3>3. \A i \in 1..Len(c) : c[i] = <<t, i>>
        BY <2>3, <2>4 DEF Pushed
      <3>4. count = 0 /\ WordsOf(t) \in Nat
        BY <2>3
      <3> QED BY <3>1, <3>2, <3>3, <3>4
    <2>6. c = [i \in 1..WordsOf(t) |-> <<t, i>>]
      <3>1. c = [i \in 1..Len(c) |-> c[i]]
        BY LenProperties
      <3> QED BY <2>5, <3>1
    <2>7. WordsOf(t) * Bandwidth >= size[t]
      BY <1>1, WordsType DEF IndInv
    <2> QED BY <2>1, <2>2, <2>4, <2>6, <2>7
  <1>2. IndInv /\ [Next]_vars =>
          [\A t \in Threads : pc[t] # "idle" /\ pc'[t] = "idle" /\ ret'[t] = "ok" =>
             Complete(t)]_vars
    BY <1>1
  <1> QED BY <1>2, Inductive, PTL DEF Spec, LoadComplete
=============================================================================
