-------------------------------- MODULE FmePr --------------------------------
(***************************************************************************)
(* Partial reconfiguration: the FPGA_FME_PORT_PR ioctl (fme-pr.c) driving  *)
(* the FPGA manager (fpga-mgr.c) and, through it, the PR engine.           *)
(*                                                                         *)
(* A call holds the FME's pdata->lock from end to end.  It resets the      *)
(* engine, waits for it to be idle, pushes the words of the image as long  *)
(* as the engine has credits, and waits for the engine to release the      *)
(* region.  Each wait may time out, and then the call returns while the    *)
(* engine may still be at work: the next call has to cope.  Disabling and  *)
(* enabling the port around the load is in PortReset.                      *)
(*                                                                         *)
(* The engine is external.  It is modelled by what the driver relies on: a *)
(* reset empties its FIFO and stops the load, it is idle when nothing is   *)
(* left to do, and it clears pr_start_req when the pushed image is loaded. *)
(***************************************************************************)
EXTENDS Naturals, Sequences, FiniteSets

CONSTANTS Threads, Ports,
          None,        \* no thread, no error
          Bandwidth,   \* fme->pr_bandwidth: bytes per word
          Width,       \* buffer_size is an unsigned number below Width
          Credits,     \* words that fit in the engine's FIFO
          MaxDelay     \* PR_WAIT_TIMEOUT, in polls of pr_credit

ASSUME PrAssumption ==
  /\ {Bandwidth, Width, Credits} \subseteq Nat \ {0}
  /\ MaxDelay \in Nat
  /\ Width % Bandwidth = 0
  /\ None \notin Threads

VARIABLES
  lock,                    \* holder of the FME's pdata->lock
  pc, ret, status,         \* each thread's call, its result, its status field
  size,                    \* buffer_size of each thread's call
  pr_err, port_id,         \* fields of struct fpga_fme
  mgr_state,               \* mgr->state
  count, pr_credit, delay, \* local variables of fme_pr_write, count in words
  pr_reset, pr_reset_ack, pr_start_req, pr_push_complete, pr_regionid, pr_error,
  loader,                  \* the thread whose load the engine works on
  fifo, config             \* words not loaded yet; words each port was loaded with

callVars == <<lock, pc, ret, status, size>>
drvVars == <<pr_err, port_id, mgr_state, count, pr_credit, delay>>
ctlVars == <<pr_reset, pr_reset_ack, pr_start_req, pr_push_complete, pr_regionid>>
hwVars == <<ctlVars, pr_error, loader, fifo, config>>
vars == <<callVars, drvVars, hwVars>>

Words == Threads \X (1..Width)

\* Every variable keeps its type, and a word of the engine's FIFO stays free
\* while an image is pushed: the driver's copy of the credits never promises more
\* than the engine has.
TypeOK ==
  /\ lock \in Threads \cup {None}
  /\ pc \in [Threads -> {"idle", "reset", "ready", "start", "write", "complete"}]
  /\ ret \in [Threads -> {"ok", "EIO", "ETIMEDOUT", "refused"}]
  /\ status \in [Threads -> Threads \cup {None}]
  /\ size \in [Threads -> 0..(Width - 1)]
  /\ pr_err \in Threads \cup {None}
  /\ {port_id, pr_regionid} \subseteq Ports
  /\ mgr_state \in {"unknown", "write init", "write init error", "write", "write error",
                    "write complete", "write complete error", "operating"}
  /\ count \in 0..Width /\ pr_credit \in 0..Credits /\ delay \in 0..(MaxDelay + 1)
  /\ {pr_reset, pr_reset_ack, pr_start_req, pr_push_complete} \subseteq {0, 1}
  /\ {pr_error, loader} \subseteq Threads \cup {None}
  /\ fifo \in Seq(Words) /\ Len(fifo) < Credits
  /\ \A p \in Ports : config[p] \in Seq(Words)

Init ==
  /\ lock = None
  /\ pc = [t \in Threads |-> "idle"]
  /\ ret = [t \in Threads |-> "ok"]
  /\ status = [t \in Threads |-> None]
  /\ size = [t \in Threads |-> 0]
  /\ pr_err = None
  /\ port_id \in Ports /\ pr_regionid = port_id
  /\ mgr_state = "unknown"
  /\ count = 0 /\ pr_credit = 0 /\ delay = 0
  /\ pr_reset = 0 /\ pr_reset_ack = 0 /\ pr_start_req = 0 /\ pr_push_complete = 0
  /\ pr_error = None /\ loader = None
  /\ fifo = <<>>
  /\ config = [p \in Ports |-> <<>>]

-----------------------------------------------------------------------------
(* fme_pr.                                                                 *)

\* ALIGN(buffer_size, pr_bandwidth), in the width of buffer_size.
aligned(n) == (((n + Bandwidth - 1) \div Bandwidth) * Bandwidth) % Width

Goto(t, to) == pc' = [pc EXCEPT ![t] = to]

\* vzalloc(0) gives no buffer; it may also fail, as may the copy of the image
\* and fpga_mgr_get.  The status field goes back to the user as it came: zero,
\* or what an earlier call left there.
PrRefused(t) ==
  /\ pc[t] = "idle" /\ lock = None
  /\ ret' = [ret EXCEPT ![t] = "refused"]
  /\ \/ status' = [status EXCEPT ![t] = None]
     \/ UNCHANGED status
  /\ UNCHANGED <<lock, pc, size, drvVars, hwVars>>

\* The image is in the buffer and the manager is ours: fme_pr_write_init
\* starts by resetting the engine.
PrBegin(t, p, n) ==
  /\ pc[t] = "idle" /\ lock = None
  /\ aligned(n) # 0
  /\ lock' = t
  /\ size' = [size EXCEPT ![t] = n]
  /\ pr_err' = None
  /\ port_id' = p
  /\ count' = aligned(n) \div Bandwidth
  /\ mgr_state' = "write init"
  /\ pr_reset' = 1
  /\ Goto(t, "reset")
  /\ UNCHANGED <<ret, status, pr_credit, delay, pr_reset_ack, pr_start_req,
                 pr_push_complete, pr_regionid, pr_error, loader, fifo, config>>

\* fpga_mgr_buf_load returns r with the manager in state s; fme_pr copies
\* pr_err to the status field and returns.  Its local variables are gone.
PrEnd(t, r, s, err) ==
  /\ mgr_state' = s
  /\ pr_err' = err
  /\ ret' = [ret EXCEPT ![t] = r]
  /\ status' = [status EXCEPT ![t] = err]
  /\ lock' = None
  /\ size' = [size EXCEPT ![t] = 0]
  /\ count' = 0 /\ pr_credit' = 0 /\ delay' = 0
  /\ Goto(t, "idle")

\* Mutant: errors that are already there are kept.
ErrorsKept == UNCHANGED pr_error

\* pr_err_handle: the errors read are written back, which clears them.
pr_err_handle == pr_error' = None

-----------------------------------------------------------------------------
(* fme_pr_write_init.                                                      *)

ResetAcked(t) ==
  /\ pc[t] = "reset" /\ pr_reset_ack = 1
  /\ pr_reset' = 0
  /\ Goto(t, "ready")
  /\ UNCHANGED <<lock, ret, status, size, drvVars, pr_reset_ack, pr_start_req,
                 pr_push_complete, pr_regionid, pr_error, loader, fifo, config>>

\* pr_host_status is PR_HOST_STATUS_IDLE.
HostIdle ==
  pr_reset = 0 /\ pr_reset_ack = 0 /\ pr_start_req = 0 /\ fifo = <<>>

HostReady(t) ==
  /\ pc[t] = "ready" /\ HostIdle
  /\ pr_err_handle
  /\ Goto(t, "start")
  /\ UNCHANGED <<lock, ret, status, size, drvVars, ctlVars, loader, fifo, config>>

InitTimeout(t) ==
  /\ pc[t] \in {"reset", "ready"}
  /\ PrEnd(t, "ETIMEDOUT", "write init error", pr_err)
  /\ UNCHANGED <<port_id, hwVars>>

-----------------------------------------------------------------------------
(* fme_pr_write.                                                           *)

FreeCredits == Credits - Len(fifo)

WriteBegin(t) ==
  /\ pc[t] = "start"
  /\ mgr_state' = "write"
  /\ pr_start_req' = 1
  /\ pr_regionid' = port_id
  /\ loader' = t
  /\ config' = [config EXCEPT ![port_id] = <<>>]
  /\ pr_credit' = FreeCredits
  /\ delay' = 0
  /\ Goto(t, "write")
  /\ UNCHANGED <<lock, ret, status, size, pr_err, port_id, count, pr_reset,
                 pr_reset_ack, pr_push_complete, pr_error, fifo>>

\* Mutant: the polls are not counted.
WritePollUncounted(t) ==
  /\ pc[t] = "write" /\ count > 0 /\ pr_credit <= 1 /\ delay <= MaxDelay
  /\ pr_credit' = FreeCredits
  /\ UNCHANGED <<callVars, pr_err, port_id, mgr_state, count, delay, hwVars>>

\* The delay is counted over the whole image, not per word.
WritePoll(t) ==
  /\ pc[t] = "write" /\ count > 0 /\ pr_credit <= 1 /\ delay <= MaxDelay
  /\ delay' = delay + 1
  /\ pr_credit' = FreeCredits
  /\ UNCHANGED <<callVars, pr_err, port_id, mgr_state, count, hwVars>>

WriteTimeout(t) ==
  /\ pc[t] = "write" /\ count > 0 /\ pr_credit <= 1 /\ delay > MaxDelay
  /\ PrEnd(t, IF pr_error = None THEN "ETIMEDOUT" ELSE "EIO", "write error", pr_error)
  /\ pr_err_handle
  /\ UNCHANGED <<port_id, ctlVars, loader, fifo, config>>

\* The words of the image of t, and the position of the next one.
WordsOf(t) == (size[t] + Bandwidth - 1) \div Bandwidth

\* Mutant: the credit of a word is not taken off.
WriteWordFree(t) ==
  /\ pc[t] = "write" /\ count > 0 /\ pr_credit > 1
  /\ fifo' = Append(fifo, <<t, WordsOf(t) - count + 1>>)
  /\ count' = count - 1
  /\ UNCHANGED <<callVars, pr_err, port_id, mgr_state, pr_credit, delay, ctlVars,
                 pr_error, loader, config>>

WriteWord(t) ==
  /\ pc[t] = "write" /\ count > 0 /\ pr_credit > 1
  /\ fifo' = Append(fifo, <<t, WordsOf(t) - count + 1>>)
  /\ count' = count - 1
  /\ pr_credit' = pr_credit - 1
  /\ UNCHANGED <<callVars, pr_err, port_id, mgr_state, delay, ctlVars, pr_error,
                 loader, config>>

-----------------------------------------------------------------------------
(* fme_pr_write_complete.                                                  *)

PushComplete(t) ==
  /\ pc[t] = "write" /\ count = 0
  /\ mgr_state' = "write complete"
  /\ pr_push_complete' = 1
  /\ Goto(t, "complete")
  /\ UNCHANGED <<lock, ret, status, size, pr_err, port_id, count, pr_credit, delay,
                 pr_reset, pr_reset_ack, pr_start_req, pr_regionid, pr_error, loader,
                 fifo, config>>

\* Mutant: the errors are not looked at.
ReleasedUnchecked(t) ==
  /\ pc[t] = "complete" /\ pr_start_req = 0
  /\ PrEnd(t, "ok", "operating", None)
  /\ pr_err_handle
  /\ UNCHANGED <<port_id, ctlVars, loader, fifo, config>>

Released(t) ==
  /\ pc[t] = "complete" /\ pr_start_req = 0
  /\ IF pr_error = None
     THEN PrEnd(t, "ok", "operating", None)
     ELSE PrEnd(t, "EIO", "write complete error", pr_error)
  /\ pr_err_handle
  /\ UNCHANGED <<port_id, ctlVars, loader, fifo, config>>

CompleteTimeout(t) ==
  /\ pc[t] = "complete"
  /\ PrEnd(t, "ETIMEDOUT", "write complete error", pr_err)
  /\ UNCHANGED <<port_id, hwVars>>

-----------------------------------------------------------------------------
(* The PR engine.                                                          *)

HwReset ==
  /\ pr_reset = 1 /\ pr_reset_ack = 0
  /\ pr_reset_ack' = 1
  /\ pr_start_req' = 0
  /\ pr_push_complete' = 0
  /\ loader' = None
  /\ fifo' = <<>>
  /\ UNCHANGED <<callVars, drvVars, pr_reset, pr_regionid, pr_error, config>>

HwResetDone ==
  /\ pr_reset = 0 /\ pr_reset_ack = 1
  /\ pr_reset_ack' = 0
  /\ UNCHANGED <<callVars, drvVars, pr_reset, pr_start_req, pr_push_complete,
                 pr_regionid, pr_error, loader, fifo, config>>

Loading == pr_start_req = 1

HwTakes ==
  /\ Loading /\ fifo # <<>>
  /\ config' = [config EXCEPT ![pr_regionid] = Append(@, Head(fifo))]
  /\ fifo' = Tail(fifo)
  /\ UNCHANGED <<callVars, drvVars, ctlVars, pr_error, loader>>

\* The engine finds an error in the image of the load.
HwError ==
  /\ Loading /\ pr_error = None
  /\ pr_error' = loader
  /\ UNCHANGED <<callVars, drvVars, ctlVars, loader, fifo, config>>

HwReleases ==
  /\ Loading /\ pr_push_complete = 1 /\ fifo = <<>>
  /\ pr_start_req' = 0
  /\ pr_push_complete' = 0
  /\ loader' = None
  /\ UNCHANGED <<callVars, drvVars, pr_reset, pr_reset_ack, pr_regionid, pr_error, fifo,
                 config>>

-----------------------------------------------------------------------------
ThreadRuns(t) ==
  \/ ResetAcked(t) \/ HostReady(t) \/ InitTimeout(t)
  \/ WriteBegin(t) \/ WritePoll(t) \/ WriteTimeout(t) \/ WriteWord(t)
  \/ PushComplete(t) \/ Released(t) \/ CompleteTimeout(t)

Hardware == HwReset \/ HwResetDone \/ HwTakes \/ HwError \/ HwReleases

Next ==
  \/ \E t \in Threads :
       \/ PrRefused(t)
       \/ \E n \in 0..(Width - 1), p \in Ports : PrBegin(t, p, n)
       \/ ThreadRuns(t)
  \/ Hardware

\* A call in progress keeps running; nothing is assumed of the engine.
Spec == Init /\ [][Next]_vars /\ \A t \in Threads : WF_vars(ThreadRuns(t))

-----------------------------------------------------------------------------
(* Properties.                                                             *)

\* A load that returns 0 is in the port the caller named, whole, in order and
\* padded to the bandwidth, with no error raised, and the engine has let go of
\* it: nothing of an earlier call that timed out is mixed into it.
LoadComplete ==
  [][\A t \in Threads :
       pc[t] # "idle" /\ pc'[t] = "idle" /\ ret'[t] = "ok" =>
         /\ config[port_id] = [i \in 1..WordsOf(t) |-> <<t, i>>]
         /\ WordsOf(t) * Bandwidth >= size[t]
         /\ pr_error = None /\ pr_start_req = 0]_vars

\* A call that reached the engine reports its own image: with EIO the error code is
\* the one of this call's image and never one an earlier load left in the registers;
\* success and timeouts report none.  Nor does a call that fme_pr refuses before the
\* load ever see the code of another's image, but it hands back what its caller
\* passed: after an EIO of the same caller that is not zero, although the ioctl's
\* documentation says that without EIO "it is always zero".
StatusIsOwn ==
  \A t \in Threads :
    /\ ret[t] = "EIO" => status[t] = t
    /\ ret[t] \in {"ok", "ETIMEDOUT"} => status[t] = None
    /\ status[t] \in {None, t}

\* Every call returns, whatever the engine does: each of its waits has an end.
PrReturns == \A t \in Threads : pc[t] # "idle" ~> pc[t] = "idle"
=============================================================================
