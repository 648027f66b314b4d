------------------------------ MODULE Onedram ------------------------------
(***************************************************************************)
(* The semaphore protocol of the OneDRAM driver (drivers/onedram/onedram.c)*)
(* with the clients that use it: the svnet workqueue thread and svnet's    *)
(* debug readers (drivers/svnet/sipc4.c), the users of the device node     *)
(* (ioctl, mmap, write), the AP's mailbox interrupt handler, and the modem *)
(* (CP), which runs on a processor of its own and is not in the repository.*)
(*                                                                         *)
(* The kernel is built for one CPU with CONFIG_PREEMPT_NONE, so a thread in*)
(* the kernel loses the CPU only where it sleeps or returns to user space, *)
(* while the interrupt handler may run between any two of its steps.       *)
(***************************************************************************)
EXTENDS Naturals, FiniteSets

CONSTANTS Workers,     \* svnetd: sipc_read and sipc_write
          Debuggers,   \* readers of svnet's sysfs files: _debug_show_buf
          Users,       \* processes that use the device node
          MaxRetry,    \* requests repeated before -ETIMEDOUT (50 in the code)
          MaxOps,      \* bound on the operations of Debuggers and Users
          CpMails,     \* the kinds of mail the modem sends
          MmapFails,   \* may onedram_mmap fail after it has counted itself?
          CpRetries    \* does the modem repeat its REQ_SEM?

Svnet   == Workers \cup Debuggers
Clients == Svnet \cup Users

ASSUME OnedramAssumption ==
    /\ IsFiniteSet(Clients)
    /\ Workers \cap Debuggers = {}
    /\ Svnet \cap Users = {}
    /\ MaxRetry \in Nat
    /\ MaxOps \in Nat
    /\ CpMails \subseteq {"REQ_SEM", "RES_SEM", "PHONE_START", "DATA"}
    /\ "REQ_SEM" \in CpMails
    /\ MmapFails \in BOOLEAN
    /\ CpRetries \in BOOLEAN

VARIABLES sem,      \* reg->sem: 1 when the AP owns the bank, 0 when the CP does
          ref,      \* od->ref_sem
          done,     \* od->comp is complete (complete_all since INIT_COMPLETION)
          odRel,    \* si->od_rel: the CP's request is deferred to the next put
          mbBA,     \* reg->mailbox_BA, AP to CP; "none" once the CP has read it
          mbAB,     \* reg->mailbox_AB, CP to AP, and with it the interrupt: a mail
                    \* the AP has not read, or "none"
          hpc,      \* where the interrupt handler stands
          hmail,    \* the mail it handles
          pc,       \* where each client stands
          retry,    \* `retry' of each client's _get_auth
          work,     \* an event is queued for svnetd
          ops,      \* operations that Debuggers and Users may still start
          cpWant    \* the CP waits for the bank

vars == <<sem, ref, done, odRel, mbBA, mbAB, hpc, hmail, pc, retry, work,
          ops, cpWant>>
cpSide  == <<mbAB, cpWant>>
handler == <<hpc, hmail>>

ApMails == {"REQ_SEM", "RES_SEM", "INIT_END", "DATA"}

\* A client sleeping in wait_for_completion_timeout, holding the authority
\* (user space, or an allocation or pdp_mutex in sipc_read) or outside the
\* driver does not have the CPU; at every other place it has.
OffCpu == {"idle", "sleep", "hold"}
OnCpu  == {"send", "test", "fail", "chk", "ini", "rel", "mail", "clr", "data"}

\* ref_sem is raised in these places.
CountedPcs == {"send", "sleep", "test", "fail", "hold"}
Counted    == {t \in Clients : pc[t] \in CountedPcs}

\* One CPU, no kernel preemption: t may run when the handler does not and no
\* other client is in the kernel without sleeping.
MayRun(t) == /\ hpc = "idle"
             /\ \A u \in Clients \ {t} : pc[u] \in OffCpu

Goto(t, from, to) == /\ pc[t] = from
                     /\ pc' = [pc EXCEPT ![t] = to]

\* Debuggers and Users start a bounded number of operations.
Start(t) == IF t \in Workers THEN UNCHANGED ops
                             ELSE ops > 0 /\ ops' = ops - 1
-----------------------------------------------------------------------------
(* Obtaining the authority. *)

\* onedram_probe leaves nothing counted, nothing complete, an empty mailbox;
\* the semaphore is as the boot loader left it.
Init == /\ sem \in {0, 1}
        /\ ref = 0
        /\ done = FALSE
        /\ odRel = FALSE
        /\ mbBA = "none"
        /\ mbAB = "none"
        /\ hpc = "idle"
        /\ hmail = "none"
        /\ pc = [t \in Clients |-> "idle"]
        /\ retry = [t \in Clients |-> 0]
        /\ work = FALSE
        /\ ops = MaxOps
        /\ cpWant = FALSE

\* Mutant: the fast path of get_auth returns before it has counted.
GetAuthUncounted(t) == /\ MayRun(t)
                       /\ Start(t)
                       /\ Goto(t, "idle", IF sem = 1 THEN "hold" ELSE "send")
                       /\ ref' = IF sem = 1 THEN ref ELSE ref + 1
                       /\ retry' = [retry EXCEPT ![t] = 0]
                       /\ work' = (work /\ t \notin Workers)
                       /\ UNCHANGED <<sem, done, odRel, mbBA, cpSide, handler>>

\* get_auth with a command: count, return at once if the AP owns the bank,
\* enter the request loop of _get_auth otherwise. svnetd starts on a queued
\* event (svnet_read_wq) or on a packet to send (svnet_write_wq).
GetAuth(t) == /\ MayRun(t)
              /\ Start(t)
              /\ Goto(t, "idle", IF sem = 1 THEN "hold" ELSE "send")
              /\ ref' = ref + 1
              /\ retry' = [retry EXCEPT ![t] = 0]
              /\ work' = (work /\ t \notin Workers)
              /\ UNCHANGED <<sem, done, odRel, mbBA, cpSide, handler>>

\* Top of the loop: send the command, and wait for the completion. The wait
\* returns at once when the completion is already done.
SendCmd(t) == /\ MayRun(t)
              /\ Goto(t, "send", IF done THEN "test" ELSE "sleep")
              /\ mbBA' = "REQ_SEM"
              /\ UNCHANGED <<sem, ref, done, odRel, cpSide, handler, retry, work, ops>>

\* wait_for_completion_timeout returns: completed, or HZ/50 have passed.
Wake(t) == /\ MayRun(t)
           /\ Goto(t, "sleep", "test")
           /\ UNCHANGED <<sem, ref, done, odRel, mbBA, cpSide, handler, retry, work, ops>>

\* Mutant: the test of the wait's result, compiled out in the code, is back.
TestTimeleft(t) == /\ MayRun(t)
                   /\ \/ /\ sem = 1 \/ done
                         /\ Goto(t, "test", "hold")
                         /\ UNCHANGED retry
                      \/ /\ sem = 0 /\ ~done
                         /\ Goto(t, "test", IF retry[t] + 1 > MaxRetry
                                            THEN "fail" ELSE "send")
                         /\ retry' = [retry EXCEPT ![t] = @ + 1]
                   /\ UNCHANGED <<sem, ref, done, odRel, mbBA, cpSide, handler,
                                  work, ops>>

\* Bottom of the loop: only the semaphore decides; the result of the wait is
\* not looked at.
TestSem(t) == /\ MayRun(t)
              /\ \/ /\ sem = 1
                    /\ Goto(t, "test", "hold")
                    /\ UNCHANGED retry
                 \/ /\ sem = 0
                    /\ Goto(t, "test",
                            IF retry[t] + 1 > MaxRetry THEN "fail" ELSE "send")
                    /\ retry' = [retry EXCEPT ![t] = @ + 1]
              /\ UNCHANGED <<sem, ref, done, odRel, mbBA, cpSide, handler, work, ops>>

\* Mutant: get_auth's error path forgets the reference.
GetFailsLeaks(t) == /\ MayRun(t)
                    /\ Goto(t, "fail", "idle")
                    /\ retry' = [retry EXCEPT ![t] = 0]
                    /\ UNCHANGED <<sem, ref, done, odRel, mbBA, cpSide, handler,
                                   work, ops>>

\* get_auth's error path.
GetFails(t) == /\ MayRun(t)
               /\ Goto(t, "fail", "idle")
               /\ ref' = ref - 1
               /\ retry' = [retry EXCEPT ![t] = 0]
               /\ UNCHANGED <<sem, done, odRel, mbBA, cpSide, handler, work, ops>>
-----------------------------------------------------------------------------
(* Giving it back. *)

\* Mutant: the device node's users leave without put_auth.
PutAuthSvnet(t) == /\ MayRun(t)
                   /\ Goto(t, "hold", IF t \in Users THEN "idle" ELSE "chk")
                   /\ ref' = IF t \in Users THEN ref ELSE ref - 1
                   /\ odRel' = (odRel \/ t \in Workers)
                   /\ retry' = [retry EXCEPT ![t] = 0]
                   /\ UNCHANGED <<sem, done, mbBA, cpSide, handler, work, ops>>

\* put_auth(od, 0). sipc_read and sipc_write call _req_rel_auth first. The
\* device node's users (ioctl, vm_close) are done here; svnet goes on in
\* _put_auth. No caller passes release = 1, so bit 0 of od->flags stays clear
\* and put_auth itself never releases the semaphore.
PutAuth(t) == /\ MayRun(t)
              /\ Goto(t, "hold", IF t \in Users THEN "idle" ELSE "chk")
              /\ ref' = ref - 1
              /\ odRel' = (odRel \/ t \in Workers)
              /\ retry' = [retry EXCEPT ![t] = 0]
              /\ UNCHANGED <<sem, done, mbBA, cpSide, handler, work, ops>>

\* svnet's operation has nothing more to do with the semaphore: sipc_read
\* and sipc_write may still have a mail for the CP.
Finish(t) == IF t \in Workers THEN "data" ELSE "idle"

\* _put_auth: is a release deferred, and does rel_sem find no reference?
CheckRel(t) == /\ MayRun(t)
               /\ Goto(t, "chk", IF odRel /\ ref = 0 THEN "ini" ELSE Finish(t))
               /\ UNCHANGED <<sem, ref, done, odRel, mbBA, cpSide, handler, retry,
                              work, ops>>

\* rel_sem, first half: INIT_COMPLETION.
InitCompletion(t) == /\ MayRun(t)
                     /\ Goto(t, "ini", "rel")
                     /\ done' = FALSE
                     /\ UNCHANGED <<sem, ref, odRel, mbBA, cpSide, handler, retry,
                                    work, ops>>

\* rel_sem, second half: _write_sem(od, 0).
WriteSem(t) == /\ MayRun(t)
               /\ Goto(t, "rel", IF t \in Users THEN "idle" ELSE "mail")
               /\ sem' = 0
               /\ UNCHANGED <<ref, done, odRel, mbBA, cpSide, handler, retry, work, ops>>

\* _put_auth tells the CP ...
MailRes(t) == /\ MayRun(t)
              /\ Goto(t, "mail", "clr")
              /\ mbBA' = "RES_SEM"
              /\ UNCHANGED <<sem, ref, done, odRel, cpSide, handler, retry, work, ops>>

\* ... and forgets the request.
ClearRel(t) == /\ MayRun(t)
               /\ Goto(t, "clr", Finish(t))
               /\ odRel' = FALSE
               /\ UNCHANGED <<sem, ref, done, mbBA, cpSide, handler, retry, work, ops>>

\* Tail of sipc_read and sipc_write: a data mail if there is something to
\* tell, overwriting what the CP has not read yet.
MailData(t) == /\ MayRun(t)
               /\ Goto(t, "data", "idle")
               /\ mbBA' \in {mbBA, "DATA"}
               /\ UNCHANGED <<sem, ref, done, odRel, cpSide, handler, retry, work, ops>>
-----------------------------------------------------------------------------
(* Other operations of the device node. *)

\* onedram_mmap counts the mapping when the AP owns the bank (-EPERM
\* otherwise). A failure after that returns without uncounting.
Mmap(t) == /\ MayRun(t)
           /\ sem = 1
           /\ Start(t)
           /\ \/ Goto(t, "idle", "hold")
              \/ MmapFails /\ Goto(t, "idle", "idle")
           /\ ref' = ref + 1
           /\ UNCHANGED <<sem, done, odRel, mbBA, cpSide, handler, retry, work>>

\* ioctl ONEDRAM_REL_SEM: rel_sem, -EBUSY when something is counted.
IoctlRel(t) == /\ MayRun(t)
               /\ ref = 0
               /\ Start(t)
               /\ Goto(t, "idle", "ini")
               /\ UNCHANGED <<sem, ref, done, odRel, mbBA, cpSide, handler, retry, work>>

\* onedram_write: any mail a user wants to send.
WriteMail(t) == /\ MayRun(t)
                /\ Start(t)
                /\ Goto(t, "idle", "idle")
                /\ mbBA' \in ApMails
                /\ UNCHANGED <<sem, ref, done, odRel, cpSide, handler, retry, work>>
-----------------------------------------------------------------------------
(* onedram_irq_handler and sipc_handler, which it calls. It interrupts any *)
(* client; no client runs before it returns.                               *)

\* Reading mailbox_AB clears the interrupt. Commands go through _check_buffer
\* and _do_command; data is queued for svnetd.
HandlerReads == /\ hpc = "idle"
                /\ mbAB # "none"
                /\ mbAB' = "none"
                /\ hmail' = mbAB
                /\ hpc' = IF mbAB = "DATA" THEN "wake" ELSE "check"
                /\ work' = (work \/ mbAB = "DATA")
                /\ UNCHANGED <<sem, ref, done, odRel, mbBA, pc, retry, ops, cpWant>>

\* Mutant: rel_sem does not look at ref_sem.
HandlerReleasesAny == /\ done' = FALSE
                      /\ sem' = 0
                      /\ mbBA' = "RES_SEM"

\* What rel_sem and the RES_SEM mail do in the handler: no client runs in
\* between.
HandlerReleases == /\ ref = 0
                   /\ done' = FALSE
                   /\ sem' = 0
                   /\ mbBA' = "RES_SEM"

\* _check_buffer: get_auth(0) fails when the CP owns the bank; otherwise look
\* at the rings and _put_auth, which carries out a deferred release. The
\* count goes up and down within this step. Data found is queued for svnetd.
CheckBuffer == /\ hpc = "check"
               /\ hpc' = "command"
               /\ IF sem = 1 /\ odRel /\ ref = 0
                  THEN HandlerReleases /\ odRel' = FALSE
                  ELSE UNCHANGED <<sem, done, mbBA, odRel>>
               /\ work' \in IF sem = 1 THEN {work, TRUE} ELSE {work}
               /\ UNCHANGED <<ref, hmail, cpSide, pc, retry, ops>>

\* Mutant: a busy rel_sem is not followed by _req_rel_auth.
DoCommandForgets == /\ hpc = "command"
                    /\ hpc' = "wake"
                    /\ IF hmail = "REQ_SEM" /\ ref = 0
                       THEN HandlerReleases
                       ELSE UNCHANGED <<sem, done, mbBA>>
                    /\ UNCHANGED <<ref, odRel, hmail, cpSide, pc, retry, work,
                                   ops>>

\* _do_command. RESET and ERR_DISPLAY only queue an event, like RES_SEM they
\* leave this state alone.
DoCommand == /\ hpc = "command"
             /\ hpc' = "wake"
             /\ \/ /\ hmail = "REQ_SEM"
                   /\ HandlerReleases
                   /\ UNCHANGED odRel
                \/ /\ hmail = "REQ_SEM"
                   /\ ref # 0
                   /\ odRel' = TRUE
                   /\ UNCHANGED <<sem, done, mbBA>>
                \/ /\ hmail = "PHONE_START"
                   /\ mbBA' = "INIT_END"
                   /\ UNCHANGED <<sem, done, odRel>>
                \/ /\ hmail \notin {"REQ_SEM", "PHONE_START"}
                   /\ UNCHANGED <<sem, done, mbBA, odRel>>
             /\ UNCHANGED <<ref, hmail, cpSide, pc, retry, work, ops>>

\* Tail of the interrupt handler: complete_all if the AP owns the bank.
HandlerWakes == /\ hpc = "wake"
                /\ hpc' = "idle"
                /\ hmail' = "none"
                /\ done' = (done \/ sem = 1)
                /\ UNCHANGED <<sem, ref, odRel, mbBA, cpSide, pc, retry, work, ops>>
-----------------------------------------------------------------------------
(* The modem, as far as the AP's code depends on it: it changes sem only   *)
(* while it owns the bank, and only to hand it over. It may write its      *)
(* mailbox at any time, over a mail the AP has not read too.               *)

cpUnchanged == <<sem, ref, done, odRel, mbBA, handler, pc, retry, work, ops>>

CpGrants == /\ sem = 0
            /\ ~cpWant
            /\ sem' = 1
            /\ UNCHANGED <<ref, done, odRel, mbBA, cpSide, handler, pc, retry, work, ops>>

CpWrites(m) == /\ mbAB' = m
               /\ UNCHANGED cpUnchanged

CpSends(m) == /\ m # "REQ_SEM"
              /\ CpRetries \/ mbAB = "none"
              /\ CpWrites(m)
              /\ UNCHANGED cpWant

CpAsks == /\ sem = 1
          /\ ~cpWant
          /\ CpRetries \/ mbAB = "none"
          /\ cpWant' = TRUE
          /\ CpWrites("REQ_SEM")

CpAsksAgain == /\ CpRetries
               /\ sem = 1
               /\ cpWant
               /\ CpWrites("REQ_SEM")
               /\ UNCHANGED cpWant

CpGets == /\ cpWant
          /\ sem = 0
          /\ cpWant' = FALSE
          /\ UNCHANGED <<cpUnchanged, mbAB>>

CpReads == /\ mbBA # "none"
           /\ mbBA' = "none"
           /\ UNCHANGED <<sem, ref, done, odRel, cpSide, handler, pc, retry, work, ops>>
-----------------------------------------------------------------------------
\* The steps that end an operation once it has begun.
Proceed(t) == \/ SendCmd(t) \/ Wake(t) \/ TestSem(t) \/ GetFails(t)
              \/ PutAuth(t) \/ CheckRel(t) \/ InitCompletion(t)
              \/ WriteSem(t) \/ MailRes(t) \/ ClearRel(t) \/ MailData(t)

UserOp(t) == Mmap(t) \/ IoctlRel(t) \/ WriteMail(t)

Handler == HandlerReads \/ CheckBuffer \/ DoCommand \/ HandlerWakes

Cp == \/ CpGrants \/ CpAsks \/ CpAsksAgain \/ CpGets \/ CpReads
      \/ \E m \in CpMails : CpSends(m)

Next == \/ \E t \in Clients : GetAuth(t) \/ Proceed(t)
        \/ \E t \in Users : UserOp(t)
        \/ Handler
        \/ Cp

Spec == Init /\ [][Next]_vars

\* An interrupt is served and returns to what it interrupted, the scheduler
\* runs every client that can run again and again, clients give back what
\* they hold, svnetd takes up queued events. The CP notices that it got the
\* bank; if it is one that repeats its request, it does, and not each of its
\* requests finds the handler busy or is overwritten by its own next mail.
\* Nobody else has to begin an operation.
Fairness == /\ WF_vars(Handler)
            /\ \A t \in Clients : SF_vars(Proceed(t))
            /\ \A t \in Workers : SF_vars(work /\ GetAuth(t))
            /\ WF_vars(CpGets)
            /\ SF_vars(hpc = "idle" /\ CpAsksAgain)
            /\ SF_vars(mbAB = "REQ_SEM" /\ HandlerReads)

FairSpec == Spec /\ Fairness
-----------------------------------------------------------------------------
(* Properties. *)

\* Every variable keeps its type; ref_sem never drops below zero, whatever
\* the order of gets, failed gets, puts and interrupts.
TypeOK == /\ sem \in {0, 1}
          /\ ref \in Nat
          /\ done \in BOOLEAN
          /\ odRel \in BOOLEAN
          /\ mbBA \in ApMails \cup {"none"}
          /\ mbAB \in CpMails \cup {"none"}
          /\ hpc \in {"idle", "check", "command", "wake"}
          /\ hmail \in CpMails \cup {"none"}
          /\ pc \in [Clients -> OffCpu \cup OnCpu]
          /\ retry \in [Clients -> Nat]
          /\ work \in BOOLEAN
          /\ ops \in Nat
          /\ cpWant \in BOOLEAN

\* Whoever holds the authority (between a successful get_auth or mmap and its
\* put_auth) works on memory the AP owns: no release by another client, by the
\* interrupt handler or by a rel_sem already under way takes it away.
AccessUnderAuthority == \A t \in Clients : pc[t] = "hold" => sem = 1

\* ref_sem is the number of clients inside get_auth .. put_auth, unless an
\* mmap has failed: no error path or interleaving loses or repeats a count.
RefCounts == ~MmapFails => ref = Cardinality(Counted)

\* The driver implements OnedramAuth: a client acquires only a bank that the
\* AP owns, and the AP hands over only a bank nobody uses.
Auth == INSTANCE OnedramAuth
            WITH owner <- IF sem = 1 THEN "AP" ELSE "CP",
                 users <- {t \in Clients : pc[t] = "hold"}

AuthSpec == Auth!Spec

\* A CP that asks for the bank gets it, also when the AP has to defer.
CpServed == cpWant ~> ~cpWant

\* A REQ_SEM that finds svnet using the bank is not lost: the put of svnet's
\* last client releases the semaphore, even if the CP never asks again.
RequestHonoured ==
    (/\ hpc = "command" /\ hmail = "REQ_SEM"
     /\ \E t \in Svnet : pc[t] = "hold") ~> sem = 0

\* _get_auth's "send cmd every 20m seconds": a pass of the request loop that
\* does not sleep finds the authority there.
SendsArePaced ==
    [][\A t \in Clients : pc[t] = "send" /\ pc'[t] = "test" => sem = 1]_vars
=============================================================================
