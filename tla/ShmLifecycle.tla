---------------------------- MODULE ShmLifecycle ----------------------------
(***************************************************************************)
(* What ipsm_mem promises the processes that call it, with no lock file,   *)
(* no system call and no schedule: at any time the shared memory holds one *)
(* published content or none; a process joins the content that is          *)
(* published and sees that content until it leaves; nothing is published   *)
(* or withdrawn while a process uses the memory.                           *)
(*                                                                         *)
(* IpsmMem refines this module.                                            *)
(***************************************************************************)

CONSTANTS Procs,    \* the processes that call ipsm_mem::setup
          None      \* no process, no content

VARIABLES content,  \* who initialised the published content, or None
          seen      \* per process, the content it uses, or None

avars == <<content, seen>>

Unused == \A p \in Procs : seen[p] = None

Init ==
    /\ content = None
    /\ seen = [p \in Procs |-> None]

(* The creator marks the content it initialised ready. *)
Publish(c) ==
    /\ content = None
    /\ Unused
    /\ content' = c
    /\ UNCHANGED seen

(* The last process out removes the content, or the next creator resets    *)
(* what a crash left behind.                                               *)
Withdraw ==
    /\ content # None
    /\ Unused
    /\ content' = None
    /\ UNCHANGED seen

Join(p) ==
    /\ content # None
    /\ seen[p] = None
    /\ seen' = [seen EXCEPT ![p] = content]
    /\ UNCHANGED content

(* By the destructor or by death. *)
Leave(p) ==
    /\ seen[p] # None
    /\ seen' = [seen EXCEPT ![p] = None]
    /\ UNCHANGED content

Next ==
    \/ \E c \in Procs : Publish(c)
    \/ Withdraw
    \/ \E p \in Procs : Join(p) \/ Leave(p)

Spec == Init /\ [][Next]_avars
=============================================================================
