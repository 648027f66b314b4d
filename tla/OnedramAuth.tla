---------------------------- MODULE OnedramAuth ----------------------------
(***************************************************************************)
(* What the OneDRAM driver promises its clients, without its protocol: the *)
(* shared memory bank belongs to the application processor (AP) or to the  *)
(* modem (CP), clients of the AP use it only while the AP owns it, and the *)
(* AP hands it over only when none of its clients uses it.                 *)
(* Onedram.tla implements this specification.                              *)
(***************************************************************************)
CONSTANT Clients      \* the AP's clients of the shared memory

VARIABLES owner,      \* "AP" or "CP"
          users       \* the clients between a successful get and their put

vars == <<owner, users>>

Init == /\ owner \in {"AP", "CP"}
        /\ users = {}

\* A client obtains the right to access the bank.
Acquire(c) == /\ owner = "AP"
              /\ c \notin users
              /\ users' = users \cup {c}
              /\ UNCHANGED owner

\* A client gives its right back; the AP keeps the bank.
Release(c) == /\ c \in users
              /\ users' = users \ {c}
              /\ UNCHANGED owner

\* The AP hands the bank to the modem.
HandOver == /\ owner = "AP"
            /\ users = {}
            /\ owner' = "CP"
            /\ UNCHANGED users

\* The modem hands the bank to the AP.
TakeOver == /\ owner = "CP"
            /\ owner' = "AP"
            /\ UNCHANGED users

Next == \/ \E c \in Clients : Acquire(c) \/ Release(c)
        \/ HandOver
        \/ TakeOver

Spec == Init /\ [][Next]_vars
=============================================================================
