------------------------------- MODULE Pipe --------------------------------
(***************************************************************************)
(* What the connection behind a CONNECT promises the client and the        *)
(* server, whatever carries it: each of the two sends a stream of pieces,  *)
(* numbered from 1, and the other one receives them one after the other,   *)
(* none twice, none out of order and none that was not sent.  Only a first *)
(* part of a stream may be lost, and only before the client is told that   *)
(* the connection is established.  A piece is a cell of a tunnel, or an    *)
(* http message of a connection that is decrypted.                         *)
(***************************************************************************)
EXTENDS Naturals, Sequences

VARIABLES
    sent,   \* how many pieces each side sent
    lost,   \* how many of the first ones the other side will never see
    open,   \* the client was told that the connection is established
    got     \* the pieces each side received

vars == <<sent, lost, open, got>>

Sides == {"clt", "svr"}
Across(s) == IF s = "clt" THEN "svr" ELSE "clt"

Init ==
    /\ sent = [s \in Sides |-> 0] /\ lost = [s \in Sides |-> 0]
    /\ open = FALSE
    /\ got = [s \in Sides |-> <<>>]

Send(s) ==
    /\ sent' = [sent EXCEPT ![s] = @ + 1]
    /\ UNCHANGED <<lost, open, got>>

Lose(s) ==
    /\ ~open /\ lost[s] = 0
    /\ \E n \in 1..sent[s] : lost' = [lost EXCEPT ![s] = n]
    /\ UNCHANGED <<sent, open, got>>

Open ==
    /\ ~open /\ open' = TRUE
    /\ UNCHANGED <<sent, lost, got>>

(* The first piece that is neither lost nor received. *)
Due(s) == lost[Across(s)] + Len(got[s]) + 1

Receive(s) ==
    /\ open /\ Due(s) <= sent[Across(s)]
    /\ got' = [got EXCEPT ![s] = Append(@, Due(s))]
    /\ UNCHANGED <<sent, lost, open>>

Next == Open \/ \E s \in Sides : Send(s) \/ Lose(s) \/ Receive(s)

Spec == Init /\ [][Next]_vars
=============================================================================
