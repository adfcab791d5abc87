----------------------------- MODULE MCXactoData -----------------------------
(* Values for the constants of XactoData, and where its behaviours start.  *)
EXTENDS XactoData

\* Two packets of one length whose strings (the first ends at a NUL) fall into
\* one bucket, though the difference of their hashes does not fit into an int,
\* and a packet of another length.
A == <<200, 7, 1, 0, 5>>
B == <<151, 163, 230, 200, 160>>
C == <<1>>
Distinct == {A, B, C}
OneBeforeTwo == <<<<{A}>>, <<{A}, {A}>>, <<{B, C}, {A}>>>>

\* Two keys that key_compare does not tell apart: they differ by 8 in the last
\* character.
Cancelling == {<<1>>, <<9>>}
AnyOnce == <<<<Cancelling>>, <<Cancelling>>>>

-----------------------------------------------------------------------------
(* The first client has gone before the others begin, with or without a    *)
(* committed version that it leaves in the table.                          *)

LeftNothing ==
    /\ blob = [b \in Blobs |-> NoBlob] /\ version = [r \in Requests |-> NoVersion]
    /\ entries = <<>>
    /\ n = [c \in Clients |-> 0] /\ kind = [c \in Clients |-> "GET"]

LeftVersion ==
    LET r == <<1, 1>> IN
    /\ \E v \in Values :
          blob = blob_create(blob_create([b \in Blobs |-> NoBlob], <<r, "key">>, A, Null),
                             <<r, "value">>, v, A)
    /\ version = [[q \in Requests |-> NoVersion] EXCEPT
                     ![r] = [creator |-> 1, blob |-> <<r, "value">>, live |-> TRUE]]
    /\ entries = <<[key |-> <<r, "key">>, versions |-> <<r>>]>>
    /\ n = [c \in Clients |-> IF c = 1 THEN 1 ELSE 0]
    /\ kind = [c \in Clients |-> IF c = 1 THEN "PUT" ELSE "GET"]

AfterFirst ==
    /\ LeftNothing \/ LeftVersion
    /\ mutex = [b \in Blobs |-> Null] /\ mapLock = Null
    /\ status = [c \in Clients |-> IF c = 1 THEN "COMMITTED" ELSE "PENDING"]
    /\ aborting = {}
    /\ pc = [c \in Clients |-> IF c = 1 THEN "done" ELSE "recv"]
    /\ pos = [c \in Clients |-> 0] /\ cur = [c \in Clients |-> Null]
    /\ entry = [c \in Clients |-> 0]
    /\ result = [c \in Clients |-> Null] /\ shown = [c \in Clients |-> Null]
    /\ kept = [b \in Blobs |-> 0]
    /\ exited = "running"

AfterFirstSpec == AfterFirst /\ [][Next]_vars
=============================================================================
