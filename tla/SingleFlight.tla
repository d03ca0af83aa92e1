---------------------------- MODULE SingleFlight ----------------------------
(***************************************************************************)
(* What the server promises of a download that many requests want at once: *)
(* one at a time, which everyone of the moment shares; nobody is ever made *)
(* to wait for one that is over, and nobody is served by one that is not.  *)
(* LogoCatalog, XmltvIndex and EpgGuide implement it, each in its own way. *)
(***************************************************************************)
CONSTANTS
    Clients, Downloads,
    Nothing       \* no download

VARIABLES
    phase,        \* download -> "none", "running", "over"
    client        \* client -> [of, pc]
flightVars == <<phase, client>>

Apart == [of |-> Nothing, pc |-> "apart"]

Init == /\ phase = [d \in Downloads |-> "none"]
        /\ client = [c \in Clients |-> Apart]

Waits(c, d) == /\ client[c].pc # "waits"
               /\ client' = [client EXCEPT ![c] = [of |-> d, pc |-> "waits"]]

Start(c, d) ==
    /\ \A e \in Downloads : phase[e] # "running"
    /\ phase[d] = "none" /\ phase' = [phase EXCEPT ![d] = "running"]
    /\ Waits(c, d)

Join(c, d) == phase[d] = "running" /\ Waits(c, d) /\ UNCHANGED phase

End(d) == /\ phase[d] = "running" /\ phase' = [phase EXCEPT ![d] = "over"]
          /\ UNCHANGED client

Serve(c) ==
    /\ client[c].pc = "waits" /\ phase[client[c].of] = "over"
    /\ client' = [client EXCEPT ![c].pc = "served"]
    /\ UNCHANGED phase

Leave(c) == client' = [client EXCEPT ![c] = Apart] /\ UNCHANGED phase

Next == \/ \E c \in Clients : \/ Serve(c) \/ Leave(c)
                              \/ \E d \in Downloads : Start(c, d) \/ Join(c, d)
        \/ \E d \in Downloads : End(d)

Spec == Init /\ [][Next]_flightVars
=============================================================================
