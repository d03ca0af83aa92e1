---------------------------- MODULE UpstreamSlots ----------------------------
(***************************************************************************)
(* The connections open to the providers (services/upstream_slots.rs): one *)
(* slot per connection, counted per account, and the quota of each         *)
(* account, read in the background and never waited for.  Each method      *)
(* holds the registry's mutex throughout, so each is one operator here.    *)
(***************************************************************************)
EXTENDS Integers, FiniteSets

CONSTANTS
    Conns,       \* connection ids: session ids and turbo streams
    Accounts,    \* provider accounts: dns|username
    AccountOf,   \* the account each connection is opened on
    PanelQuotas  \* what the panel may say of max_connections

ASSUME ConnsAssumption ==
    /\ IsFiniteSet(Conns)
    /\ AccountOf \in [Conns -> Accounts]
    /\ PanelQuotas \subseteq Nat \ {0}

VARIABLES
    slot,        \* UpstreamSlots.slots: the token of each connection, 0 without a slot
    tokens,      \* Inner.next
    quota,       \* AccountLimits.cache, 0 as long as the panel has not answered
    refreshing   \* AccountLimits.refreshing

slotVars == <<slot, tokens>>
limitVars == <<quota, refreshing>>

SlotsTypeOK ==
    /\ slot \in [Conns -> Nat]
    /\ tokens \in Nat
    /\ quota \in [Accounts -> Nat]
    /\ refreshing \in SUBSET Accounts

SlotsInit ==
    /\ slot = [c \in Conns |-> 0]
    /\ tokens = 0
    /\ quota = [a \in Accounts |-> 0]
    /\ refreshing = {}

\* A second registration under one id takes the slot over with a token of its own.
Register(c) ==
    /\ tokens' = tokens + 1
    /\ slot' = [slot EXCEPT ![c] = tokens + 1]

\* The end of a process frees the slot only if it still is the one it was given.
Unregister_AnyToken(c, t) ==   \* mutant
    slot' = [slot EXCEPT ![c] = 0] /\ UNCHANGED tokens
Unregister(c, t) ==
    /\ slot' = [slot EXCEPT ![c] = IF slot[c] = t THEN 0 ELSE slot[c]]
    /\ UNCHANGED tokens

Others(a, keep) == {c \in Conns \ {keep} : slot[c] # 0 /\ AccountOf[c] = a}

Excess_OneMore(a, max, keep) == Cardinality(Others(a, keep)) - max   \* mutant
Excess(a, max, keep) == Cardinality(Others(a, keep)) - (max - 1)

\* make_room: the oldest of the connections nobody watches, as many as are too many.
MakeRoom(a, max, keep, watched) ==
    LET orphans == Others(a, keep) \ watched
    IN  {c \in orphans :
            Cardinality({o \in orphans : slot[o] < slot[c]}) < Excess(a, max, keep)}

Free(cut) ==
    /\ slot' = [c \in Conns |-> IF c \in cut THEN 0 ELSE slot[c]]
    /\ UNCHANGED tokens

\* max_for answers at once: the last quota known, however old, or one connection.
Fallback == 1
MaxFor(a) == IF quota[a] = 0 THEN Fallback ELSE quota[a]

\* ... and has an unknown or expired quota read, one reading at a time.
Refresh(a) ==
    /\ refreshing' \in {refreshing, refreshing \cup {a}}
    /\ quota[a] = 0 => a \in refreshing'
    /\ UNCHANGED quota

\* The panel answers, or fails and leaves the quota as it was.
RefreshEnds(a) ==
    /\ a \in refreshing
    /\ refreshing' = refreshing \ {a}
    /\ quota' \in {quota} \cup {[quota EXCEPT ![a] = q] : q \in PanelQuotas}
=============================================================================
