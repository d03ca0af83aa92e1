----------------------------- MODULE MCStreaming -----------------------------
(***************************************************************************)
(* Small instances of Streaming, all on one provider account.              *)
(***************************************************************************)
EXTENDS Streaming

CONSTANTS a, f, x, y, t, d, r1, r2, acc

OneAccount == [c \in Conns |-> acc]

\* The same channel twice.
OneChannel == [q \in {r1, r2} |-> a]

\* A film, a turbo stream and a direct request.
Mixed == [q \in {r1, t, d} |-> IF q = r1 THEN f ELSE q]

\* One channel.
Single == [q \in {r1} |-> a]

\* Two offsets of one recording.
Offsets == [q \in {r1, r2} |-> IF q = r1 THEN x ELSE y]
=============================================================================
