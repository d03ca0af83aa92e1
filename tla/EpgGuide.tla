------------------------------ MODULE EpgGuide ------------------------------
(***************************************************************************)
(* GET /api/epg (api/epg.rs): a cache of answers, the sources of the guide *)
(* in order of preference, and the table of the account's channels that    *)
(* concurrent requests download once.                                      *)
(*                                                                         *)
(* A guide is the set of the instants its programmes end; a table, the set *)
(* of the channels it names. What the sources answer is chosen: the indexes *)
(* of the first two are the subject of XmltvIndex.                         *)
(***************************************************************************)
EXTENDS Naturals, FiniteSets

CONSTANTS
    EpgReqs, Channels,
    Guides,            \* what a source may know of a channel
    Tables,            \* what the panel may answer; {} when it fails
    FoundTtl, EmptyTtl, TableTtl, TableRetry,
    Loads,             \* downloads of the table, in order (bound)
    EpgMaxTime,        \*                                  (bound)
    NoLoad

ASSUME EpgAssumption ==
    /\ NoLoad \notin Loads /\ Guides \subseteq SUBSET Nat
    /\ FoundTtl \in Nat /\ EmptyTtl \in Nat

VARIABLES
    hasXmltv,          \* an external source is configured
    epgNow,
    answers,           \* channel -> [guide, expires]; expired from the start
    table,             \* [listed, expires]
    loadInFlight,      \* the download that requests share, or NoLoad
    load,              \* download -> [pc, table]
    ereq               \* request -> [pc, ch, source, guide, candidate, found, load, offered]
epgVars == <<hasXmltv, epgNow, answers, table, loadInFlight, load, ereq>>

NotAsked == [pc |-> "new", ch |-> NoLoad, source |-> "panel-xmltv", guide |-> {},
             candidate |-> {}, found |-> FALSE, load |-> NoLoad, offered |-> {}]
EpgInit ==
    /\ hasXmltv \in BOOLEAN
    /\ epgNow = 0
    /\ answers = [c \in Channels |-> [guide |-> {}, expires |-> 0]]
    /\ table = [listed |-> {}, expires |-> 0]
    /\ loadInFlight = NoLoad
    /\ load = [l \in Loads |-> [pc |-> "none", table |-> {}]]
    /\ ereq = [r \in EpgReqs |-> NotAsked]

Current(g) == \E end \in g : end > epgNow
Next3(s)   == CASE s = "panel-xmltv" -> "xmltv" [] s = "xmltv" -> "xtream"
                [] OTHER -> "none"

(***************************************************************************)
(* handle.                                                                 *)
(***************************************************************************)
EpgHit(r, c) ==
    /\ ereq[r].pc = "new" /\ epgNow < answers[c].expires
    /\ ereq' = [ereq EXCEPT ![r].pc = "hit", ![r].ch = c, ![r].guide = answers[c].guide]
    /\ UNCHANGED <<hasXmltv, epgNow, answers, table, loadInFlight, load>>

EpgMiss(r, c) ==
    /\ ereq[r].pc = "new" /\ ~(epgNow < answers[c].expires)
    /\ ereq' = [ereq EXCEPT ![r].pc = "ask", ![r].ch = c]
    /\ UNCHANGED <<hasXmltv, epgNow, answers, table, loadInFlight, load>>

\* The loop over the sources: what one of them offers is kept when nothing was
\* found yet or when it has a programme that is not over, which ends the loop.
Keeps_First(r, g) == ~ereq[r].found                                   \* mutant
Keeps(r, g) == ~ereq[r].found \/ Current(g)

Offer(r, g) ==
    LET kept == g # {} /\ Keeps(r, g)
        after == IF g # {} /\ Current(g) THEN "none" ELSE Next3(ereq[r].source)
    IN  ereq' = [ereq EXCEPT ![r].source = after,
                             ![r].pc = IF after = "none" THEN "store" ELSE "ask",
                             ![r].guide = IF kept THEN g ELSE @, ![r].candidate = {},
                             ![r].found = @ \/ g # {},
                             ![r].offered = @ \cup g]

StoreAnswer(r) ==
    LET ttl == IF ereq[r].found THEN FoundTtl ELSE EmptyTtl
    IN  /\ ereq[r].pc = "store"
        /\ answers' = [answers EXCEPT ![ereq[r].ch] =
                         [guide |-> ereq[r].guide, expires |-> epgNow + ttl]]
        /\ ereq' = [ereq EXCEPT ![r].pc = "done"]
        /\ UNCHANGED <<hasXmltv, epgNow, table, loadInFlight, load>>

(***************************************************************************)
(* programmes_from_xmltv: the table first, the index then.                 *)
(***************************************************************************)
UsesTable(r) == /\ ereq[r].pc = "ask"
                /\ \/ ereq[r].source = "panel-xmltv"
                   \/ ereq[r].source = "xmltv" /\ hasXmltv
NoExternal(r) ==
    /\ ereq[r].pc = "ask" /\ ereq[r].source = "xmltv" /\ ~hasXmltv
    /\ Offer(r, {})
    /\ UNCHANGED <<hasXmltv, epgNow, answers, table, loadInFlight, load>>

\* A channel without identifier or name is in no index.
Seek(r, listed) ==
    IF ereq[r].ch \in listed THEN ereq' = [ereq EXCEPT ![r].pc = "index"] ELSE Offer(r, {})

FreshTable(r) ==
    /\ UsesTable(r) /\ epgNow < table.expires
    /\ Seek(r, table.listed)
    /\ UNCHANGED <<hasXmltv, epgNow, answers, table, loadInFlight, load>>

StaleTable(r) ==
    /\ UsesTable(r) /\ ~(epgNow < table.expires)
    /\ ereq' = [ereq EXCEPT ![r].pc = "join"]
    /\ UNCHANGED <<hasXmltv, epgNow, answers, table, loadInFlight, load>>

\* Under the other lock; the table may have arrived since.
JoinLoad_Alone(r) ==                                  \* mutant: one download each
    /\ ereq[r].pc = "join"
    /\ \E l \in Loads :
         /\ load[l].pc = "none" /\ \A k \in Loads : k < l => load[k].pc # "none"
         /\ load' = [load EXCEPT ![l].pc = "panel"]
         /\ loadInFlight' = l
         /\ ereq' = [ereq EXCEPT ![r].pc = "wait", ![r].load = l]
    /\ UNCHANGED <<hasXmltv, epgNow, answers, table>>
JoinLoad(r) ==
    /\ ereq[r].pc = "join"
    /\ \E l \in Loads :
         /\ IF loadInFlight # NoLoad THEN l = loadInFlight
            ELSE load[l].pc = "none" /\ \A k \in Loads : k < l => load[k].pc # "none"
         /\ load' = IF l = loadInFlight THEN load ELSE [load EXCEPT ![l].pc = "panel"]
         /\ loadInFlight' = l
         /\ ereq' = [ereq EXCEPT ![r].pc = "wait", ![r].load = l]
    /\ UNCHANGED <<hasXmltv, epgNow, answers, table>>

\* A load that panicked leaves an empty table to all who wait, now or later.
TableComes(r) ==
    /\ ereq[r].pc = "wait" /\ load[ereq[r].load].pc \in {"done", "panicked"}
    /\ Seek(r, load[ereq[r].load].table)
    /\ UNCHANGED <<hasXmltv, epgNow, answers, table, loadInFlight, load>>

\* What a source answers is looked at by a clock that is read again: programmes_for
\* gives what is not over; player_api what the first of its two actions gives that
\* is not empty, all failures being an empty guide.
Gives(r, g) == ereq' = [ereq EXCEPT ![r].pc = "offer", ![r].candidate = g]
IndexAnswers(r, g) ==
    /\ ereq[r].pc = "index"
    /\ Gives(r, {end \in g : end > epgNow})
    /\ UNCHANGED <<hasXmltv, epgNow, answers, table, loadInFlight, load>>

XtreamAnswers(r, g) ==
    /\ ereq[r].pc = "ask" /\ ereq[r].source = "xtream"
    /\ Gives(r, g)
    /\ UNCHANGED <<hasXmltv, epgNow, answers, table, loadInFlight, load>>

SourceOffers(r) ==
    /\ ereq[r].pc = "offer"
    /\ Offer(r, ereq[r].candidate)
    /\ UNCHANGED <<hasXmltv, epgNow, answers, table, loadInFlight, load>>

(***************************************************************************)
(* The detached task that loads the table.                                 *)
(***************************************************************************)
LoadEnds(l, listed) ==
    /\ load[l].pc = "panel"
    /\ load' = [load EXCEPT ![l] = [pc |-> "loaded", table |-> listed]]
    /\ table' = [listed |-> listed,
                 expires |-> epgNow + (IF listed = {} THEN TableRetry ELSE TableTtl)]
    /\ UNCHANGED <<hasXmltv, epgNow, answers, loadInFlight, ereq>>

LoadLeaves(l) ==
    /\ load[l].pc = "loaded"
    /\ load' = [load EXCEPT ![l].pc = "done"]
    /\ loadInFlight' = NoLoad
    /\ UNCHANGED <<hasXmltv, epgNow, answers, table, ereq>>

\* No guard frees the place, and no table is kept: it stays taken until the
\* server starts again.
LoadPanics(l) ==
    /\ load[l].pc = "panel"
    /\ load' = [load EXCEPT ![l].pc = "panicked"]
    /\ UNCHANGED <<hasXmltv, epgNow, answers, table, loadInFlight, ereq>>

\* The client is gone, or asks again later.
EpgLeaves(r) ==
    /\ ereq[r].pc \in {"ask", "index", "offer", "wait", "hit", "done"}
    /\ ereq' = [ereq EXCEPT ![r] = NotAsked]
    /\ UNCHANGED <<hasXmltv, epgNow, answers, table, loadInFlight, load>>

EpgTick ==
    /\ epgNow < EpgMaxTime /\ epgNow' = epgNow + 1
    /\ UNCHANGED <<hasXmltv, answers, table, loadInFlight, load, ereq>>

EpgNext ==
    \/ \E r \in EpgReqs :
          \/ \E c \in Channels : EpgHit(r, c) \/ EpgMiss(r, c)
          \/ \E g \in Guides : IndexAnswers(r, g) \/ XtreamAnswers(r, g)
          \/ NoExternal(r) \/ FreshTable(r) \/ StaleTable(r) \/ JoinLoad(r)
          \/ TableComes(r) \/ SourceOffers(r) \/ StoreAnswer(r) \/ EpgLeaves(r)
    \/ \E l \in Loads : \/ LoadPanics(l) \/ LoadLeaves(l)
                        \/ \E listed \in Tables : LoadEnds(l, listed)
    \/ EpgTick

EpgSpec == EpgInit /\ [][EpgNext]_epgVars

(***************************************************************************)
(* Properties.                                                             *)
(***************************************************************************)
\* A guide that is over never hides one that is not: the answer is the first
\* offer with a programme to come, if any source made one.
CurrentGuideWins ==
    \A r \in EpgReqs :
        ereq[r].pc = "store" /\ Current(ereq[r].offered) =>
            Current(ereq[r].guide)

\* The downloads of the table of channels, seen as a SingleFlight. One that
\* panicked keeps its place: it is one that never ends, whose requests leave.
EpgPhase == [l \in Loads |-> IF load[l].pc = "none" THEN "none"
                             ELSE IF load[l].pc = "done" THEN "over" ELSE "running"]
EpgSeen(e) ==
    IF e.load = NoLoad \/ (e.pc # "wait" /\ load[e.load].pc = "panicked")
    THEN [of |-> NoLoad, pc |-> "apart"]
    ELSE [of |-> e.load, pc |-> IF e.pc = "wait" THEN "waits" ELSE "served"]
EpgClient == [r \in EpgReqs |-> EpgSeen(ereq[r])]
EpgFlight == INSTANCE SingleFlight
    WITH Clients <- EpgReqs, Downloads <- Loads, Nothing <- NoLoad,
         phase <- EpgPhase, client <- EpgClient

\* « Les requêtes simultanées partagent un seul téléchargement »: no table is
\* downloaded twice at once, although the age of the table and the download
\* under way are read under two different locks.
TableIsShared == EpgFlight!Spec
=============================================================================
