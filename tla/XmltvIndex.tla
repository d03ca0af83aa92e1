----------------------------- MODULE XmltvIndex -----------------------------
(***************************************************************************)
(* The programme guide indexed from XMLTV dumps (services/xmltv.rs): what  *)
(* the parser keeps of a dump and under which keys, how the dumps of       *)
(* several sources are merged, the refresh that concurrent readers share,  *)
(* and the reading of a channel by its identifier or its name.             *)
(*                                                                         *)
(* The names and their keys are those of ChannelNames; a guide is the set  *)
(* of its programmes (the lists are sorted by start), a programme whose    *)
(* dates cannot be read is as if absent.                                   *)
(***************************************************************************)
EXTENDS Integers, Sequences, FiniteSets, ChannelNames

CONSTANTS
    XmlCallers,
    Wishes,              \* [id, name] that callers read; either may be empty
    Dumps,               \* [channels, programmes] a source may serve
    SourceCount,         \* source_urls, in order of priority
    Retention, Horizon, RefreshInterval, XmlBackoff,
    XmlTasks,            \* refreshes, in order (bound)
    XmlMaxTime,          \*                     (bound)
    NoRefresh

ASSUME XmlAssumption ==
    /\ NoRefresh \notin XmlTasks
    /\ \A d \in Dumps : d.channels \in Seq([id : Seq(STRING), names : Seq(Seq(STRING))])

VARIABLES
    xmlNow, xmlIndex,
    indexedAt, xmlFailedAt,   \* sets of at most one instant
    refreshInFlight,          \* the refresh that callers await, or NoRefresh
    refresh,                  \* refresh -> [pc, source, merged, ok, first]; first: the
                              \* first dump read, with the instant (history)
    xcall                     \* caller -> [pc, wish, task, guide]
xmlVars == <<xmlNow, xmlIndex, indexedAt, xmlFailedAt, refreshInFlight, refresh, xcall>>

Empty == <<>>
Waiting == [pc |-> "none", source |-> 1, merged |-> Empty, ok |-> 0, first |-> <<>>]
NoCall  == [pc |-> "new", wish |-> [id |-> <<>>, name |-> <<>>], task |-> NoRefresh,
            guide |-> {}]
XmlInit ==
    /\ xmlNow = 0 /\ xmlIndex = Empty
    /\ indexedAt = {} /\ xmlFailedAt = {}
    /\ refreshInFlight = NoRefresh
    /\ refresh = [t \in XmlTasks |-> Waiting]
    /\ xcall = [r \in XmlCallers |-> NoCall]

(***************************************************************************)
(* parse.                                                                  *)
(***************************************************************************)
Kept(p, now) == p.stop > now - Retention /\ p.start < now + Horizon

Guide(d, key, now) == {p \in d.programmes : normalize_key(p.channel) = key /\ Kept(p, now)}
OwnKeys(d, now)    == {normalize_key(p.channel) : p \in {q \in d.programmes : Kept(q, now)}}
                          \ {<<>>}

\* The aliases of a channel: its display names, then the loose forms of its
\* identifier and of its names. Those that say nothing new are blank.
AliasesOf(c) ==
    LET id     == normalize_key(c.id)
        raws   == <<c.id>> \o c.names
        strict == [i \in DOMAIN c.names |-> IF normalize_key(c.names[i]) = id THEN <<>>
                                           ELSE normalize_key(c.names[i])]
        loose  == [i \in DOMAIN raws |-> loose_index_key(loose_key(raws[i]))]
        keys   == strict \o loose
    IN  IF id = <<>> THEN <<>> ELSE [i \in DOMAIN keys |-> [name |-> keys[i], id |-> id]]

AllAliases(d) ==
    LET upTo[n \in 0 .. Len(d.channels)] ==
            IF n = 0 THEN <<>> ELSE upTo[n - 1] \o AliasesOf(d.channels[n])
    IN  upTo[Len(d.channels)]

\* The n-th alias adds a key: only the first of a name counts, never over a key
\* that is there already.
Unaliased(ix, al, n) ==
    /\ al[n].name # <<>> /\ al[n].id \in DOMAIN ix
    /\ \A m \in 1 .. n - 1 : al[m].name # al[n].name
    /\ al[n].name \notin DOMAIN ix
Aliased(ix, al, n) ==
    IF Unaliased(ix, al, n)
    THEN [k \in DOMAIN ix \cup {al[n].name} |-> IF k = al[n].name THEN ix[al[n].id] ELSE ix[k]]
    ELSE ix

ParseDump(d, now) ==
    LET own == [k \in OwnKeys(d, now) |-> Guide(d, k, now)]
        al  == AllAliases(d)
        with[n \in 0 .. Len(al)] == IF n = 0 THEN own ELSE Aliased(with[n - 1], al, n)
    IN  with[Len(al)]

\* The sources that follow only add the keys that are missing.
MergeInto_Last(merged, parsed) ==                                     \* mutant
    [k \in DOMAIN merged \cup DOMAIN parsed |->
        IF k \in DOMAIN parsed THEN parsed[k] ELSE merged[k]]
MergeInto(merged, parsed) ==
    [k \in DOMAIN merged \cup DOMAIN parsed |->
        IF k \in DOMAIN merged THEN merged[k] ELSE parsed[k]]

(***************************************************************************)
(* lookup and programmes_for.                                              *)
(***************************************************************************)
LookupKeys(id, name) ==
    <<normalize_key(id)>> \o name_keys(name)
        \o <<loose_index_key(loose_key(id)),
             loose_index_key(loose_key(clean_channel_name(name)))>>

Lookup(ix, id, name) ==
    LET keys == LookupKeys(id, name)
        hits == {i \in DOMAIN keys : keys[i] # <<>> /\ keys[i] \in DOMAIN ix}
    IN  IF hits = {} THEN {}
        ELSE ix[keys[CHOOSE i \in hits : \A j \in hits : i <= j]]

\* A "+1" channel without a guide has that of its base, an hour later.
ProgrammesFor(ix, id, name) ==
    LET direct == Lookup(ix, id, name)
    IN  IF direct # {} \/ ~HasPlusOne(name) THEN direct
        ELSE {[p EXCEPT !.start = @ + 1, !.stop = @ + 1]
                 : p \in Lookup(ix, <<>>, replace_plus_one(name))}

(***************************************************************************)
(* ensure_fresh, under the lock, then the reading of the index.            *)
(***************************************************************************)
XmlFresh(now) == \/ \E t \in indexedAt : now - t < RefreshInterval
                 \/ \E t \in xmlFailedAt : now - t < XmlBackoff

ReadNow(r, w) ==
    /\ xcall[r].pc = "new"
    /\ SourceCount = 0 \/ XmlFresh(xmlNow)
    /\ xcall' = [xcall EXCEPT ![r].pc = "read", ![r].wish = w]
    /\ UNCHANGED <<xmlNow, xmlIndex, indexedAt, xmlFailedAt, refreshInFlight, refresh>>

FirstFree == {t \in XmlTasks : /\ refresh[t].pc = "none"
                               /\ \A u \in XmlTasks : u < t => refresh[u].pc # "none"}
AwaitRefresh(r, w) ==
    /\ xcall[r].pc = "new"
    /\ SourceCount > 0 /\ ~XmlFresh(xmlNow)
    /\ \E t \in IF refreshInFlight # NoRefresh THEN {refreshInFlight} ELSE FirstFree :
         /\ refresh' = IF t = refreshInFlight THEN refresh
                       ELSE [refresh EXCEPT ![t].pc = "download"]
         /\ refreshInFlight' = t
         /\ xcall' = [xcall EXCEPT ![r].pc = "wait", ![r].wish = w, ![r].task = t]
    /\ UNCHANGED <<xmlNow, xmlIndex, indexedAt, xmlFailedAt>>

RefreshEnded(r) ==
    /\ xcall[r].pc = "wait" /\ refresh[xcall[r].task].pc = "ended"
    /\ xcall' = [xcall EXCEPT ![r].pc = "read"]
    /\ UNCHANGED <<xmlNow, xmlIndex, indexedAt, xmlFailedAt, refreshInFlight, refresh>>

ReadIndex(r) ==
    /\ xcall[r].pc = "read"
    /\ xcall' = [xcall EXCEPT ![r].pc = "done",
                              ![r].guide = ProgrammesFor(xmlIndex, xcall[r].wish.id,
                                                         xcall[r].wish.name)]
    /\ UNCHANGED <<xmlNow, xmlIndex, indexedAt, xmlFailedAt, refreshInFlight, refresh>>

\* The caller is cut off: the refresh goes on.
CallerLeaves(r) ==
    /\ xcall[r].pc \in {"wait", "done"}
    /\ xcall' = [xcall EXCEPT ![r] = NoCall]
    /\ UNCHANGED <<xmlNow, xmlIndex, indexedAt, xmlFailedAt, refreshInFlight, refresh>>

(***************************************************************************)
(* refresh: the sources one after the other, then the index in one lock.   *)
(***************************************************************************)
SourceServes(t, d) ==
    /\ refresh[t].pc = "download" /\ refresh[t].source <= SourceCount
    /\ refresh' = [refresh EXCEPT ![t].source = @ + 1, ![t].ok = @ + 1,
                                  ![t].merged = MergeInto(@, ParseDump(d, xmlNow)),
                                  ![t].first = IF @ = <<>> THEN <<d, xmlNow>> ELSE @]
    /\ UNCHANGED <<xmlNow, xmlIndex, indexedAt, xmlFailedAt, refreshInFlight, xcall>>

\* No answer in time, a status other than 200, a dump that cannot be read.
SourceFails(t) ==
    /\ refresh[t].pc = "download" /\ refresh[t].source <= SourceCount
    /\ refresh' = [refresh EXCEPT ![t].source = @ + 1]
    /\ UNCHANGED <<xmlNow, xmlIndex, indexedAt, xmlFailedAt, refreshInFlight, xcall>>

\* No source at all: the former index stays.
AllFailed(t) ==
    /\ refresh[t].pc = "download" /\ refresh[t].source > SourceCount
    /\ refresh[t].ok = 0
    /\ xmlFailedAt' = {xmlNow}
    /\ refresh' = [refresh EXCEPT ![t].pc = "guard"]
    /\ UNCHANGED <<xmlNow, xmlIndex, indexedAt, refreshInFlight, xcall>>

Indexed(t) ==
    /\ refresh[t].pc = "download" /\ refresh[t].source > SourceCount
    /\ refresh[t].ok > 0
    /\ xmlIndex' = refresh[t].merged
    /\ indexedAt' = {xmlNow} /\ xmlFailedAt' = {}
    /\ refresh' = [refresh EXCEPT ![t].pc = "guard", ![t].merged = Empty, ![t].first = <<>>]
    /\ UNCHANGED <<xmlNow, refreshInFlight, xcall>>

\* The task panics between two sources: no failure is noted.
RefreshPanics_Stuck(t) ==                \* mutant: the place is freed on success only
    /\ refresh[t].pc = "download"
    /\ refresh' = [refresh EXCEPT ![t].pc = "ended"]
    /\ UNCHANGED <<xmlNow, xmlIndex, indexedAt, xmlFailedAt, refreshInFlight, xcall>>
RefreshPanics(t) ==
    /\ refresh[t].pc = "download"
    /\ refresh' = [refresh EXCEPT ![t].pc = "guard"]
    /\ UNCHANGED <<xmlNow, xmlIndex, indexedAt, xmlFailedAt, refreshInFlight, xcall>>

\* RefreshGuard, dropped in both cases, before the awaiting callers resume.
RefreshGuardDrops(t) ==
    /\ refresh[t].pc = "guard"
    /\ refreshInFlight' = NoRefresh
    /\ refresh' = [refresh EXCEPT ![t].pc = "ended", ![t].merged = Empty, ![t].first = <<>>]
    /\ UNCHANGED <<xmlNow, xmlIndex, indexedAt, xmlFailedAt, xcall>>

XmlTick ==
    /\ xmlNow < XmlMaxTime /\ xmlNow' = xmlNow + 1
    /\ UNCHANGED <<xmlIndex, indexedAt, xmlFailedAt, refreshInFlight, refresh, xcall>>

XmlNext ==
    \/ \E r \in XmlCallers : \/ \E w \in Wishes : ReadNow(r, w) \/ AwaitRefresh(r, w)
                             \/ RefreshEnded(r) \/ ReadIndex(r) \/ CallerLeaves(r)
    \/ \E t \in XmlTasks : \/ \E d \in Dumps : SourceServes(t, d)
                           \/ SourceFails(t) \/ AllFailed(t) \/ Indexed(t)
                           \/ RefreshPanics(t) \/ RefreshGuardDrops(t)
    \/ XmlTick

XmlSpec == XmlInit /\ [][XmlNext]_xmlVars

(***************************************************************************)
(* Properties.                                                             *)
(***************************************************************************)
\* A channel that has programmes of its own in the dump of the first source to
\* answer keeps those, whatever names the other channels of that dump give
\* themselves, and whatever the sources that follow say of it.
GuideIsItsOwn ==
    \A t \in XmlTasks : refresh[t].first # <<>> =>
        LET d  == refresh[t].first[1]
            at == refresh[t].first[2]
        IN  \A k \in OwnKeys(d, at) : refresh[t].merged[k] = Guide(d, k, at)

\* The refreshes, seen as a SingleFlight.
XmlPhase == [t \in XmlTasks |-> CASE refresh[t].pc = "none" -> "none"
                                  [] refresh[t].pc \in {"download", "guard"} -> "running"
                                  [] OTHER -> "over"]
XmlSeen(e) == IF e.task = NoRefresh THEN [of |-> NoRefresh, pc |-> "apart"]
              ELSE [of |-> e.task, pc |-> IF e.pc = "wait" THEN "waits" ELSE "served"]
XmlClient == [r \in XmlCallers |-> XmlSeen(xcall[r])]
XmlFlight == INSTANCE SingleFlight
    WITH Clients <- XmlCallers, Downloads <- XmlTasks, Nothing <- NoRefresh,
         phase <- XmlPhase, client <- XmlClient

\* A refresh is shared by the readers of the moment, and whatever becomes of it,
\* a panic included, the next one can start: no reader awaits one that is over.
RefreshIsShared == XmlFlight!Spec
=============================================================================
