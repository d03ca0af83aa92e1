---------------------------- MODULE LogoCatalog ----------------------------
(***************************************************************************)
(* Channel logos (services/logo_catalog.rs, api/logo.rs): the image of the *)
(* panel when it answers, else one found by name in a public catalogue.    *)
(* The listing of a country is loaded by a task of its own that every      *)
(* request of the moment awaits; it is kept for a day, and after a failure *)
(* the former one serves until the back-off is over.                       *)
(*                                                                         *)
(* The names and their words are those of ChannelNames, and so are the     *)
(* keys of the catalogue.                                                  *)
(***************************************************************************)
EXTENDS Naturals, Sequences, FiniteSets, ChannelNames

CONSTANTS
    LogoReqs,      \* requests
    LogoNames,     \* names of channels
    Countries,     \* folders of the catalogue
    Files,         \* what a folder may hold: sets of file names
    Rank,          \* keys by length, then in alphabetical order
    Digits,        \* words that are numbers
    ListingTtl, RetryBackoff,
    LogoTasks,     \* downloads of a listing, in order    (bound)
    LogoMaxTime,   \*                                     (bound)
    NoListing, NoTask, NoKey

\* request_listing: the names of the images, without their country.
KeysOf(files) == {key_from_file_name(f) : f \in files}
Catalogues    == {KeysOf(files) : files \in Files}

ASSUME LogoAssumption ==
    /\ LogoNames \subseteq Seq(STRING) /\ Files \subseteq SUBSET Seq(STRING)
    /\ \A name \in LogoNames : country_folder_for(name) \in Countries
    /\ "live" \notin Digits
    /\ NoListing \notin [keys : SUBSET UNION Catalogues, at : Nat]
    /\ LogoTasks \subseteq Nat /\ NoTask \notin LogoTasks /\ NoTask \notin Countries
    /\ ListingTtl \in Nat /\ RetryBackoff \in Nat

VARIABLES
    logoNow,
    listing,    \* country -> [keys, at], or NoListing
    failedAt,   \* country -> instants of the last failure, a set of at most one
    inFlight,   \* country -> the task the requests await, or NoTask
    task,       \* task -> [c, pc, result]
    images,     \* keys whose image has been downloaded
    lreq        \* request -> [pc, c, name, task, key, known]
logoVars == <<logoNow, listing, failedAt, inFlight, task, images, lreq>>

NoReq == [pc |-> "new", c |-> NoTask, name |-> <<>>, task |-> NoTask, key |-> NoKey,
          known |-> FALSE]
Unused == [c |-> NoTask, pc |-> "none", result |-> NoListing]

LogoInit ==
    /\ logoNow = 0
    /\ listing = [c \in Countries |-> NoListing]
    /\ failedAt = [c \in Countries |-> {}]
    /\ inFlight = [c \in Countries |-> NoTask]
    /\ task = [t \in LogoTasks |-> Unused]
    /\ images = {}
    /\ lreq = [r \in LogoReqs |-> NoReq]

(***************************************************************************)
(* match_logo_key, from the surest to the least sure.                      *)
(***************************************************************************)
StartsWith(k, p) == Len(p) < Len(k) /\ SubSeq(k, 1, Len(p)) = p
NoLive(ws) == Without(ws, {"live"})

Exact(ws, keys)  == {k \in keys : ws # <<>> /\ k = ws}
Longer(ws, keys) ==
    LET set == {k \in keys : Len(ws) >= 2 /\ StartsWith(k, ws)}
    IN  {k \in set : \A l \in set : Rank[k] <= Rank[l]}

\* The first of the sets that is not empty.
Else(s, t) == IF s # {} THEN s ELSE t

Brand_AnyLength(ws) == NoLive(ButLast(ws))                   \* mutant: a single word
Brand(ws) == IF Len(NoLive(ButLast(ws))) >= 2 THEN NoLive(ButLast(ws)) ELSE <<>>

MatchKey(ws, keys) ==
    IF ws = <<>> THEN {}
    ELSE LET direct == Else(Exact(ws, keys), Else(Exact(NoLive(ws), keys),
                       Else(Longer(ws, keys), Longer(NoLive(ws), keys))))
             brand == IF ws[Len(ws)] \in Digits THEN Brand(ws) ELSE <<>>
         IN  Else(direct, Else(Exact(brand, keys), Longer(brand, keys)))

(***************************************************************************)
(* GET /api/logo.                                                          *)
(***************************************************************************)
LogoAsk(r, name) ==
    /\ lreq[r].pc = "new"
    /\ lreq' = [lreq EXCEPT ![r] = [NoReq EXCEPT !.pc = "panel", !.name = name,
                                                  !.c = country_folder_for(name)]]
    /\ UNCHANGED <<logoNow, listing, failedAt, inFlight, task, images>>

\* The panel's own image, through the proxy: a 200 that is an image, or else.
PanelServes(r) ==
    /\ lreq[r].pc = "panel"
    /\ lreq' = [lreq EXCEPT ![r].pc = "served"]
    /\ UNCHANGED <<logoNow, listing, failedAt, inFlight, task, images>>
PanelFails(r) ==
    /\ lreq[r].pc = "panel"
    /\ lreq' = [lreq EXCEPT ![r].pc = "listing"]
    /\ UNCHANGED <<logoNow, listing, failedAt, inFlight, task, images>>

IsFresh(c) == listing[c] # NoListing /\ logoNow - listing[c].at < ListingTtl
BacksOff(c) == \E t \in failedAt[c] : logoNow - t < RetryBackoff

\* What the request does with a listing, or with none.
WithListing(r, l) ==
    IF l = NoListing THEN [lreq EXCEPT ![r].pc = "missing"]
    ELSE LET found == MatchKey(tokens(lreq[r].name), l.keys)
         IN  IF found = {} THEN [lreq EXCEPT ![r].pc = "unknown"]
             ELSE LET k == CHOOSE k \in found : TRUE
                  IN  [lreq EXCEPT ![r].key = k,
                                   ![r].pc = IF k \in images THEN "served" ELSE "image"]

\* listing_for, under the lock: cached, stale during the back-off, or awaited.
UseCached(r) ==
    LET c == lreq[r].c
    IN  /\ lreq[r].pc = "listing"
        /\ IsFresh(c) \/ BacksOff(c)
        /\ lreq' = [WithListing(r, listing[c]) EXCEPT ![r].known = listing[c] # NoListing]
        /\ UNCHANGED <<logoNow, listing, failedAt, inFlight, task, images>>

NextTask == {t \in LogoTasks : /\ task[t] = Unused
                               /\ \A u \in LogoTasks : u < t => task[u] # Unused}
StartOrJoin_Alone(r) ==                              \* mutant: each its own listing
    LET c == lreq[r].c
    IN  /\ lreq[r].pc = "listing"
        /\ ~IsFresh(c) /\ ~BacksOff(c)
        /\ \E t \in NextTask :
             /\ task' = [task EXCEPT ![t] = [c |-> c, pc |-> "request", result |-> NoListing]]
             /\ inFlight' = [inFlight EXCEPT ![c] = t]
             /\ lreq' = [lreq EXCEPT ![r].pc = "wait", ![r].task = t,
                                     ![r].known = listing[c] # NoListing]
        /\ UNCHANGED <<logoNow, listing, failedAt, images>>
StartOrJoin(r) ==
    LET c == lreq[r].c
    IN  /\ lreq[r].pc = "listing"
        /\ ~IsFresh(c) /\ ~BacksOff(c)
        /\ \E t \in IF inFlight[c] # NoTask THEN {inFlight[c]} ELSE NextTask :
             /\ task' = IF t = inFlight[c] THEN task
                        ELSE [task EXCEPT ![t] = [c |-> c, pc |-> "request",
                                                  result |-> NoListing]]
             /\ inFlight' = [inFlight EXCEPT ![c] = t]
             /\ lreq' = [lreq EXCEPT ![r].pc = "wait", ![r].task = t,
                                     ![r].known = listing[c] # NoListing]
        /\ UNCHANGED <<logoNow, listing, failedAt, images>>

(***************************************************************************)
(* The task: fetch_listing, then the guard that frees the place.           *)
(***************************************************************************)
Ends(t, l) == task' = [task EXCEPT ![t].pc = "guard", ![t].result = l]

FetchSucceeds(t, keys) ==
    LET l == [keys |-> keys, at |-> logoNow]
    IN  /\ task[t].pc = "request"
        /\ listing' = [listing EXCEPT ![task[t].c] = l]
        /\ failedAt' = [failedAt EXCEPT ![task[t].c] = {}]
        /\ Ends(t, l)
        /\ UNCHANGED <<logoNow, inFlight, images, lreq>>

FetchFails_Empty(t) ==                  \* mutant: nothing rather than the stale one
    /\ task[t].pc = "request"
    /\ failedAt' = [failedAt EXCEPT ![task[t].c] = {logoNow}]
    /\ Ends(t, NoListing)
    /\ UNCHANGED <<logoNow, listing, inFlight, images, lreq>>
FetchFails(t) ==
    /\ task[t].pc = "request"
    /\ failedAt' = [failedAt EXCEPT ![task[t].c] = {logoNow}]
    /\ Ends(t, listing[task[t].c])
    /\ UNCHANGED <<logoNow, listing, inFlight, images, lreq>>

\* A panic: no failure is noted, and the requests get nothing.
FetchPanics(t) ==
    /\ task[t].pc = "request"
    /\ task' = [task EXCEPT ![t].pc = "unwinds"]
    /\ UNCHANGED <<logoNow, listing, failedAt, inFlight, images, lreq>>

\* InFlightGuard frees the place, then the shared future wakes the requests.
GuardDrops(t) ==
    /\ task[t].pc \in {"guard", "unwinds"}
    /\ task' = [task EXCEPT ![t].pc = IF @ = "guard" THEN "done" ELSE "dead"]
    /\ inFlight' = [inFlight EXCEPT ![task[t].c] = NoTask]
    /\ UNCHANGED <<logoNow, listing, failedAt, images, lreq>>

Resume(r) ==
    /\ lreq[r].pc = "wait" /\ task[lreq[r].task].pc \in {"done", "dead"}
    /\ lreq' = WithListing(r, task[lreq[r].task].result)
    /\ UNCHANGED <<logoNow, listing, failedAt, inFlight, task, images>>

ImageArrives(r) ==
    /\ lreq[r].pc = "image"
    /\ images' = images \cup {lreq[r].key}
    /\ lreq' = [lreq EXCEPT ![r].pc = "served"]
    /\ UNCHANGED <<logoNow, listing, failedAt, inFlight, task>>
ImageFails(r) ==
    /\ lreq[r].pc = "image"
    /\ lreq' = [lreq EXCEPT ![r].pc = "unknown"]
    /\ UNCHANGED <<logoNow, listing, failedAt, inFlight, task, images>>

\* The browser leaves: the handler is dropped, the task goes on.
Leaves(r) ==
    /\ lreq[r].pc \in {"panel", "wait", "image"}
    /\ lreq' = [lreq EXCEPT ![r].pc = "left"]
    /\ UNCHANGED <<logoNow, listing, failedAt, inFlight, task, images>>

\* The tile is displayed again.
Again(r) ==
    /\ lreq[r].pc \in {"served", "unknown", "missing", "left"}
    /\ lreq' = [lreq EXCEPT ![r] = NoReq]
    /\ UNCHANGED <<logoNow, listing, failedAt, inFlight, task, images>>

LogoTick ==
    /\ logoNow < LogoMaxTime /\ logoNow' = logoNow + 1
    /\ UNCHANGED <<listing, failedAt, inFlight, task, images, lreq>>

LogoSteps(r) == PanelServes(r) \/ PanelFails(r) \/ UseCached(r) \/ StartOrJoin(r)
                    \/ Resume(r) \/ ImageArrives(r) \/ ImageFails(r)
TaskSteps(t) == \/ \E keys \in Catalogues : FetchSucceeds(t, keys)
                \/ FetchFails(t) \/ FetchPanics(t) \/ GuardDrops(t)
LogoNext ==
    \/ \E r \in LogoReqs : \/ \E n \in LogoNames : LogoAsk(r, n)
                           \/ LogoSteps(r) \/ Leaves(r) \/ Again(r)
    \/ \E t \in LogoTasks : TaskSteps(t)
    \/ LogoTick

LogoSpec == LogoInit /\ [][LogoNext]_logoVars

(***************************************************************************)
(* Properties.                                                             *)
(***************************************************************************)
LogoTypeOK ==
    /\ listing \in [Countries -> [keys : Catalogues, at : Nat] \cup {NoListing}]
    /\ failedAt \in [Countries -> SUBSET Nat]
    /\ inFlight \in [Countries -> LogoTasks \cup {NoTask}]
    /\ task \in [LogoTasks -> [c : Countries \cup {NoTask},
                               pc : {"none", "request", "guard", "unwinds", "done", "dead"},
                               result : [keys : Catalogues, at : Nat] \cup {NoListing}]]
    /\ logoNow \in Nat

(***************************************************************************)
(* The downloads of the listing of a country, seen as a SingleFlight.      *)
(***************************************************************************)
Underway == {"request", "guard", "unwinds"}
LogoPhase(c) == [t \in LogoTasks |-> IF task[t].c # c THEN "none"
                                     ELSE IF task[t].pc \in Underway THEN "running" ELSE "over"]
LogoSeen(e, c) == IF e.c # c \/ e.task = NoTask \/ e.pc = "left"
                  THEN [of |-> NoTask, pc |-> "apart"]
                  ELSE [of |-> e.task, pc |-> IF e.pc = "wait" THEN "waits" ELSE "served"]
LogoClient(c) == [r \in LogoReqs |-> LogoSeen(lreq[r], c)]
LogoFlight(c) == INSTANCE SingleFlight
    WITH Clients <- LogoReqs, Downloads <- LogoTasks, Nothing <- NoTask,
         phase <- LogoPhase(c), client <- LogoClient(c)

\* « 60 requêtes par heure » at GitHub: a burst of tiles costs one listing, which
\* every request of the moment shares; a task that fails, or panics, leaves its
\* place to the next and wakes up those that await it.
ListingsAreShared ==
    /\ \A c \in Countries : LogoFlight(c)!Init
    /\ [][\A c \in Countries : [LogoFlight(c)!Next]_(LogoFlight(c)!flightVars)]_logoVars

\* « Liste périmée plutôt que rien »: a request that came when a listing was
\* known is never told that there is none, unless the task panicked.
KnownListingServes ==
    \A r \in LogoReqs :
        lreq[r].known /\ lreq[r].pc = "missing" => task[lreq[r].task].pc = "dead"

\* The logo shown is that of the channel, or of a longer name of it, or of its
\* brand without the number that ends it; on two words at least if it is not the
\* very name: "France" never becomes "France 24".
IsNameOf(k, name) ==
    \/ k = name
    \/ \E n \in 2 .. Len(name) :
          /\ n = Len(name) \/ (n = Len(name) - 1 /\ Last(name) \in Digits)
          /\ Len(k) >= n /\ SubSeq(k, 1, n) = SubSeq(name, 1, n)
LogoOfTheChannel ==
    \A r \in LogoReqs :
        lreq[r].key # NoKey =>
            \E name \in {tokens(lreq[r].name), NoLive(tokens(lreq[r].name))} :
                IsNameOf(lreq[r].key, name)
=============================================================================
