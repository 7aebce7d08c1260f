---------------------------- MODULE BhoonidhiClient ----------------------------
(***************************************************************************)
(* The client of the Bhoonidhi archive (providers/bhoonidhi.py): one call  *)
(* of search or download_product after the other, by one worker process    *)
(* that may be lost in any of them.  A call signs its requests with a      *)
(* token it keeps, renews or asks for (token), tries a request again on    *)
(* some answers, follows the links from page to page, and puts a product   *)
(* in place only after a check of what was received.                       *)
(*                                                                         *)
(* The archive is external: it refuses a token whose session has ended,    *)
(* may end a session or refuse a second one, and may answer any request    *)
(* with an error or not at all.                                            *)
(***************************************************************************)
EXTENDS Integers, FiniteSets, Sequences, SequencesExt, FiniteSetsExt

CONSTANTS Pages,          \* the items of each page of the archive's answer
          PageLinks,      \* the ways the pages may be linked
          AoiBox,         \* bounding box searched for
          ItemLimits,     \* the max_items of searches, 0 for none
          MaxRetries,
          TokenLife,      \* ticks until a token expires
          BodyChunks,     \* chunks of a product
          NoSession,
          LastTick,       \* bound: the clock stops here
          MaxFaults,      \* bound: ended sessions, damaged bodies, lost processes
          MaxCalls        \* bound: calls

NoPage == 0
ForeignPage == -1         \* a link that leaves the API base, or has no href

ASSUME ClientAssumption ==
    /\ Pages \in Seq(Seq([id : Nat, online : BOOLEAN, bbox : Seq(Int)]))
    /\ PageLinks \subseteq [DOMAIN Pages -> DOMAIN Pages \cup {NoPage, ForeignPage}]
    /\ {MaxRetries, TokenLife, LastTick, MaxFaults, MaxCalls} \subseteq Nat
    /\ BodyChunks \in Nat \ {0} /\ ItemLimits \subseteq Nat
    /\ 1 \in DOMAIN Pages /\ NoSession \notin [token : Nat, refresh : BOOLEAN, expires_at : Nat]
    \* No bound keeps a search from following pages in a circle.
    /\ \A f \in PageLinks : \A p \in DOMAIN Pages : f[p] \in DOMAIN Pages => f[p] > p
-----------------------------------------------------------------------------
(***************************************************************************)
(* An item of the archive becomes a candidate.  A box is west, south,      *)
(* east, north; the archive sometimes gives its latitudes the wrong way    *)
(* round.                                                                  *)
(***************************************************************************)
NoBox == <<>>

_normalise_bbox(box) ==
    IF Len(box) # 4 \/ box[1] >= box[3] THEN NoBox
    ELSE <<box[1], Min({box[2], box[4]}), box[3], Max({box[2], box[4]})>>

_bbox_intersection(p, q) ==
    LET box == <<Max({p[1], q[1]}), Max({p[2], q[2]}), Min({p[3], q[3]}), Min({p[4], q[4]})>>
    IN  IF box[1] >= box[3] \/ box[2] >= box[4] THEN NoBox ELSE box

_bbox_area(box) == IF box = NoBox THEN 0 ELSE (box[3] - box[1]) * (box[4] - box[2])

normalize_candidate(item) ==
    LET overlap == _bbox_intersection(_normalise_bbox(item.bbox), AoiBox)
    IN  [id |-> item.id, overlap_area |-> _bbox_area(overlap),
         wanted |-> item.online /\ overlap # NoBox]

\* The items of each page that come before one whose box cannot be used, which
\* makes the search raise.
Usable ==
    [p \in DOMAIN Pages |->
        Min({Len(Pages[p])} \cup {i - 1 : i \in {j \in DOMAIN Pages[p] :
                                                 _normalise_bbox(Pages[p][j].bbox) = NoBox}})]

\* The wanted ones of a page, in the order of the page.
normalize_candidates ==
    [p \in DOMAIN Pages |->
        LET wanted == {i \in 1..Usable[p] : normalize_candidate(Pages[p][i]).wanted}
            place(i) == Cardinality({j \in wanted : j <= i})
        IN  [k \in 1..Cardinality(wanted) |->
                normalize_candidate(Pages[p][CHOOSE i \in wanted : place(i) = k])]]
-----------------------------------------------------------------------------
VARIABLES clock,
          sessions,   \* the archive's sessions: when each expires, or ended it is 0
          session,    \* the client's TokenSession
          links,      \* how the pages are linked
          call,       \* the call under way, or how the last one ended
          dest, part, \* the product file and its .part file
          refused,    \* history: the tokens that were answered with 401
          used        \* [fault, call]: how much of each bound is used

vars == <<clock, sessions, session, links, call, dest, part, refused, used>>

\* clean: no byte of it was altered on the way.  length and checksum: the headers
\* declared one to check it against.
File == [chunks : 0..BodyChunks, clean : BOOLEAN, length : BOOLEAN, checksum : BOOLEAN]

\* A file that is not there is as good as an empty one.
NoFile == [chunks |-> 0, clean |-> TRUE, length |-> FALSE, checksum |-> FALSE]

IdleCall ==
    [pc |-> "idle", kind |-> "search", max_items |-> 0, page |-> 1, attempt |-> 0,
     candidates |-> <<>>]

Init ==
    /\ clock = 0
    /\ sessions = <<>>
    /\ session = NoSession
    /\ links \in PageLinks
    /\ call = IdleCall
    /\ dest = NoFile /\ part = NoFile
    /\ refused = {}
    /\ used = [fault |-> 0, call |-> 0]

Goto(pc) == call' = [call EXCEPT !.pc = pc]

Fault ==
    /\ used.fault < MaxFaults
    /\ used' = [used EXCEPT !.fault = @ + 1]

Alive(token) == clock < sessions[token]

AliveSessions == {token \in DOMAIN sessions : Alive(token)}

Tick ==
    /\ clock < LastTick
    /\ clock' = clock + 1
    /\ UNCHANGED <<sessions, session, links, call, dest, part, refused, used>>

EndSession ==
    /\ Fault
    /\ \E token \in AliveSessions : sessions' = [sessions EXCEPT ![token] = 0]
    /\ UNCHANGED <<clock, session, links, call, dest, part, refused>>
-----------------------------------------------------------------------------
(***************************************************************************)
(* Calls.                                                                  *)
(***************************************************************************)
BeginSearch ==
    /\ call.pc \in {"idle", "returned", "raised"}
    /\ used.call < MaxCalls
    /\ \E limit \in ItemLimits :
          call' = [IdleCall EXCEPT !.pc = "auth", !.max_items = limit]
    /\ used' = [used EXCEPT !.call = @ + 1]
    /\ UNCHANGED <<clock, sessions, session, links, dest, part, refused>>

\* A file that is there and not empty is given back as it is.
download_product ==
    /\ call.pc \in {"idle", "returned", "raised"}
    /\ used.call < MaxCalls
    /\ used' = [used EXCEPT !.call = @ + 1]
    /\ \/ /\ dest.chunks > 0
          /\ call' = [IdleCall EXCEPT !.pc = "returned", !.kind = "download"]
          /\ UNCHANGED part
       \/ /\ dest.chunks = 0
          /\ call' = [IdleCall EXCEPT !.pc = "auth", !.kind = "download"]
          /\ part' = NoFile
    /\ UNCHANGED <<clock, sessions, session, links, dest, refused>>

\* The next process of the job starts without a session; the archive's one
\* and the files stay.
ProcessLost ==
    /\ call.pc \notin {"idle", "returned", "raised"}
    /\ Fault
    /\ session' = NoSession
    /\ call' = IdleCall
    /\ UNCHANGED <<clock, sessions, links, dest, part, refused>>
-----------------------------------------------------------------------------
(***************************************************************************)
(* token().  A session is fresh up to a tick before it expires.            *)
(***************************************************************************)
is_fresh == session # NoSession /\ clock < session.expires_at - 1

\* Mutant: a token that is not fresh is always renewed.
TokenRenewed ==
    /\ call.pc = "auth"
    /\ Goto(IF is_fresh THEN "send" ELSE "refresh")
    /\ UNCHANGED <<clock, sessions, session, links, dest, part, refused, used>>

token ==
    /\ call.pc = "auth"
    /\ Goto(IF is_fresh THEN "send"
            ELSE IF session # NoSession /\ session.refresh THEN "refresh" ELSE "password")
    /\ UNCHANGED <<clock, sessions, session, links, dest, part, refused, used>>

\* The answer may or may not bring a refresh token.
_store_token ==
    /\ sessions' = Append(sessions, clock + TokenLife)
    /\ \E refresh \in BOOLEAN :
          session' = [token |-> Len(sessions) + 1, refresh |-> refresh,
                      expires_at |-> clock + TokenLife]
    /\ Goto("send")
    /\ UNCHANGED <<clock, links, dest, part, refused, used>>

\* Refused: the old session is logged out and given up, the password is next.
\* Any other error leaves the call.
_refresh_token ==
    /\ call.pc = "refresh"
    /\ \/ _store_token
       \/ /\ sessions' = [sessions EXCEPT ![session.token] = 0]
          /\ session' = NoSession
          /\ Goto("password")
          /\ UNCHANGED <<clock, links, dest, part, refused, used>>
       \/ /\ Goto("raised")
          /\ UNCHANGED <<clock, sessions, session, links, dest, part, refused, used>>

\* A 403 answer, which another live session can bring about, makes the client
\* log its own session out and ask once more; without one it gives up.
_password_token ==
    /\ call.pc = "password"
    /\ \/ _store_token
       \/ /\ AliveSessions # {}
          /\ \/ /\ session # NoSession
                /\ sessions' = [sessions EXCEPT ![session.token] = 0]
                /\ session' = NoSession
                /\ UNCHANGED call
             \/ session = NoSession /\ Goto("raised") /\ UNCHANGED <<sessions, session>>
          /\ UNCHANGED <<clock, links, dest, part, refused, used>>
       \/ /\ Goto("raised")
          /\ UNCHANGED <<clock, sessions, session, links, dest, part, refused, used>>
-----------------------------------------------------------------------------
(***************************************************************************)
(* The answer to a signed request, up to the ones that end the call.       *)
(***************************************************************************)
\* Mutant: a new request does not count as an attempt.
TryAgainUncounted == [call EXCEPT !.pc = "auth"]

\* Another attempt, from token() on, or the end of the call.
TryAgain ==
    IF call.attempt < MaxRetries
    THEN [call EXCEPT !.pc = "auth", !.attempt = @ + 1]
    ELSE [call EXCEPT !.pc = "raised"]

\* Mutant: the session is kept.
UnauthorizedKeepsSession ==
    /\ call.pc = "send"
    /\ ~Alive(session.token)
    /\ refused' = refused \cup {session.token}
    /\ call' = TryAgain
    /\ UNCHANGED <<clock, sessions, session, links, dest, part, used>>

\* 401: the session is over, at the archive and here.
Unauthorized ==
    /\ call.pc = "send"
    /\ ~Alive(session.token)
    /\ refused' = refused \cup {session.token}
    /\ session' = NoSession
    /\ call' = TryAgain
    /\ UNCHANGED <<clock, sessions, links, dest, part, used>>

\* An answer worth another try; one that is not, a lost product, a timeout or
\* a broken connection ends the call.
AnswerFails ==
    /\ call.pc = "send"
    /\ Alive(session.token)
    /\ call' \in {TryAgain, [call EXCEPT !.pc = "raised"]}
    /\ UNCHANGED <<clock, sessions, session, links, dest, part, refused, used>>
-----------------------------------------------------------------------------
(***************************************************************************)
(* search: page after page.                                                *)
(***************************************************************************)
Shortened(candidates) ==
    IF call.max_items = 0 THEN candidates ELSE SubSeq(candidates, 1, Min({call.max_items, Len(candidates)}))

Satisfied(candidates) == call.max_items > 0 /\ Len(candidates) >= call.max_items

\* Mutant: every page counts as full, and the pages after it are left out.
SearchPageAlone(p, candidates) == [call EXCEPT !.pc = "returned", !.candidates = candidates]

\* The next link is followed unless enough was found.  A link that has no href
\* or leaves the API base raises; the new request has all its attempts.
FollowLink(p, candidates) ==
    [call EXCEPT !.candidates = candidates, !.attempt = 0,
        !.pc = IF Satisfied(candidates) \/ links[p] = NoPage THEN "returned"
               ELSE IF links[p] = ForeignPage THEN "raised" ELSE "auth",
        !.page = IF Satisfied(candidates) \/ links[p] \notin DOMAIN Pages THEN @ ELSE links[p]]

\* An item whose box cannot be used makes the search raise, unless enough was
\* found before it.
SearchPage ==
    /\ call.pc = "send" /\ call.kind = "search"
    /\ Alive(session.token)
    /\ LET p     == call.page
           found == Shortened(call.candidates \o normalize_candidates[p])
       IN  call' = IF Usable[p] < Len(Pages[p]) /\ ~Satisfied(found) THEN [call EXCEPT !.pc = "raised"]
                   ELSE FollowLink(p, found)
    /\ UNCHANGED <<clock, sessions, session, links, dest, part, refused, used>>
-----------------------------------------------------------------------------
(***************************************************************************)
(* _download_once.                                                         *)
(***************************************************************************)
\* The headers may declare a length, a checksum, both or neither.
ReceiveHeaders ==
    /\ call.pc = "send" /\ call.kind = "download"
    /\ Alive(session.token)
    /\ \E length, checksum \in BOOLEAN :
          part' = [chunks |-> 0, clean |-> TRUE, length |-> length, checksum |-> checksum]
    /\ call' = [call EXCEPT !.pc = "body"]
    /\ UNCHANGED <<clock, sessions, session, links, dest, refused, used>>

ReceiveChunk ==
    /\ call.pc = "body"
    /\ part.chunks < BodyChunks
    /\ \/ part' = [part EXCEPT !.chunks = @ + 1] /\ UNCHANGED used
       \/ Fault /\ part' = [part EXCEPT !.chunks = @ + 1, !.clean = FALSE]
    /\ UNCHANGED <<clock, sessions, session, links, call, dest, refused>>

\* The stream ends, too early perhaps.
BodyEnds ==
    /\ call.pc = "body"
    /\ \/ part.chunks = BodyChunks /\ UNCHANGED used
       \/ part.chunks < BodyChunks /\ Fault
    /\ Goto("verify")
    /\ UNCHANGED <<clock, sessions, session, links, dest, part, refused>>

BodyTimesOut ==
    /\ call.pc = "body"
    /\ Fault
    /\ part' = NoFile
    /\ Goto("raised")
    /\ UNCHANGED <<clock, sessions, session, links, dest, refused>>

\* Each check is made of what was declared alone: a length says nothing of the
\* bytes, a checksum something of both.
SizeMatches == part.length => part.chunks = BodyChunks

ChecksumMatches == part.checksum => part.chunks = BodyChunks /\ part.clean

\* Mutant: the product is put in place before it is checked.
VerifyInPlace ==
    /\ call.pc = "verify"
    /\ dest' = part /\ part' = NoFile
    /\ Goto(IF SizeMatches /\ ChecksumMatches THEN "returned" ELSE "raised")
    /\ UNCHANGED <<clock, sessions, session, links, refused, used>>

_verify_download_integrity ==
    /\ call.pc = "verify"
    /\ \/ /\ SizeMatches /\ ChecksumMatches
          /\ Goto("replace")
          /\ UNCHANGED part
       \/ /\ ~SizeMatches \/ ~ChecksumMatches
          /\ part' = NoFile
          /\ Goto("raised")
    /\ UNCHANGED <<clock, sessions, session, links, dest, refused, used>>

ReplaceDestination ==
    /\ call.pc = "replace"
    /\ dest' = part /\ part' = NoFile
    /\ Goto("returned")
    /\ UNCHANGED <<clock, sessions, session, links, refused, used>>

ClientStep ==
    \/ token
    \/ _refresh_token
    \/ _password_token
    \/ Unauthorized
    \/ AnswerFails
    \/ SearchPage
    \/ ReceiveHeaders
    \/ ReceiveChunk
    \/ BodyEnds
    \/ BodyTimesOut
    \/ _verify_download_integrity
    \/ ReplaceDestination

Quiescent ==
    /\ call.pc \in {"idle", "returned", "raised"}
    /\ used.call = MaxCalls
    /\ UNCHANGED vars

Next ==
    \/ Tick
    \/ EndSession
    \/ BeginSearch
    \/ download_product
    \/ ProcessLost
    \/ ClientStep
    \/ Quiescent

Spec == Init /\ [][Next]_vars

\* A call that has begun goes on: every request of it is answered or times out.
FairSpec == Spec /\ WF_vars(ClientStep)
-----------------------------------------------------------------------------
\* Every variable keeps its type; a request is sent with a session, and no
\* request is attempted more than once after the first and MaxRetries more.
TypeOK ==
    /\ clock \in 0..LastTick
    /\ sessions \in Seq(0..(LastTick + TokenLife))
    /\ session # NoSession =>
          session \in [token : DOMAIN sessions, refresh : BOOLEAN, expires_at : 0..(LastTick + TokenLife)]
    /\ links \in PageLinks
    /\ call.kind \in {"search", "download"}
    /\ call.page \in DOMAIN Pages /\ call.max_items \in ItemLimits \cup {0}
    /\ call.attempt \in 0..MaxRetries
    /\ {dest, part} \subseteq File
    /\ refused \subseteq DOMAIN sessions
    /\ used \in [fault : 0..MaxFaults, call : 0..MaxCalls]
    /\ call.pc \in {"send", "refresh"} => session # NoSession

\* The wanted items of each page and of the pages it leads to, in order.
ItemsFrom ==
    LET items[p \in DOMAIN Pages] ==
            normalize_candidates[p] \o (IF links[p] \in DOMAIN Pages THEN items[links[p]] ELSE <<>>)
    IN  items

\* A search returns what the archive has, whatever was tried again, renewed or
\* refused on the way: the wanted items of all linked pages, in order, each
\* once, or the first max_items of them.
SearchReturnsEveryItem ==
    call.pc = "returned" /\ call.kind = "search" => call.candidates = Shortened(ItemsFrom[1])

\* A token that was answered with 401 is never sent again: the next attempt
\* has a new one.
RefusedTokenNotSent == call.pc = "send" => session.token \notin refused

\* A product in place is whole if the archive declared its length or a checksum,
\* and as the archive sent it if it declared a checksum: an error, a cut body or
\* a lost process leaves a .part file at most, which no later call takes for the
\* product.  With a length alone, the usual answer, altered bytes go unnoticed;
\* with neither, so does a cut body.
ProductInPlaceIsWhole ==
    /\ dest.length \/ dest.checksum => dest.chunks = BodyChunks
    /\ dest.checksum => dest.clean

\* A call ends, however its requests are answered: there is no bound on the
\* pages of a search, but there is one on the attempts of each request.
EveryCallEnds == call.pc = "auth" ~> call.pc \in {"idle", "returned", "raised"}
=============================================================================
