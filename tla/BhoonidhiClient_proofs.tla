------------------------ MODULE BhoonidhiClient_proofs ------------------------
(***************************************************************************)
(* Proofs about BhoonidhiClient, for any pages and links, any lifetime of  *)
(* a token, any number of retries, chunks, faults and calls: a token that  *)
(* was refused is not sent again, a product in place is whole, and a       *)
(* search returns every item there is.                                     *)
(***************************************************************************)
EXTENDS BhoonidhiClient, FiniteSetTheorems, SequenceTheorems, WellFoundedInduction, TLAPS

Phases == {"idle", "auth", "refresh", "password", "send", "body", "verify", "replace", "returned", "raised"}

Sessions == [token : DOMAIN sessions, refresh : BOOLEAN, expires_at : 0..(LastTick + TokenLife)]

CallOK ==
    /\ call = [pc |-> call.pc, kind |-> call.kind, max_items |-> call.max_items, page |-> call.page,
               attempt |-> call.attempt, candidates |-> call.candidates]
    /\ call.pc \in Phases /\ call.kind \in {"search", "download"}
    /\ call.page \in DOMAIN Pages /\ call.max_items \in ItemLimits \cup {0}
    /\ call.attempt \in 0..MaxRetries

\* The token the client holds has not been refused: it is given up when it is.
SessionsOK ==
    /\ clock \in 0..LastTick
    /\ sessions \in Seq(0..(LastTick + TokenLife))
    /\ refused \subseteq DOMAIN sessions
    /\ session # NoSession => session \in Sessions /\ session.token \notin refused
    /\ call.pc \in {"send", "refresh"} => session # NoSession

\* Only a file that was checked is ever put in place.
Checked(file) ==
    /\ file.length => file.chunks = BodyChunks
    /\ file.checksum => file.chunks = BodyChunks /\ file.clean

FilesOK ==
    /\ dest \in File /\ part \in File
    /\ call.pc = "replace" => Checked(part)
    /\ Checked(dest)

BoundsOK ==
    /\ links \in PageLinks
    /\ used \in [fault : 0..MaxFaults, call : 0..MaxCalls]

IInv == CallOK /\ SessionsOK /\ FilesOK /\ BoundsOK
-----------------------------------------------------------------------------
LEMMA Constants ==
    /\ MaxRetries \in Nat /\ TokenLife \in Nat /\ LastTick \in Nat /\ MaxFaults \in Nat /\ MaxCalls \in Nat
    /\ BodyChunks \in Nat /\ BodyChunks # 0 /\ 1 \in DOMAIN Pages
    /\ NoSession \notin [token : Nat, refresh : BOOLEAN, expires_at : Nat]
  BY ClientAssumption

LEMMA NoFileIsFile == NoFile \in File /\ Checked(NoFile)
  BY Constants DEF NoFile, File, Checked

LEMMA IdleCallOK ==
    ASSUME NEW pc \in Phases, NEW kind \in {"search", "download"}, NEW limit \in ItemLimits \cup {0},
           call' = [pc |-> pc, kind |-> kind, max_items |-> limit, page |-> 1, attempt |-> 0,
                    candidates |-> <<>>]
    PROVE  CallOK' /\ call'.pc = pc
  BY Constants DEF CallOK

\* The call in another phase, with what it has found so far.
LEMMA CallMoves ==
    ASSUME CallOK, NEW pc \in Phases, NEW page \in DOMAIN Pages, NEW attempt \in 0..MaxRetries,
           NEW candidates,
           call' = [pc |-> pc, kind |-> call.kind, max_items |-> call.max_items, page |-> page,
                    attempt |-> attempt, candidates |-> candidates]
    PROVE  CallOK' /\ call'.pc = pc
  BY DEF CallOK

LEMMA GotoMoves ==
    ASSUME CallOK, NEW pc \in Phases, Goto(pc)
    PROVE  CallOK' /\ call'.pc = pc
  <1>1. call' = [pc |-> pc, kind |-> call.kind, max_items |-> call.max_items, page |-> call.page,
                 attempt |-> call.attempt, candidates |-> call.candidates]
    BY DEF CallOK, Goto
  <1> QED  BY <1>1, CallMoves DEF CallOK

LEMMA TryAgainMoves ==
    ASSUME CallOK, call' \in {TryAgain, [call EXCEPT !.pc = "raised"]}
    PROVE  CallOK' /\ call'.pc \in {"auth", "raised"}
  <1>1. CASE call' = [call EXCEPT !.pc = "raised"]
    BY <1>1, GotoMoves DEF Goto, Phases
  <1>2. CASE call' = TryAgain /\ call.attempt < MaxRetries
    <2>1. call' = [pc |-> "auth", kind |-> call.kind, max_items |-> call.max_items, page |-> call.page,
                   attempt |-> call.attempt + 1, candidates |-> call.candidates]
      BY <1>2 DEF CallOK, TryAgain
    <2>2. call.attempt + 1 \in 0..MaxRetries
      BY <1>2, Constants DEF CallOK
    <2> QED  BY <2>1, <2>2, CallMoves DEF CallOK, Phases
  <1>3. CASE call' = TryAgain /\ ~(call.attempt < MaxRetries)
    BY <1>3, GotoMoves DEF Goto, Phases, TryAgain
  <1> QED  BY <1>1, <1>2, <1>3

LEMMA UsedOfFault ==
    ASSUME BoundsOK, Fault
    PROVE  used' \in [fault : 0..MaxFaults, call : 0..MaxCalls]
  <1>1. used.fault + 1 \in 0..MaxFaults /\ used' = [used EXCEPT !.fault = @ + 1]
    BY Constants DEF BoundsOK, Fault
  <1> QED  BY <1>1 DEF BoundsOK

LEMMA UsedOfCall ==
    ASSUME BoundsOK, used.call < MaxCalls, used' = [used EXCEPT !.call = @ + 1]
    PROVE  used' \in [fault : 0..MaxFaults, call : 0..MaxCalls]
  <1>1. used.call + 1 \in 0..MaxCalls
    BY Constants DEF BoundsOK
  <1> QED  BY <1>1 DEF BoundsOK
-----------------------------------------------------------------------------
LEMMA InitInv == Init => IInv
  <1> SUFFICES ASSUME Init
               PROVE  IInv
    OBVIOUS
  <1>1. CallOK
    BY Constants DEF Init, IdleCall, CallOK, Phases
  <1>2. SessionsOK
    BY Constants DEF Init, IdleCall, SessionsOK
  <1>3. FilesOK
    BY NoFileIsFile DEF Init, IdleCall, FilesOK
  <1>4. BoundsOK
    BY Constants DEF Init, BoundsOK
  <1> QED  BY <1>1, <1>2, <1>3, <1>4 DEF IInv

\* A step that is about the sessions at most.
LEMMA FilesKept ==
    ASSUME FilesOK, UNCHANGED <<dest, part>>, call'.pc # "replace" \/ UNCHANGED call
    PROVE  FilesOK'
  BY DEF FilesOK, Checked

\* A step that is about the files at most.
LEMMA SessionsKept ==
    ASSUME SessionsOK, UNCHANGED <<clock, sessions, session, refused>>,
           call'.pc \in {"send", "refresh"} => session # NoSession
    PROVE  SessionsOK'
  BY DEF SessionsOK, Sessions

LEMMA StoreTokenStep ==
    ASSUME IInv, _store_token, call.pc # "replace"
    PROVE  IInv'
  <1>1. PICK refresh \in BOOLEAN :
           /\ session' = [token |-> Len(sessions) + 1, refresh |-> refresh, expires_at |-> clock + TokenLife]
           /\ sessions' = Append(sessions, clock + TokenLife)
           /\ Goto("send") /\ UNCHANGED <<clock, links, dest, part, refused, used>>
    BY DEF _store_token
  <1>2. CallOK' /\ call'.pc = "send"
    BY <1>1, GotoMoves DEF IInv, Phases
  <1>3. clock + TokenLife \in 0..(LastTick + TokenLife) /\ clock + TokenLife \in Nat
    BY Constants DEF IInv, SessionsOK
  <1>4. /\ sessions' \in Seq(0..(LastTick + TokenLife)) /\ Len(sessions) \in Nat
        /\ DOMAIN sessions = 1..Len(sessions) /\ DOMAIN sessions' = 1..(Len(sessions) + 1)
    BY <1>1, <1>3 DEF IInv, SessionsOK
  <1>5. session' \in Sessions'
    BY <1>1, <1>3, <1>4 DEF Sessions
  <1>6. session' # NoSession
    BY <1>1, <1>3, <1>4, Constants
  <1>7. session'.token \notin refused' /\ refused' \subseteq DOMAIN sessions'
    BY <1>1, <1>4 DEF IInv, SessionsOK
  <1>8. SessionsOK'
    BY <1>1, <1>4, <1>5, <1>6, <1>7 DEF IInv, SessionsOK
  <1>9. FilesOK'
    BY <1>1, <1>2, FilesKept DEF IInv
  <1> QED  BY <1>1, <1>2, <1>8, <1>9 DEF IInv, BoundsOK

\* A session of the archive that is ended keeps its place.
LEMMA EndedSession ==
    ASSUME IInv, NEW over \in DOMAIN sessions, sessions' = [sessions EXCEPT ![over] = 0]
    PROVE  sessions' \in Seq(0..(LastTick + TokenLife)) /\ DOMAIN sessions' = DOMAIN sessions
  <1>1. sessions \in Seq(0..(LastTick + TokenLife)) /\ 0 \in 0..(LastTick + TokenLife)
    BY Constants DEF IInv, SessionsOK
  <1> QED  BY <1>1

LEMMA GivenUp ==
    ASSUME IInv, session # NoSession, sessions' = [sessions EXCEPT ![session.token] = 0],
           session' = NoSession, CallOK', call'.pc = "password",
           UNCHANGED <<clock, links, dest, part, refused, used>>
    PROVE  IInv'
  <1>1. session.token \in DOMAIN sessions
    BY DEF IInv, SessionsOK, Sessions
  <1>2. sessions' \in Seq(0..(LastTick + TokenLife)) /\ DOMAIN sessions' = DOMAIN sessions
    BY <1>1, EndedSession
  <1>3. SessionsOK'
    BY <1>2 DEF IInv, SessionsOK
  <1> QED  BY <1>3, FilesKept DEF IInv, BoundsOK

\* A step that only moves the call on.
LEMMA MovedStep ==
    ASSUME IInv, CallOK', call'.pc # "replace", call'.pc \in {"send", "refresh"} => session # NoSession,
           UNCHANGED <<clock, sessions, session, links, dest, part, refused, used>>
    PROVE  IInv'
  BY FilesKept, SessionsKept DEF IInv, BoundsOK

LEMMA RefreshStep ==
    ASSUME IInv, _refresh_token
    PROVE  IInv'
  <1>1. call.pc = "refresh" /\ session # NoSession
    BY DEF _refresh_token, IInv, SessionsOK
  <1>2. CASE _store_token
    BY <1>1, <1>2, StoreTokenStep
  <1>3. CASE /\ sessions' = [sessions EXCEPT ![session.token] = 0]
             /\ session' = NoSession /\ Goto("password")
             /\ UNCHANGED <<clock, links, dest, part, refused, used>>
    BY <1>1, <1>3, GotoMoves, GivenUp DEF IInv, Phases
  <1>4. CASE /\ Goto("raised")
             /\ UNCHANGED <<clock, sessions, session, links, dest, part, refused, used>>
    BY <1>4, GotoMoves, MovedStep DEF IInv, Phases
  <1> QED  BY <1>2, <1>3, <1>4 DEF _refresh_token

LEMMA PasswordStep ==
    ASSUME IInv, _password_token
    PROVE  IInv'
  <1>1. call.pc = "password"
    BY DEF _password_token
  <1>2. CASE _store_token
    BY <1>1, <1>2, StoreTokenStep
  <1>3. CASE /\ session # NoSession /\ sessions' = [sessions EXCEPT ![session.token] = 0]
             /\ session' = NoSession /\ UNCHANGED call
             /\ UNCHANGED <<clock, links, dest, part, refused, used>>
    <2>1. CallOK' /\ call'.pc = "password"
      BY <1>1, <1>3 DEF IInv, CallOK
    <2> QED  BY <1>3, <2>1, GivenUp
  <1>4. CASE /\ Goto("raised")
             /\ UNCHANGED <<clock, sessions, session, links, dest, part, refused, used>>
    BY <1>4, GotoMoves, MovedStep DEF IInv, Phases
  <1> QED  BY <1>2, <1>3, <1>4 DEF _password_token

LEMMA TokenStep ==
    ASSUME IInv, token
    PROVE  IInv'
  <1>1. PICK pc \in {"send", "refresh", "password"} :
           /\ Goto(pc)
           /\ pc \in {"send", "refresh"} => session # NoSession
           /\ UNCHANGED <<clock, sessions, session, links, dest, part, refused, used>>
    BY DEF token, is_fresh
  <1>2. CallOK' /\ call'.pc = pc
    BY <1>1, GotoMoves DEF IInv, Phases
  <1> QED  BY <1>1, <1>2, MovedStep

LEMMA UnauthorizedStep ==
    ASSUME IInv, Unauthorized
    PROVE  IInv'
  <1>1. /\ call.pc = "send" /\ refused' = refused \cup {session.token} /\ session' = NoSession
        /\ call' = TryAgain /\ UNCHANGED <<clock, sessions, links, dest, part, used>>
    BY DEF Unauthorized
  <1>2. CallOK' /\ call'.pc \in {"auth", "raised"}
    BY <1>1, TryAgainMoves DEF IInv
  <1>3. session.token \in DOMAIN sessions
    BY <1>1 DEF IInv, SessionsOK, Sessions
  <1>4. SessionsOK'
    BY <1>1, <1>2, <1>3 DEF IInv, SessionsOK
  <1> QED  BY <1>1, <1>2, <1>4, FilesKept DEF IInv, BoundsOK

LEMMA FollowLinkMoves ==
    ASSUME IInv, NEW found, call' = FollowLink(call.page, found)
    PROVE  CallOK' /\ call'.pc \in {"returned", "raised", "auth"}
  <1>1. PICK pc : pc = IF Satisfied(found) \/ links[call.page] = NoPage THEN "returned"
                       ELSE IF links[call.page] = ForeignPage THEN "raised" ELSE "auth"
    OBVIOUS
  <1>2. PICK page : page = IF Satisfied(found) \/ links[call.page] \notin DOMAIN Pages THEN call.page
                           ELSE links[call.page]
    OBVIOUS
  <1>3. call' = [pc |-> pc, kind |-> call.kind, max_items |-> call.max_items, page |-> page,
                 attempt |-> 0, candidates |-> found]
    BY <1>1, <1>2 DEF IInv, CallOK, FollowLink
  <1>4. pc \in {"returned", "raised", "auth"} /\ page \in DOMAIN Pages /\ 0 \in 0..MaxRetries
    BY <1>1, <1>2, Constants DEF IInv, CallOK
  <1> QED  BY <1>3, <1>4, CallMoves DEF IInv, Phases

LEMMA SearchPageStep ==
    ASSUME IInv, SearchPage
    PROVE  IInv'
  <1>1. PICK found : call' \in {[call EXCEPT !.pc = "raised"], FollowLink(call.page, found)}
    BY DEF SearchPage
  <1>2. CallOK' /\ call'.pc \in {"returned", "raised", "auth"}
    <2>1. CASE call' = [call EXCEPT !.pc = "raised"]
      BY <2>1, GotoMoves DEF IInv, Goto, Phases
    <2>2. CASE call' = FollowLink(call.page, found)
      BY <2>2, FollowLinkMoves
    <2> QED  BY <1>1, <2>1, <2>2
  <1> QED  BY <1>2, MovedStep DEF SearchPage

LEMMA AnswerFailsStep ==
    ASSUME IInv, AnswerFails
    PROVE  IInv'
  <1>1. CallOK' /\ call'.pc \in {"auth", "raised"}
    BY TryAgainMoves DEF AnswerFails, IInv
  <1> QED  BY <1>1, MovedStep DEF AnswerFails

\* A step that receives, drops or keeps what is in the .part file.
LEMMA PartStep ==
    ASSUME IInv, CallOK', call'.pc \notin {"send", "refresh"}, part' \in File,
           call'.pc = "replace" => Checked(part'),
           UNCHANGED <<clock, sessions, session, links, dest, refused>>,
           used' \in [fault : 0..MaxFaults, call : 0..MaxCalls]
    PROVE  IInv'
  <1>1. SessionsOK'
    BY SessionsKept DEF IInv
  <1>2. FilesOK'
    BY DEF IInv, FilesOK, Checked
  <1> QED  BY <1>1, <1>2 DEF IInv, BoundsOK

LEMMA ReceiveHeadersStep ==
    ASSUME IInv, ReceiveHeaders
    PROVE  IInv'
  <1>1. PICK length \in BOOLEAN, checksum \in BOOLEAN :
            part' = [chunks |-> 0, clean |-> TRUE, length |-> length, checksum |-> checksum]
    BY DEF ReceiveHeaders
  <1>2. Goto("body") /\ UNCHANGED <<clock, sessions, session, links, dest, refused, used>>
    BY DEF ReceiveHeaders, Goto
  <1>3. part' \in File
    BY <1>1, Constants DEF File
  <1>4. CallOK' /\ call'.pc = "body"
    BY <1>2, GotoMoves DEF IInv, Phases
  <1> QED  BY <1>2, <1>3, <1>4, PartStep DEF IInv, BoundsOK

LEMMA ReceiveChunkStep ==
    ASSUME IInv, ReceiveChunk
    PROVE  IInv'
  <1>1. /\ call.pc = "body" /\ part.chunks < BodyChunks
        /\ UNCHANGED <<clock, sessions, session, links, call, dest, refused>>
    BY DEF ReceiveChunk
  <1>2. part \in File /\ part.chunks + 1 \in 0..BodyChunks
    BY <1>1, Constants DEF IInv, FilesOK, File
  <1>3. part' \in File
    BY <1>2 DEF ReceiveChunk, File
  <1>4. used' \in [fault : 0..MaxFaults, call : 0..MaxCalls]
    <2>1. CASE used' = used
      BY <2>1 DEF IInv, BoundsOK
    <2>2. CASE Fault
      BY <2>2, UsedOfFault DEF IInv
    <2> QED  BY <2>1, <2>2 DEF ReceiveChunk
  <1>5. CallOK' /\ call'.pc = "body"
    BY <1>1 DEF IInv, CallOK
  <1> QED  BY <1>1, <1>3, <1>4, <1>5, PartStep

LEMMA BodyEndsStep ==
    ASSUME IInv, BodyEnds
    PROVE  IInv'
  <1>1. Goto("verify") /\ UNCHANGED <<clock, sessions, session, links, dest, part, refused>>
    BY DEF BodyEnds
  <1>2. used' \in [fault : 0..MaxFaults, call : 0..MaxCalls]
    <2>1. CASE used' = used
      BY <2>1 DEF IInv, BoundsOK
    <2>2. CASE Fault
      BY <2>2, UsedOfFault DEF IInv
    <2> QED  BY <2>1, <2>2 DEF BodyEnds
  <1>3. CallOK' /\ call'.pc = "verify"
    BY <1>1, GotoMoves DEF IInv, Phases
  <1> QED  BY <1>1, <1>2, <1>3, PartStep DEF IInv, FilesOK

LEMMA BodyTimesOutStep ==
    ASSUME IInv, BodyTimesOut
    PROVE  IInv'
  <1>1. /\ Goto("raised") /\ Fault /\ part' = NoFile
        /\ UNCHANGED <<clock, sessions, session, links, dest, refused>>
    BY DEF BodyTimesOut
  <1>2. CallOK' /\ call'.pc = "raised"
    BY <1>1, GotoMoves DEF IInv, Phases
  <1>3. used' \in [fault : 0..MaxFaults, call : 0..MaxCalls]
    BY <1>1, UsedOfFault DEF IInv
  <1> QED  BY <1>1, <1>2, <1>3, NoFileIsFile, PartStep

LEMMA VerifyStep ==
    ASSUME IInv, _verify_download_integrity
    PROVE  IInv'
  <1>1. UNCHANGED <<clock, sessions, session, links, dest, refused, used>>
    BY DEF _verify_download_integrity
  <1>2. CASE Checked(part) /\ Goto("replace") /\ UNCHANGED part
    <2>1. CallOK' /\ call'.pc = "replace"
      BY <1>2, GotoMoves DEF IInv, Phases
    <2>2. part' \in File /\ Checked(part')
      BY <1>2 DEF IInv, FilesOK
    <2> QED  BY <1>1, <2>1, <2>2, PartStep DEF IInv, BoundsOK
  <1>3. CASE part' = NoFile /\ Goto("raised")
    <2>1. CallOK' /\ call'.pc = "raised"
      BY <1>3, GotoMoves DEF IInv, Phases
    <2> QED  BY <1>1, <1>3, <2>1, NoFileIsFile, PartStep DEF IInv, BoundsOK
  <1> QED  BY <1>2, <1>3 DEF _verify_download_integrity, SizeMatches, ChecksumMatches, Checked

LEMMA ReplaceStep ==
    ASSUME IInv, ReplaceDestination
    PROVE  IInv'
  <1>1. /\ call.pc = "replace" /\ dest' = part /\ part' = NoFile /\ Goto("returned")
        /\ UNCHANGED <<clock, sessions, session, links, refused, used>>
    BY DEF ReplaceDestination
  <1>2. CallOK' /\ call'.pc = "returned"
    BY <1>1, GotoMoves DEF IInv, Phases
  <1>3. FilesOK'
    BY <1>1, <1>2, NoFileIsFile DEF IInv, FilesOK, Checked
  <1>4. SessionsOK'
    BY <1>1, <1>2, SessionsKept DEF IInv
  <1> QED  BY <1>1, <1>2, <1>3, <1>4 DEF IInv, BoundsOK

LEMMA BeginSearchStep ==
    ASSUME IInv, BeginSearch
    PROVE  IInv'
  <1>1. PICK limit \in ItemLimits : call' = [IdleCall EXCEPT !.pc = "auth", !.max_items = limit]
    BY DEF BeginSearch
  <1>2. call' = [pc |-> "auth", kind |-> "search", max_items |-> limit, page |-> 1, attempt |-> 0,
                  candidates |-> <<>>]
    BY <1>1 DEF IdleCall
  <1>3. CallOK' /\ call'.pc = "auth"
    BY <1>2, IdleCallOK DEF Phases
  <1>4. /\ UNCHANGED <<clock, sessions, session, links, dest, part, refused>>
        /\ used' \in [fault : 0..MaxFaults, call : 0..MaxCalls]
    BY UsedOfCall DEF BeginSearch, IInv
  <1> QED  BY <1>3, <1>4, PartStep DEF IInv, FilesOK

LEMMA DownloadStep ==
    ASSUME IInv, download_product
    PROVE  IInv'
  <1>1. /\ UNCHANGED <<clock, sessions, session, links, dest, refused>>
        /\ used' \in [fault : 0..MaxFaults, call : 0..MaxCalls]
    BY UsedOfCall DEF download_product, IInv
  <1>2. PICK pc \in {"returned", "auth"} : call' = [IdleCall EXCEPT !.pc = pc, !.kind = "download"]
    BY DEF download_product
  <1>3. call' = [pc |-> pc, kind |-> "download", max_items |-> 0, page |-> 1, attempt |-> 0,
                  candidates |-> <<>>]
    BY <1>2 DEF IdleCall
  <1>4. CallOK' /\ call'.pc = pc
    BY <1>3, IdleCallOK DEF Phases
  <1>5. part' \in File
    BY NoFileIsFile DEF download_product, IInv, FilesOK
  <1> QED  BY <1>1, <1>4, <1>5, PartStep

LEMMA ProcessLostStep ==
    ASSUME IInv, ProcessLost
    PROVE  IInv'
  <1>1. /\ session' = NoSession /\ call' = IdleCall /\ Fault
        /\ UNCHANGED <<clock, sessions, links, dest, part, refused>>
    BY DEF ProcessLost
  <1>2. call' = [pc |-> "idle", kind |-> "search", max_items |-> 0, page |-> 1, attempt |-> 0,
                  candidates |-> <<>>]
    BY <1>1 DEF IdleCall
  <1>3. CallOK' /\ call'.pc = "idle"
    BY <1>2, IdleCallOK DEF Phases
  <1>4. SessionsOK'
    BY <1>1, <1>3 DEF IInv, SessionsOK
  <1>5. used' \in [fault : 0..MaxFaults, call : 0..MaxCalls]
    BY <1>1, UsedOfFault DEF IInv
  <1> QED  BY <1>1, <1>3, <1>4, <1>5, FilesKept DEF IInv, BoundsOK

LEMMA EndSessionStep ==
    ASSUME IInv, EndSession
    PROVE  IInv'
  <1>1. PICK over \in AliveSessions : sessions' = [sessions EXCEPT ![over] = 0]
    BY DEF EndSession
  <1>2. Fault /\ UNCHANGED <<clock, session, links, call, dest, part, refused>>
    BY DEF EndSession
  <1>3. sessions' \in Seq(0..(LastTick + TokenLife)) /\ DOMAIN sessions' = DOMAIN sessions
    BY <1>1, EndedSession DEF AliveSessions
  <1>4. SessionsOK'
    BY <1>2, <1>3 DEF IInv, SessionsOK, Sessions
  <1>5. used' \in [fault : 0..MaxFaults, call : 0..MaxCalls]
    BY <1>2, UsedOfFault DEF IInv
  <1>6. CallOK' /\ FilesOK'
    BY <1>2, FilesKept DEF IInv, CallOK
  <1> QED  BY <1>2, <1>4, <1>5, <1>6 DEF IInv, BoundsOK

LEMMA UnchangedStep ==
    ASSUME IInv, UNCHANGED vars
    PROVE  IInv'
  BY DEF vars, IInv, CallOK, SessionsOK, Sessions, FilesOK, Checked, BoundsOK

LEMMA TickStep ==
    ASSUME IInv, Tick
    PROVE  IInv'
  <1>1. clock' \in 0..LastTick
    BY Constants DEF Tick, IInv, SessionsOK
  <1>2. UNCHANGED <<sessions, session, links, call, dest, part, refused, used>>
    BY DEF Tick
  <1>3. SessionsOK'
    BY <1>1, <1>2 DEF IInv, SessionsOK, Sessions
  <1> QED  BY <1>2, <1>3, FilesKept DEF IInv, CallOK, BoundsOK
-----------------------------------------------------------------------------
LEMMA NextInv == IInv /\ [Next]_vars => IInv'
  <1> SUFFICES ASSUME IInv, [Next]_vars
               PROVE  IInv'
    OBVIOUS
  <1>1. CASE Tick \/ EndSession \/ ProcessLost
    BY <1>1, TickStep, EndSessionStep, ProcessLostStep
  <1>2. CASE BeginSearch \/ download_product
    BY <1>2, BeginSearchStep, DownloadStep
  <1>3. CASE ClientStep
    BY <1>3, TokenStep, RefreshStep, PasswordStep, UnauthorizedStep, AnswerFailsStep, SearchPageStep,
       ReceiveHeadersStep, ReceiveChunkStep, BodyEndsStep, BodyTimesOutStep, VerifyStep, ReplaceStep
       DEF ClientStep
  <1>4. CASE Quiescent \/ UNCHANGED vars
    BY <1>4, UnchangedStep DEF Quiescent
  <1> QED  BY <1>1, <1>2, <1>3, <1>4 DEF Next

LEMMA AlwaysIInv == Spec => []IInv
  <1> QED  BY InitInv, NextInv, PTL DEF Spec

LEMMA TypesOfIInv == IInv => TypeOK
  BY DEF IInv, CallOK, SessionsOK, Sessions, FilesOK, BoundsOK, TypeOK

LEMMA RefusedOfIInv == IInv => RefusedTokenNotSent
  BY DEF IInv, SessionsOK, RefusedTokenNotSent

LEMMA WholeOfIInv == IInv => ProductInPlaceIsWhole
  BY DEF IInv, FilesOK, Checked, ProductInPlaceIsWhole

\* Whatever the archive answers, a request is sent with a session the archive
\* has opened, and attempted MaxRetries times again at most.
THEOREM Types == Spec => []TypeOK
  <1> QED  BY AlwaysIInv, TypesOfIInv, PTL

\* A token that was answered with 401 is not sent again: the client's session is
\* never one of those that were refused.
THEOREM RefusedTokens == Spec => []RefusedTokenNotSent
  <1> QED  BY AlwaysIInv, RefusedOfIInv, PTL

\* A product in place is whole when the archive declared its length or a
\* checksum, and unaltered when it declared a checksum: only a .part file that
\* was checked is moved there, after whatever cut, damaged or abandoned downloads.
THEOREM ProductsAreWhole == Spec => []ProductInPlaceIsWhole
  <1> QED  BY AlwaysIInv, WholeOfIInv, PTL
-----------------------------------------------------------------------------
(***************************************************************************)
(* What a search returns.  Links lead on, so a chain of pages ends, and    *)
(* what the recursive function of the reference is can be said of each.    *)
(***************************************************************************)
SmallerThan == {pair \in Nat \X Nat : pair[1] < pair[2]}

LEMMA SmallestOfSet ==
    ASSUME NEW S, S \subseteq Nat, S # {}
    PROVE  \E n \in S : \A m \in S : n <= m
  <1>1. OpToRel(<, Nat) = SmallerThan
    BY DEF OpToRel, SmallerThan
  <1>2. IsWellFoundedOn(SmallerThan, Nat)
    BY <1>1, NatLessThanWellFounded, Zenon
  <1>3. PICK n \in S : \A m \in S : ~(<<m, n>> \in SmallerThan)
    BY <1>2, WFMin
  <1>4. ASSUME NEW m \in S
        PROVE  n <= m
    <2>1. m \in Nat /\ n \in Nat
      OBVIOUS
    <2>2. ~(m < n)
      BY <1>3, <2>1 DEF SmallerThan
    <2> QED  BY <2>1, <2>2
  <1> QED  BY <1>4

Chains(n, C, piece, next) ==
    {g \in [1..n -> Seq(C)] :
        \A p \in 1..n : g[p] = piece[p] \o (IF next[p] \in 1..n THEN g[next[p]] ELSE <<>>)}

\* Along links that lead on, what follows each place can be put together.
LEMMA ChainExists ==
    ASSUME NEW n \in Nat, NEW C, NEW piece \in [1..n -> Seq(C)], NEW next,
           \A p \in 1..n : next[p] \in 1..n => next[p] > p
    PROVE  Chains(n, C, piece, next) # {}
  <1> DEFINE Joined(g, k) ==
                \A p \in 1..n : p > n - k =>
                    g[p] = piece[p] \o (IF next[p] \in 1..n THEN g[next[p]] ELSE <<>>)
             Joinable(k) == \E g \in [1..n -> Seq(C)] : Joined(g, k)
             failing == {k \in 0..n : ~Joinable(k)}
  <1>0. failing \subseteq Nat /\ \A k \in 0..n : k \notin failing <=> Joinable(k)
    <2> HIDE DEF Joinable
    <2> QED  OBVIOUS
  <1>1. failing = {}
    <2>1. SUFFICES ASSUME failing # {}
                   PROVE  FALSE
      OBVIOUS
    <2>2. PICK k \in failing : \A l \in failing : k <= l
      <3> HIDE DEF failing
      <3> QED  BY <1>0, <2>1, SmallestOfSet
    <2>3. k \in 0..n /\ ~Joinable(k)
      OBVIOUS
    <2>4. CASE k = 0
      <3>1. Joined(piece, k)
        BY <2>4
      <3> QED  BY <2>3, <3>1
    <2>5. CASE k # 0
      <3>1. k - 1 \in 0..n /\ k - 1 \notin failing
        <4> HIDE DEF failing, Joinable
        <4> QED  BY <2>2, <2>3, <2>5
      <3>2. PICK g \in [1..n -> Seq(C)] : Joined(g, k - 1)
        <4> HIDE DEF failing, Joined
        <4> QED  BY <1>0, <3>1
      <3>3. PICK p \in 1..n : p = n - k + 1
        BY <2>3, <2>5
      <3>4. PICK rest : rest = IF next[p] \in 1..n THEN g[next[p]] ELSE <<>>
        OBVIOUS
      <3>5. rest \in Seq(C) /\ piece[p] \in Seq(C)
        BY <3>4
      <3>6. piece[p] \o rest \in Seq(C)
        BY <3>5
      <3>7. PICK h : h = [g EXCEPT ![p] = piece[p] \o rest]
        OBVIOUS
      <3>8. h \in [1..n -> Seq(C)]
        BY <3>6, <3>7
      <3>9. ASSUME NEW q \in 1..n, q > n - k
            PROVE  h[q] = piece[q] \o (IF next[q] \in 1..n THEN h[next[q]] ELSE <<>>)
        <4>1. next[q] \in 1..n => next[q] # p
          BY <2>3, <3>3, <3>9
        <4>2. next[q] \in 1..n => h[next[q]] = g[next[q]]
          BY <3>7, <4>1
        <4>3. CASE q = p
          BY <3>4, <3>7, <4>2, <4>3
        <4>4. CASE q # p
          <5>1. q > n - (k - 1)
            BY <2>3, <3>3, <3>9, <4>4
          <5>2. g[q] = piece[q] \o (IF next[q] \in 1..n THEN g[next[q]] ELSE <<>>)
            BY <3>2, <5>1
          <5> QED  BY <3>7, <4>2, <4>4, <5>2
        <4> QED  BY <4>3, <4>4
      <3>10. Joined(h, k)
        BY <3>9
      <3> QED  BY <2>3, <3>8, <3>10
    <2> QED  BY <2>4, <2>5
  <1>2. Joinable(n)
    <2> HIDE DEF failing, Joinable
    <2> QED  BY <1>0, <1>1
  <1>3. PICK g \in [1..n -> Seq(C)] : Joined(g, n)
    <2> HIDE DEF Joined
    <2> QED  BY <1>2
  <1>4. \A p \in 1..n : p > n - n
    OBVIOUS
  <1> QED  BY <1>3, <1>4 DEF Chains

\* ... and a function that does so puts together sequences of the same things.
LEMMA ChainTyped ==
    ASSUME NEW n \in Nat, NEW C, NEW piece \in [1..n -> Seq(C)], NEW next,
           \A p \in 1..n : next[p] \in 1..n => next[p] > p, NEW f,
           \A p \in 1..n : f[p] = piece[p] \o (IF next[p] \in 1..n THEN f[next[p]] ELSE <<>>)
    PROVE  \A p \in 1..n : f[p] \in Seq(C)
  <1> DEFINE failing == {k \in 0..(n - 1) : f[n - k] \notin Seq(C)}
  <1>1. failing = {}
    <2>1. SUFFICES ASSUME failing # {}
                   PROVE  FALSE
      OBVIOUS
    <2>2. PICK k \in failing : \A l \in failing : k <= l
      <3>1. failing \subseteq Nat
        OBVIOUS
      <3> HIDE DEF failing
      <3> QED  BY <2>1, <3>1, SmallestOfSet
    <2>3. PICK p \in 1..n : p = n - k /\ f[p] \notin Seq(C)
      OBVIOUS
    <2>4. PICK rest : rest = IF next[p] \in 1..n THEN f[next[p]] ELSE <<>>
      OBVIOUS
    <2>5. rest \in Seq(C)
      <3>1. CASE next[p] \in 1..n
        <4>1. n - next[p] \in 0..(n - 1) /\ n - next[p] < k /\ n - (n - next[p]) = next[p]
          BY <2>3, <3>1
        <4>2. n - next[p] \notin failing
          BY <2>2, <4>1, SMTT(30)
        <4> QED  BY <2>4, <3>1, <4>1, <4>2
      <3> QED  BY <2>4, <3>1
    <2>6. f[p] = piece[p] \o rest /\ piece[p] \in Seq(C)
      BY <2>4
    <2>7. piece[p] \o rest \in Seq(C)
      BY <2>5, <2>6
    <2> QED  BY <2>3, <2>6, <2>7
  <1>2. ASSUME NEW p \in 1..n
        PROVE  f[p] \in Seq(C)
    <2>1. n - p \in 0..(n - 1) /\ n - (n - p) = p
      OBVIOUS
    <2> QED  BY <1>1, <2>1
  <1> QED  BY <1>2

Candidates ==
    UNION {{normalize_candidates[p][k] : k \in DOMAIN normalize_candidates[p]} : p \in DOMAIN Pages}

LEMMA PagesOK ==
    \E n \in Nat : /\ DOMAIN Pages = 1..n /\ n >= 1
                   /\ normalize_candidates \in [1..n -> Seq(Candidates)]
  <1>1. PICK n \in Nat : DOMAIN Pages = 1..n /\ n >= 1
    BY ClientAssumption
  <1>2. ASSUME NEW p \in 1..n
        PROVE  normalize_candidates[p] \in Seq(Candidates)
    <2>1. PICK wanted : wanted = {i \in 1..Usable[p] : normalize_candidate(Pages[p][i]).wanted}
      OBVIOUS
    <2>2. IsFiniteSet(wanted)
      <3>1. Usable[p] \in Nat
        <4>1. PICK cuts : cuts = {Len(Pages[p])} \cup {i - 1 : i \in {j \in DOMAIN Pages[p] :
                                                 _normalise_bbox(Pages[p][j].bbox) = NoBox}}
          OBVIOUS
        <4>2. Pages[p] \in Seq([id : Nat, online : BOOLEAN, bbox : Seq(Int)])
          BY <1>1, ClientAssumption
        <4>3. Len(Pages[p]) \in Nat /\ DOMAIN Pages[p] = 1..Len(Pages[p])
          BY <4>2
        <4>4. cuts \subseteq Nat /\ cuts # {}
          BY <4>1, <4>3
        <4>5. \E i \in cuts : \A j \in cuts : i <= j
          BY <4>4, SmallestOfSet
        <4>6. Usable[p] = Min(cuts)
          BY <1>1, <4>1 DEF Usable
        <4>7. Min(cuts) \in cuts
          BY <4>5 DEF Min
        <4> QED  BY <4>4, <4>6, <4>7
      <3>2. IsFiniteSet(1..Usable[p])
        BY <3>1, FS_Interval
      <3>3. wanted \subseteq 1..Usable[p]
        BY <2>1
      <3> QED  BY <3>2, <3>3, FS_Subset
    <2>3. Cardinality(wanted) \in Nat
      BY <2>2, FS_CardinalityType
    <2>4. \E item : normalize_candidates[p] = [k \in 1..Cardinality(wanted) |-> item[k]]
      <3>1. PICK item : item = [k \in 1..Cardinality(wanted) |->
                normalize_candidate(Pages[p][CHOOSE i \in wanted :
                                                Cardinality({j \in wanted : j <= i}) = k])]
        OBVIOUS
      <3>2. normalize_candidates[p] = item
        BY <1>1, <2>1, <3>1 DEF normalize_candidates
      <3> QED  BY <3>1, <3>2
    <2>5. PICK item : normalize_candidates[p] = [k \in 1..Cardinality(wanted) |-> item[k]]
      BY <2>4
    <2>6. \A k \in 1..Cardinality(wanted) : item[k] \in Candidates
      <3>1. ASSUME NEW k \in 1..Cardinality(wanted)
            PROVE  item[k] \in Candidates
        <4>1. k \in DOMAIN normalize_candidates[p] /\ normalize_candidates[p][k] = item[k]
          BY <2>5
        <4> QED  BY <1>1, <4>1 DEF Candidates
      <3> QED  BY <3>1
    <2> QED  BY <2>3, <2>5, <2>6
  <1>3. normalize_candidates \in [1..n -> Seq(Candidates)]
    <2>1. normalize_candidates = [p \in 1..n |-> normalize_candidates[p]]
      BY <1>1 DEF normalize_candidates
    <2> QED  BY <1>2, <2>1
  <1> QED  BY <1>1, <1>3

\* The reference is what its definition says.
LEMMA ItemsOK ==
    ASSUME links \in PageLinks
    PROVE  /\ \A p \in DOMAIN Pages : ItemsFrom[p] \in Seq(Candidates)
           /\ \A p \in DOMAIN Pages :
                 ItemsFrom[p] = normalize_candidates[p]
                                \o (IF links[p] \in DOMAIN Pages THEN ItemsFrom[links[p]] ELSE <<>>)
  <1>1. PICK n \in Nat : DOMAIN Pages = 1..n /\ normalize_candidates \in [1..n -> Seq(Candidates)]
    BY PagesOK
  <1>2. \A p \in 1..n : links[p] \in 1..n => links[p] > p
    BY <1>1, ClientAssumption
  <1>3. PICK g \in [1..n -> Seq(Candidates)] :
           \A p \in 1..n : g[p] = normalize_candidates[p] \o (IF links[p] \in 1..n THEN g[links[p]] ELSE <<>>)
    <2>1. PICK piece \in [1..n -> Seq(Candidates)] : piece = normalize_candidates
      BY <1>1
    <2>2. PICK next : next = links
      OBVIOUS
    <2>3. Chains(n, Candidates, piece, next) # {}
      <3>1. \A p \in 1..n : next[p] \in 1..n => next[p] > p
        BY <1>2, <2>2
      <3> QED  BY <3>1, ChainExists
    <2>4. PICK g \in Chains(n, Candidates, piece, next) : TRUE
      BY <2>3
    <2> QED  BY <2>1, <2>2, <2>4 DEF Chains
  <1>4. g = [p \in DOMAIN Pages |->
               normalize_candidates[p] \o (IF links[p] \in DOMAIN Pages THEN g[links[p]] ELSE <<>>)]
    BY <1>1, <1>3
  <1>5. ItemsFrom = [p \in DOMAIN Pages |->
               normalize_candidates[p]
               \o (IF links[p] \in DOMAIN Pages THEN ItemsFrom[links[p]] ELSE <<>>)]
    BY <1>4 DEF ItemsFrom
  <1>6. \A p \in DOMAIN Pages :
           ItemsFrom[p] = normalize_candidates[p]
                          \o (IF links[p] \in DOMAIN Pages THEN ItemsFrom[links[p]] ELSE <<>>)
    BY <1>5
  <1>7. \A p \in 1..n : ItemsFrom[p] \in Seq(Candidates)
    <2>1. PICK f : f = ItemsFrom
      OBVIOUS
    <2>2. PICK next : next = links
      OBVIOUS
    <2>3. PICK piece \in [1..n -> Seq(Candidates)] : piece = normalize_candidates
      BY <1>1
    <2>4. \A p \in 1..n : f[p] = piece[p] \o (IF next[p] \in 1..n THEN f[next[p]] ELSE <<>>)
      BY <1>1, <1>6, <2>1, <2>2, <2>3
    <2>5. \A p \in 1..n : f[p] \in Seq(Candidates)
      BY <1>2, <2>2, <2>4, ChainTyped
    <2> QED  BY <2>1, <2>5
  <1> QED  BY <1>1, <1>6, <1>7

\* Nothing has been cut while a search goes on: what it has, with what is still
\* to come, is what there is.
SearchOK ==
    /\ call.pc \in {"body", "verify", "replace"} => call.kind = "download"
    /\ call.kind = "search" /\ call.pc \in {"auth", "refresh", "password", "send"} =>
          /\ call.candidates \in Seq(Candidates) /\ ~Satisfied(call.candidates)
          /\ call.candidates \o ItemsFrom[call.page] = ItemsFrom[1]
    /\ SearchReturnsEveryItem

LEMMA SameItems == UNCHANGED links => ItemsFrom' = ItemsFrom
  BY DEF ItemsFrom

\* A step on which a search finds nothing and does not return.
LEMMA SearchKept ==
    ASSUME SearchOK, UNCHANGED links, call'.kind = call.kind, call'.max_items = call.max_items,
           call'.page = call.page, call'.candidates = call.candidates,
           call'.pc \in {"auth", "refresh", "password", "send"} =>
               call.pc \in {"auth", "refresh", "password", "send"},
           call'.pc = "returned" => call.pc = "returned" \/ call.kind = "download",
           call'.pc \in {"body", "verify", "replace"} => call.kind = "download"
    PROVE  SearchOK'
  <1>1. ItemsFrom' = ItemsFrom
    BY SameItems
  <1>2. \A found : (Satisfied(found)' <=> Satisfied(found)) /\ Shortened(found)' = Shortened(found)
    BY DEF Satisfied, Shortened
  <1>3. SearchReturnsEveryItem'
    BY <1>1 DEF SearchOK, SearchReturnsEveryItem, Shortened
  <1>4. call'.kind = "search" /\ call'.pc \in {"auth", "refresh", "password", "send"} =>
          /\ call'.candidates \in Seq(Candidates) /\ ~Satisfied(call.candidates)'
          /\ call'.candidates \o ItemsFrom'[call'.page] = ItemsFrom'[1]
    BY <1>1 DEF SearchOK, Satisfied
  <1> QED  BY <1>3, <1>4 DEF SearchOK

LEMMA SearchGoesOn ==
    ASSUME IInv, SearchOK, NEW pc, Goto(pc), UNCHANGED links,
           pc \in {"auth", "refresh", "password", "send"} =>
               call.pc \in {"auth", "refresh", "password", "send"},
           pc = "returned" => call.kind = "download",
           pc \in {"body", "verify", "replace"} => call.kind = "download"
    PROVE  SearchOK'
  <1>1. /\ call'.pc = pc /\ call'.kind = call.kind /\ call'.max_items = call.max_items
        /\ call'.page = call.page /\ call'.candidates = call.candidates
    BY DEF IInv, CallOK, Goto
  <1> QED  BY <1>1, SearchKept

LEMMA SearchTriesAgain ==
    ASSUME IInv, SearchOK, call.pc = "send", UNCHANGED links,
           call' \in {TryAgain, [call EXCEPT !.pc = "raised"]}
    PROVE  SearchOK'
  <1>1. /\ call'.pc \in {"auth", "raised"} /\ call'.kind = call.kind
        /\ call'.max_items = call.max_items
        /\ call'.page = call.page /\ call'.candidates = call.candidates
    BY DEF IInv, CallOK, TryAgain
  <1> QED  BY <1>1, SearchKept

LEMMA SearchBegins ==
    ASSUME BeginSearch, IInv
    PROVE  SearchOK'
  <1>1. PICK limit \in ItemLimits :
           call' = [pc |-> "auth", kind |-> "search", max_items |-> limit, page |-> 1, attempt |-> 0,
                    candidates |-> <<>>]
    BY DEF BeginSearch, IdleCall
  <1>2. UNCHANGED links /\ links \in PageLinks /\ limit \in Nat
    BY ClientAssumption DEF BeginSearch, IInv, BoundsOK
  <1>3. ItemsFrom' = ItemsFrom /\ ItemsFrom[1] \in Seq(Candidates)
    BY <1>2, SameItems, ItemsOK, Constants
  <1>4. <<>> \o ItemsFrom[1] = ItemsFrom[1] /\ <<>> \in Seq(Candidates) /\ ~(Len(<<>>) >= limit /\ limit > 0)
    BY <1>2, <1>3
  <1> QED  BY <1>1, <1>3, <1>4 DEF SearchOK, SearchReturnsEveryItem, Satisfied

\* Once there is enough, what follows makes no difference.
LEMMA EnoughIsEnough ==
    ASSUME NEW found \in Seq(Candidates), NEW rest \in Seq(Candidates),
           call.max_items \in Nat, Satisfied(Shortened(found))
    PROVE  Shortened(found) = Shortened(found \o rest)
  <1>1. call.max_items > 0 /\ call.max_items <= Len(found)
    <2>1. call.max_items > 0 /\ call.max_items # 0
      BY DEF Satisfied
    <2>2. Shortened(found) = SubSeq(found, 1, Min({call.max_items, Len(found)}))
      BY <2>1, Zenon DEF Shortened
    <2>3. CASE Len(found) < call.max_items
      <3>1. Min({call.max_items, Len(found)}) = Len(found)
        BY <2>3 DEF Min
      <3>2. SubSeq(found, 1, Len(found)) = found
        OBVIOUS
      <3> QED  BY <2>2, <2>3, <3>1, <3>2 DEF Satisfied
    <2> QED  BY <2>1, <2>3
  <1>2. PICK m : m = call.max_items
    OBVIOUS
  <1>3. m \in Nat /\ m > 0 /\ m <= Len(found) /\ m <= Len(found \o rest)
    BY <1>1, <1>2
  <1>4. Min({m, Len(found)}) = m /\ Min({m, Len(found \o rest)}) = m
    BY <1>3 DEF Min
  <1>5. SubSeq(found, 1, m) = SubSeq(found \o rest, 1, m)
    BY <1>3
  <1>6. call.max_items # 0
    BY <1>1
  <1> QED  BY <1>2, <1>4, <1>5, <1>6, Zenon DEF Shortened

LEMMA NotYetEnough ==
    ASSUME NEW found \in Seq(Candidates), call.max_items \in Nat, ~Satisfied(Shortened(found))
    PROVE  Shortened(found) = found
  <1>1. CASE call.max_items = 0
    BY <1>1 DEF Shortened
  <1>2. CASE call.max_items > 0
    <2>1. PICK m : m = call.max_items
      OBVIOUS
    <2>2. Shortened(found) = SubSeq(found, 1, Min({m, Len(found)}))
      <3>1. call.max_items # 0
        BY <1>2
      <3> QED  BY <2>1, <3>1, Zenon DEF Shortened
    <2>3. CASE m <= Len(found)
      <3>1. Min({m, Len(found)}) = m
        BY <2>1, <2>3 DEF Min
      <3>2. Len(SubSeq(found, 1, m)) = m
        BY <1>2, <2>1, <2>3
      <3> QED  BY <1>2, <2>1, <2>2, <3>1, <3>2 DEF Satisfied
    <2>4. CASE Len(found) < m
      <3>1. Min({m, Len(found)}) = Len(found)
        BY <2>1, <2>4 DEF Min
      <3> QED  BY <2>2, <3>1
    <2> QED  BY <2>1, <2>3, <2>4
  <1> QED  BY <1>1, <1>2

\* A page that is followed by another, or is the last, or is as far as it goes.
LEMMA PageOK ==
    ASSUME IInv, SearchOK, call.pc = "send", call.kind = "search", UNCHANGED links,
           NEW found, found = Shortened(call.candidates \o normalize_candidates[call.page]),
           call' = FollowLink(call.page, found)
    PROVE  SearchOK'
  <1> DEFINE p == call.page
             all == call.candidates \o normalize_candidates[p]
             rest == IF links[p] \in DOMAIN Pages THEN ItemsFrom[links[p]] ELSE <<>>
  <1>1. /\ p \in DOMAIN Pages /\ links \in PageLinks /\ call.max_items \in Nat
        /\ call.candidates \in Seq(Candidates)
        /\ call.candidates \o ItemsFrom[p] = ItemsFrom[1]
    <2>1. call.max_items \in Nat
      BY ClientAssumption DEF IInv, CallOK
    <2>2. p \in DOMAIN Pages /\ links \in PageLinks
      BY DEF IInv, CallOK, BoundsOK
    <2>3. call.candidates \in Seq(Candidates) /\ call.candidates \o ItemsFrom[p] = ItemsFrom[1]
      BY DEF SearchOK
    <2> QED  BY <2>1, <2>2, <2>3
  <1>2. /\ rest \in Seq(Candidates) /\ ItemsFrom[p] = normalize_candidates[p] \o rest
        /\ normalize_candidates[p] \in Seq(Candidates) /\ NoPage \notin DOMAIN Pages
    <2>1. normalize_candidates[p] \in Seq(Candidates) /\ NoPage \notin DOMAIN Pages
      BY <1>1, PagesOK DEF NoPage
    <2>2. ItemsFrom[p] = normalize_candidates[p] \o rest
      BY <1>1, ItemsOK
    <2>3. rest \in Seq(Candidates)
      <3>1. \A q \in DOMAIN Pages : ItemsFrom[q] \in Seq(Candidates)
        BY <1>1, ItemsOK
      <3>2. <<>> \in Seq(Candidates)
        OBVIOUS
      <3> QED  BY <3>1, <3>2
    <2> QED  BY <2>1, <2>2, <2>3
  <1>3. all \in Seq(Candidates) /\ all \o rest = ItemsFrom[1]
    <2> HIDE DEF rest
    <2>1. all \in Seq(Candidates)
      BY <1>1, <1>2
    <2>2. all \o rest = call.candidates \o (normalize_candidates[p] \o rest)
      <3>1. PICK had \in Seq(Candidates), new \in Seq(Candidates) :
               had = call.candidates /\ new = normalize_candidates[p]
        BY <1>1, <1>2
      <3>2. (had \o new) \o rest = had \o (new \o rest)
        BY <1>2, ConcatAssociative, SMTT(30)
      <3> QED  BY <3>1, <3>2
    <2> QED  BY <1>1, <1>2, <2>1, <2>2
  <1>4. /\ call'.kind = "search" /\ call'.max_items = call.max_items /\ call'.candidates = found
        /\ call'.pc = IF Satisfied(found) \/ links[p] = NoPage THEN "returned"
                      ELSE IF links[p] = ForeignPage THEN "raised" ELSE "auth"
        /\ call'.page = IF Satisfied(found) \/ links[p] \notin DOMAIN Pages THEN p ELSE links[p]
    BY DEF IInv, CallOK, FollowLink
  <1>5. ItemsFrom' = ItemsFrom
    BY SameItems
  <1> HIDE DEF all, rest, p
  <1>6. found = Shortened(all) /\ all \in Seq(Candidates) /\ rest \in Seq(Candidates)
    BY <1>2, <1>3 DEF all, p
  <1>7. CASE Satisfied(found)
    <2>1. found = Shortened(ItemsFrom[1])
      BY <1>1, <1>3, <1>6, <1>7, EnoughIsEnough
    <2> QED  BY <1>4, <1>5, <1>7, <2>1 DEF SearchOK, SearchReturnsEveryItem, Shortened
  <1>8. CASE ~Satisfied(found)
    <2>1. found = all
      BY <1>1, <1>6, <1>8, NotYetEnough
    <2>2. CASE links[p] = NoPage
      <3>1. rest = <<>>
        BY <1>2, <2>2 DEF rest
      <3>2. found = Shortened(ItemsFrom[1])
        BY <1>3, <1>6, <3>1
      <3> QED  BY <1>4, <1>5, <2>2, <3>2 DEF SearchOK, SearchReturnsEveryItem, Shortened
    <2>3. CASE links[p] = ForeignPage
      BY <1>4, <1>8, <2>3 DEF SearchOK, SearchReturnsEveryItem, NoPage, ForeignPage
    <2>4. CASE links[p] # NoPage /\ links[p] # ForeignPage
      <3>1. links[p] \in DOMAIN Pages
        BY <1>1, <2>4, ClientAssumption DEF p
      <3>2. rest = ItemsFrom[links[p]]
        BY <3>1 DEF rest
      <3>3. call'.pc = "auth" /\ call'.page = links[p]
        BY <1>4, <1>8, <2>4, <3>1
      <3>4. ~Satisfied(found)'
        BY <1>4, <1>8 DEF Satisfied
      <3>5. found \o ItemsFrom'[call'.page] = ItemsFrom'[1]
        BY <1>3, <1>5, <2>1, <3>2, <3>3
      <3> QED  BY <1>4, <1>6, <2>1, <3>3, <3>4, <3>5 DEF SearchOK, SearchReturnsEveryItem, Satisfied
    <2> QED  BY <2>2, <2>3, <2>4
  <1> QED  BY <1>7, <1>8

LEMMA SearchPageSearches ==
    ASSUME IInv, SearchOK, SearchPage
    PROVE  SearchOK'
  <1>1. PICK found : found = Shortened(call.candidates \o normalize_candidates[call.page])
    OBVIOUS
  <1>2. call' = [call EXCEPT !.pc = "raised"] \/ call' = FollowLink(call.page, found)
    BY <1>1 DEF SearchPage
  <1>3. call.pc = "send" /\ call.kind = "search" /\ UNCHANGED links
    BY DEF SearchPage
  <1>4. CASE call' = [call EXCEPT !.pc = "raised"]
    BY <1>3, <1>4, SearchTriesAgain
  <1>5. CASE call' = FollowLink(call.page, found)
    BY <1>1, <1>3, <1>5, PageOK
  <1> QED  BY <1>2, <1>4, <1>5

\* Asking for a token, or being refused one.
LEMMA TokenSearches ==
    ASSUME IInv, SearchOK, token \/ _refresh_token \/ _password_token
    PROVE  SearchOK'
  <1>1. call.pc \in {"auth", "refresh", "password"} /\ UNCHANGED links
    BY DEF token, _refresh_token, _password_token, _store_token
  <1>2. UNCHANGED call \/ \E pc \in {"send", "refresh", "password", "raised"} : Goto(pc)
    <2>1. CASE token
      BY <2>1 DEF token
    <2>2. CASE _refresh_token
      BY <2>2 DEF _refresh_token, _store_token
    <2>3. CASE _password_token
      BY <2>3 DEF _password_token, _store_token
    <2> QED  BY <2>1, <2>2, <2>3
  <1>3. CASE UNCHANGED call
    BY <1>1, <1>3, SearchKept
  <1>4. CASE \E pc \in {"send", "refresh", "password", "raised"} : Goto(pc)
    BY <1>1, <1>4, SearchGoesOn
  <1> QED  BY <1>2, <1>3, <1>4

\* A download finds no items.
LEMMA DownloadSearches ==
    ASSUME IInv, SearchOK,
           \/ ReceiveHeaders \/ ReceiveChunk \/ BodyEnds \/ BodyTimesOut
           \/ _verify_download_integrity \/ ReplaceDestination
    PROVE  SearchOK'
  <1>1. call.kind = "download" /\ UNCHANGED links
    <2>1. CASE ReceiveHeaders
      BY <2>1 DEF ReceiveHeaders
    <2>2. CASE ReceiveChunk \/ BodyEnds \/ BodyTimesOut
      BY <2>2 DEF ReceiveChunk, BodyEnds, BodyTimesOut, SearchOK
    <2>3. CASE _verify_download_integrity \/ ReplaceDestination
      BY <2>3 DEF _verify_download_integrity, ReplaceDestination, SearchOK
    <2> QED  BY <2>1, <2>2, <2>3
  <1>2. UNCHANGED call \/ \E pc \in {"body", "verify", "replace", "raised", "returned"} : Goto(pc)
    <2>1. CASE ReceiveHeaders
      BY <2>1 DEF ReceiveHeaders, Goto
    <2>2. CASE ReceiveChunk \/ BodyEnds \/ BodyTimesOut
      BY <2>2 DEF ReceiveChunk, BodyEnds, BodyTimesOut
    <2>3. CASE _verify_download_integrity \/ ReplaceDestination
      BY <2>3 DEF _verify_download_integrity, ReplaceDestination
    <2> QED  BY <2>1, <2>2, <2>3
  <1>3. CASE UNCHANGED call
    BY <1>1, <1>3, SearchKept
  <1>4. CASE \E pc \in {"body", "verify", "replace", "raised", "returned"} : Goto(pc)
    BY <1>1, <1>4, SearchGoesOn
  <1> QED  BY <1>2, <1>3, <1>4

LEMMA OtherSearches ==
    ASSUME IInv, SearchOK,
           \/ Tick \/ EndSession \/ ProcessLost \/ download_product \/ Unauthorized \/ AnswerFails
           \/ Quiescent \/ UNCHANGED vars
    PROVE  SearchOK'
  <1>1. CASE Tick \/ EndSession \/ Quiescent \/ UNCHANGED vars
    <2>1. UNCHANGED <<call, links>>
      BY <1>1 DEF Tick, EndSession, Quiescent, vars
    <2>2. call.pc \in {"body", "verify", "replace"} => call.kind = "download"
      BY DEF SearchOK
    <2> QED  BY <2>1, <2>2, SearchKept
  <1>2. CASE Unauthorized \/ AnswerFails
    <2>1. call.pc = "send" /\ UNCHANGED links /\ call' \in {TryAgain, [call EXCEPT !.pc = "raised"]}
      BY <1>2 DEF Unauthorized, AnswerFails
    <2> QED  BY <2>1, SearchTriesAgain
  <1>3. CASE ProcessLost
    <2>1. call'.pc = "idle"
      BY <1>3 DEF ProcessLost, IdleCall
    <2> QED  BY <2>1 DEF SearchOK, SearchReturnsEveryItem
  <1>4. CASE download_product
    <2>1. call'.pc \in {"returned", "auth"} /\ call'.kind = "download"
      BY <1>4 DEF download_product, IdleCall
    <2> QED  BY <2>1 DEF SearchOK, SearchReturnsEveryItem
  <1> QED  BY <1>1, <1>2, <1>3, <1>4

\* SearchReturnsEveryItem, for any pages whose links lead on and any limit: no
\* renewed token, second attempt or full page loses, repeats or reorders an item.
THEOREM SearchesAreExact == Spec => []SearchReturnsEveryItem
  <1>1. Init => IInv /\ SearchOK
    <2>1. Init => SearchOK
      BY DEF Init, IdleCall, SearchOK, SearchReturnsEveryItem
    <2> QED  BY <2>1, InitInv
  <1>2. (IInv /\ SearchOK) /\ [Next]_vars => (IInv /\ SearchOK)'
    <2>1. ASSUME IInv, SearchOK, [Next]_vars
          PROVE  SearchOK'
      <3>1. CASE BeginSearch
        BY <2>1, <3>1, SearchBegins
      <3>2. CASE ClientStep
        BY <2>1, <3>2, SearchPageSearches, TokenSearches, DownloadSearches, OtherSearches
           DEF ClientStep
      <3>3. CASE \/ Tick \/ EndSession \/ ProcessLost \/ download_product
                 \/ Quiescent \/ UNCHANGED vars
        BY <2>1, <3>3, OtherSearches
      <3> QED  BY <2>1, <3>1, <3>2, <3>3 DEF Next
    <2> QED  BY <2>1, NextInv
  <1>3. IInv /\ SearchOK => SearchReturnsEveryItem
    BY DEF SearchOK
  <1> QED  BY <1>1, <1>2, <1>3, PTL DEF Spec
=============================================================================
