--------------------------- MODULE LiveSocketsProofs ---------------------------
(***************************************************************************)
(* What LiveSockets promises for any sockets, requests and people: the     *)
(* claim is a streaming socket's, only its own person's upload takes it,   *)
(* and nobody's upload or deletion commits under a live socket it met.     *)
(***************************************************************************)
EXTENDS LiveSockets, TLAPS

-----------------------------------------------------------------------------
(* Types                                                                   *)

LEMMA TypeInit == Init => TypeOK
<1> SUFFICES ASSUME Init PROVE TypeOK OBVIOUS
<1>1. /\ status = "scheduled" /\ lock = None /\ claim = None /\ loop = None
      /\ sock = [s \in Sockets |-> [pc |-> "closed", user |-> None]]
      /\ req = [r \in Requests |->
                   [pc |-> "idle", kind |-> None, user |-> None, found |-> None]]
  BY DEF Init
<1>2. jobs \in BOOLEAN
  BY DEF Init
<1> QED BY <1>1, <1>2, SlotsAssumption DEF TypeOK, Statuses, SocketState, RequestState

\* A step of a socket is type correct.
LEMMA TypeSocket ==
    ASSUME TypeOK, NEW s \in Sockets,
           (\E u \in Users : Hello(s, u)) \/ SocketGoesOn(s) \/ Disconnect(s)
    PROVE  TypeOK'
<1> USE SlotsAssumption DEF TypeOK, SocketState
<1>1. ASSUME NEW u \in Users, Hello(s, u) PROVE TypeOK'
  BY <1>1 DEF Hello, Statuses, RequestState
<1>2. CASE BeginLive(s)
  BY <1>2 DEF BeginLive, Goes, Statuses, RequestState
<1>3. CASE RefuseHello(s)
  BY <1>3 DEF RefuseHello, Leaves
<1>4. CASE Claim(s)
  BY <1>4 DEF Claim, Goes
<1>5. CASE WarmUp(s)
  BY <1>5 DEF WarmUp, Goes
<1>6. CASE WarmUpFails(s)
  BY <1>6 DEF WarmUpFails, Leaves, Release
<1>7. CASE Stop(s)
  BY <1>7 DEF Stop, Goes, Release
<1>8. CASE Finish(s)
  BY <1>8 DEF Finish, Leaves, Release
<1>9. CASE Disconnect(s)
  BY <1>9 DEF Disconnect, Leaves, Release
<1> QED BY <1>1, <1>2, <1>3, <1>4, <1>5, <1>6, <1>7, <1>8, <1>9 DEF SocketGoesOn

\* A step of a request is type correct.
LEMMA TypeRequest ==
    ASSUME TypeOK, NEW r \in Requests,
           (\E k \in Kinds, u \in Users : Arrive(r, k, u)) \/ RequestGoesOn(r)
    PROVE  TypeOK'
<1> USE SlotsAssumption DEF TypeOK, RequestState
<1>1. ASSUME NEW k \in Kinds, NEW u \in Users, Arrive(r, k, u) PROVE TypeOK'
  BY <1>1 DEF Arrive
<1>2. CASE NotFound(r)
  BY <1>2 DEF NotFound, Runs
<1>3. CASE UploadLocks(r)
  <2> DEFINE to == CASE status \notin Accepts_A_Recording -> "over"
                     [] status = "recording" -> "locked"
                     [] OTHER -> "passed"
  <2>1. to \in {"over", "locked", "passed"}
    OBVIOUS
  <2> HIDE DEF to
  <2>2. req' = [req EXCEPT ![r].found = claim, ![r].pc = to]
    BY <1>3 DEF UploadLocks, to
  <2> QED BY <1>3, <2>1, <2>2 DEF UploadLocks
<1>4. CASE UploadLooks(r)
  BY <1>4 DEF UploadLooks, Runs
<1>5. CASE UploadAsks(r)
  BY <1>5 DEF UploadAsks, Runs
<1>6. CASE UploadCommits(r)
  BY <1>6 DEF UploadCommits, Runs, Statuses
<1>7. CASE OtherLocks(r)
  BY <1>7 DEF OtherLocks
<1>8. CASE DeleteLooks(r)
  BY <1>8 DEF DeleteLooks, Runs
<1>9. CASE DeleteReturns(r)
  BY <1>9 DEF DeleteReturns, Runs
<1>10. CASE Fails(r)
  BY <1>10 DEF Fails, Runs
<1>11. CASE Teardown(r)
  BY <1>11 DEF Teardown, Statuses
<1>12. CASE CancelLocks(r)
  BY <1>12 DEF CancelLocks, Runs, Statuses
<1> QED
  BY <1>1, <1>2, <1>3, <1>4, <1>5, <1>6, <1>7, <1>8, <1>9, <1>10, <1>11, <1>12 DEF RequestGoesOn

LEMMA TypeStep == TypeOK /\ [Next]_vars => TypeOK'
<1> SUFFICES ASSUME TypeOK, [Next]_vars PROVE TypeOK' OBVIOUS
<1>1. ASSUME NEW s \in Sockets,
             (\E u \in Users : Hello(s, u)) \/ SocketGoesOn(s) \/ Disconnect(s)
      PROVE TypeOK'
  BY <1>1, TypeSocket
<1>2. ASSUME NEW r \in Requests,
             (\E k \in Kinds, u \in Users : Arrive(r, k, u)) \/ RequestGoesOn(r)
      PROVE TypeOK'
  BY <1>2, TypeRequest
<1>3. CASE MarkComplete \/ MarkFailed
  BY <1>3 DEF MarkComplete, MarkFailed, TypeOK, Statuses
<1>4. CASE Deploy
  BY <1>4, SlotsAssumption DEF Deploy, TypeOK, SocketState, RequestState
<1>5. CASE UNCHANGED vars
  BY <1>5 DEF vars, TypeOK
<1> QED BY <1>1, <1>2, <1>3, <1>4, <1>5 DEF Next

-----------------------------------------------------------------------------
(* The claim                                                               *)

\* A hello that holds the loop found no claim, and nobody can take one
\* meanwhile: that is what makes the claim follow its check.
ClaimInv ==
    /\ ClaimIsStreaming
    /\ loop # None => claim = None
    /\ \A r \in Requests : req[r].pc = "saw" => req[r].kind = "upload"

LEMMA ClaimStep == TypeOK /\ ClaimInv /\ [Next]_vars => ClaimInv'
<1> SUFFICES ASSUME TypeOK, ClaimInv, [Next]_vars PROVE ClaimInv' OBVIOUS
<1> USE SlotsAssumption DEF ClaimInv, ClaimIsStreaming, Streams
<1>0. /\ claim # None => claim \in Sockets
      /\ \A t \in Sockets : sock[t] = [pc |-> sock[t].pc, user |-> sock[t].user]
      /\ sock \in [Sockets -> SocketState]
      /\ req \in [Requests -> RequestState]
      /\ \A t \in Sockets : sock[t].pc \in {"hello", "begun"} <=> loop = t
  BY DEF TypeOK, SocketState
<1>1. ASSUME NEW s \in Sockets, NEW u \in Users, Hello(s, u) PROVE ClaimInv'
  BY <1>0, <1>1 DEF Hello
<1>2. ASSUME NEW s \in Sockets, BeginLive(s) PROVE ClaimInv'
  BY <1>0, <1>2 DEF BeginLive, Goes
<1>3. ASSUME NEW s \in Sockets, RefuseHello(s) PROVE ClaimInv'
  BY <1>0, <1>3 DEF RefuseHello, Leaves
<1>4. ASSUME NEW s \in Sockets, Claim(s) PROVE ClaimInv'
  BY <1>0, <1>4 DEF Claim, Goes
<1>5. ASSUME NEW s \in Sockets, WarmUp(s) PROVE ClaimInv'
  BY <1>0, <1>5 DEF WarmUp, Goes
<1>6. ASSUME NEW s \in Sockets, WarmUpFails(s) PROVE ClaimInv'
  BY <1>0, <1>6 DEF WarmUpFails, Leaves, Release
<1>7. ASSUME NEW s \in Sockets, Stop(s) PROVE ClaimInv'
  BY <1>0, <1>7 DEF Stop, Goes, Release
<1>8. ASSUME NEW s \in Sockets, Finish(s) PROVE ClaimInv'
  BY <1>0, <1>8 DEF Finish, Leaves, Release
<1>9. ASSUME NEW s \in Sockets, Disconnect(s) PROVE ClaimInv'
  BY <1>0, <1>9 DEF Disconnect, Leaves, Release
<1>10. ASSUME NEW r \in Requests, NEW k \in Kinds, NEW u \in Users, Arrive(r, k, u) PROVE ClaimInv'
  BY <1>0, <1>10 DEF Arrive
<1>11. ASSUME NEW r \in Requests, NotFound(r) PROVE ClaimInv'
  BY <1>0, <1>11 DEF NotFound, Runs, RequestState
<1>12. ASSUME NEW r \in Requests, UploadLocks(r) PROVE ClaimInv'
  BY <1>0, <1>12 DEF UploadLocks, RequestState
<1>13. ASSUME NEW r \in Requests, UploadLooks(r) PROVE ClaimInv'
  BY <1>0, <1>13 DEF UploadLooks, Runs, RequestState
<1>14. ASSUME NEW r \in Requests, UploadAsks(r) PROVE ClaimInv'
  BY <1>0, <1>14 DEF UploadAsks, Runs, RequestState
<1>15. ASSUME NEW r \in Requests, UploadCommits(r) PROVE ClaimInv'
  BY <1>0, <1>15 DEF UploadCommits, Runs, RequestState
<1>16. ASSUME NEW r \in Requests, OtherLocks(r) PROVE ClaimInv'
  BY <1>0, <1>16 DEF OtherLocks, RequestState
<1>17. ASSUME NEW r \in Requests, DeleteLooks(r) PROVE ClaimInv'
  BY <1>0, <1>17 DEF DeleteLooks, Runs, RequestState
<1>18. ASSUME NEW r \in Requests, DeleteReturns(r) PROVE ClaimInv'
  BY <1>0, <1>18 DEF DeleteReturns, Runs, RequestState
<1>19. ASSUME NEW r \in Requests, Fails(r) PROVE ClaimInv'
  BY <1>0, <1>19 DEF Fails, Runs, RequestState
<1>20. ASSUME NEW r \in Requests, Teardown(r) PROVE ClaimInv'
  BY <1>0, <1>20 DEF Teardown, RequestState
<1>21. CASE MarkComplete \/ MarkFailed
  BY <1>21 DEF MarkComplete, MarkFailed
<1>22. CASE Deploy
  BY <1>22 DEF Deploy
<1>23. CASE UNCHANGED vars
  BY <1>23 DEF vars
<1>24. ASSUME NEW r \in Requests, CancelLocks(r) PROVE ClaimInv'
  BY <1>0, <1>24 DEF CancelLocks, Runs, RequestState
<1> QED
  BY <1>1, <1>2, <1>3, <1>4, <1>5, <1>6, <1>7, <1>8, <1>9, <1>10, <1>11, <1>12, <1>13, <1>14,
     <1>15, <1>16, <1>17, <1>18, <1>19, <1>20, <1>21, <1>22, <1>23, <1>24
     DEF Next, SocketGoesOn, RequestGoesOn

\* What takes the claim from a socket that goes on streaming.
LEMMA KeepsStep ==
    ASSUME TypeOK, ClaimInv, [Next]_vars, NEW s \in Sockets, claim = s, claim' # s, Streams(s)'
    PROVE  \E r \in Requests : /\ req[r].kind = "upload"
                               /\ req[r].user = sock[s].user
                               /\ req[r].pc = "saw" /\ req'[r].pc = "passed"
<1> USE SlotsAssumption DEF ClaimInv, ClaimIsStreaming, Streams
<1>0. /\ loop = None
      /\ sock \in [Sockets -> SocketState]
      /\ req \in [Requests -> RequestState]
      /\ \A t \in Sockets : sock[t].pc \notin {"hello", "begun"}
  BY DEF TypeOK
<1>1. ASSUME NEW t \in Sockets,
             (\E u \in Users : Hello(t, u)) \/ SocketGoesOn(t) \/ Disconnect(t)
      PROVE FALSE
  <2>1. t = s
    BY <1>0, <1>1 DEF SocketGoesOn, Hello, BeginLive, RefuseHello, Claim, WarmUp, WarmUpFails,
                      Stop, Finish, Disconnect, Release
  <2>2. ~Streams(s)'
    BY <1>0, <1>1, <2>1 DEF SocketGoesOn, Hello, BeginLive, RefuseHello, Claim, WarmUp,
                      WarmUpFails, Stop, Finish, Disconnect, Release, Leaves, Goes, SocketState
  <2> QED BY <2>2
<1>2. ASSUME NEW r \in Requests,
             (\E k \in Kinds, u \in Users : Arrive(r, k, u)) \/ RequestGoesOn(r)
      PROVE UploadAsks(r) /\ MayGiveUp(req[r].user)
  BY <1>2 DEF RequestGoesOn, Arrive, NotFound, UploadLocks, UploadLooks, UploadAsks,
              UploadCommits, CancelLocks, OtherLocks, DeleteLooks, DeleteReturns, Fails, Teardown
<1>3. ASSUME NEW r \in Requests, UploadAsks(r), MayGiveUp(req[r].user)
      PROVE /\ req[r].kind = "upload"
            /\ req[r].user = sock[s].user
            /\ req[r].pc = "saw" /\ req'[r].pc = "passed"
  BY <1>0, <1>3 DEF UploadAsks, MayGiveUp, Runs, RequestState
<1>4. ~MarkComplete /\ ~MarkFailed
  BY DEF MarkComplete, MarkFailed
<1>5. ~Deploy
  BY DEF Deploy
<1>6. ~UNCHANGED vars
  BY DEF vars
<1> QED BY <1>1, <1>2, <1>3, <1>4, <1>5, <1>6 DEF Next

-----------------------------------------------------------------------------
(* Commits                                                                 *)

Holds == {"locked", "saw", "passed", "deleted"}

\* The commit of an upload to a meeting being recorded, or of a deletion.
Commits(r) ==
    \/ req[r].pc = "passed" /\ (req[r].kind # "upload" \/ status = "recording")
    \/ req[r].pc = "deleted"

\* A request that met a socket keeps the row until it is over, so that no hello
\* can begin; when it may commit, the socket has let go.
SparesInv ==
    \A r \in Requests :
        /\ req[r].pc \in Holds => lock = r
        /\ req[r].pc = "saw" => req[r].kind = "upload"
        /\ req[r].pc \in Holds /\ req[r].found # None =>
              /\ \A s \in Sockets : sock[s].pc # "begun"
              /\ Commits(r) => claim = None

\* A socket's step with the row in somebody's hands begins no session and makes
\* no claim.
LEMMA SparesSocket ==
    ASSUME TypeOK, SparesInv, NEW s \in Sockets,
           (\E u \in Users : Hello(s, u)) \/ SocketGoesOn(s) \/ Disconnect(s)
    PROVE  SparesInv'
<1>0. /\ sock \in [Sockets -> SocketState]
      /\ req' = req /\ lock' = lock
  BY DEF TypeOK, SocketGoesOn, Hello, BeginLive, RefuseHello, Claim, WarmUp, WarmUpFails, Stop,
         Finish, Disconnect
<1> SUFFICES ASSUME NEW r \in Requests, req[r].pc \in Holds, req[r].found # None
             PROVE /\ \A t \in Sockets : sock'[t].pc # "begun"
                   /\ Commits(r)' => claim' = None
  BY <1>0 DEF SparesInv
<1>1. lock = r /\ lock # None
  BY SlotsAssumption DEF SparesInv
<1>2. ~BeginLive(s) /\ ~Claim(s)
  BY <1>1 DEF SparesInv, BeginLive, Claim
<1>3. status' = status /\ (claim' = claim \/ claim' = None)
  BY <1>2 DEF SocketGoesOn, Hello, RefuseHello, WarmUp, WarmUpFails, Stop, Finish, Disconnect, Release
<1>4. \A t \in Sockets : sock'[t].pc # "begun"
  BY <1>0, <1>2 DEF SparesInv, SocketState, SocketGoesOn, Hello, RefuseHello, WarmUp, WarmUpFails,
                    Stop, Finish, Disconnect, Leaves, Goes
<1> QED BY <1>0, <1>3, <1>4 DEF SparesInv, Commits

\* A request's step: the ones that take the row look at the claim first.
LEMMA SparesRequest ==
    ASSUME TypeOK, ClaimInv, SparesInv, NEW r \in Requests,
           (\E k \in Kinds, u \in Users : Arrive(r, k, u)) \/ RequestGoesOn(r)
    PROVE  SparesInv'
<1> USE SlotsAssumption DEF SparesInv, Commits, Holds
<1>0. /\ sock' = sock
      /\ req \in [Requests -> RequestState]
      /\ \A t \in Sockets : sock[t].pc \in {"hello", "begun"} <=> loop = t
  BY DEF TypeOK, RequestGoesOn, Arrive, NotFound, UploadLocks, UploadLooks, UploadAsks,
         UploadCommits, CancelLocks, OtherLocks, DeleteLooks, DeleteReturns, Fails, Teardown
<1>1. ASSUME NEW k \in Kinds, NEW u \in Users, Arrive(r, k, u) PROVE SparesInv'
  BY <1>0, <1>1 DEF Arrive, RequestState
<1>2. CASE NotFound(r)
  BY <1>0, <1>2 DEF NotFound, Runs, RequestState
<1>3. CASE UploadLocks(r)
  <2>1. claim # None => \A s \in Sockets : sock[s].pc # "begun"
    BY <1>0 DEF ClaimInv
  <2>2. /\ req'[r].found = claim /\ req'[r].kind = "upload"
        /\ req'[r].pc \in {"over", "locked", "passed"}
        /\ req'[r].pc = "passed" => status # "recording"
    BY <1>0, <1>3 DEF UploadLocks, RequestState
  <2>3. \A q \in Requests : q # r => req'[q] = req[q] /\ req[q].pc \notin Holds
    BY <1>0, <1>3 DEF UploadLocks
  <2> QED BY <1>0, <1>3, <2>1, <2>2, <2>3 DEF UploadLocks
<1>4. CASE OtherLocks(r)
  <2>1. claim # None => \A s \in Sockets : sock[s].pc # "begun"
    BY <1>0 DEF ClaimInv
  <2>2. req'[r].found = claim /\ req'[r].pc \in {"locked", "over"}
    BY <1>0, <1>4 DEF OtherLocks, RequestState
  <2>3. \A q \in Requests : q # r => req'[q] = req[q] /\ req[q].pc \notin Holds
    BY <1>0, <1>4 DEF OtherLocks
  <2> QED BY <1>0, <1>4, <2>1, <2>2, <2>3 DEF OtherLocks
<1>5. CASE UploadLooks(r)
  BY <1>0, <1>5 DEF UploadLooks, Runs, RequestState
<1>6. CASE UploadAsks(r)
  BY <1>0, <1>6 DEF UploadAsks, Runs, RequestState
<1>7. CASE UploadCommits(r)
  BY <1>0, <1>7 DEF UploadCommits, Runs, RequestState
<1>8. CASE DeleteLooks(r)
  BY <1>0, <1>8 DEF DeleteLooks, Runs, RequestState
<1>9. CASE DeleteReturns(r)
  BY <1>0, <1>9 DEF DeleteReturns, Runs, RequestState
<1>10. CASE Fails(r)
  BY <1>0, <1>10 DEF Fails, Runs, RequestState
<1>11. CASE Teardown(r)
  BY <1>0, <1>11 DEF Teardown, RequestState
<1>12. CASE CancelLocks(r)
  <2>1. /\ req'[r].pc = "over"
        /\ \A q \in Requests : q # r => req'[q] = req[q] /\ req[q].pc \notin Holds
    BY <1>0, <1>12 DEF CancelLocks, Runs, RequestState
  <2> QED BY <2>1
<1> QED
  BY <1>1, <1>2, <1>3, <1>4, <1>5, <1>6, <1>7, <1>8, <1>9, <1>10, <1>11, <1>12 DEF RequestGoesOn

LEMMA SparesStep == TypeOK /\ ClaimInv /\ SparesInv /\ [Next]_vars => SparesInv'
<1> SUFFICES ASSUME TypeOK, ClaimInv, SparesInv, [Next]_vars PROVE SparesInv' OBVIOUS
<1>1. ASSUME NEW s \in Sockets,
             (\E u \in Users : Hello(s, u)) \/ SocketGoesOn(s) \/ Disconnect(s)
      PROVE SparesInv'
  BY <1>1, SparesSocket
<1>2. ASSUME NEW r \in Requests,
             (\E k \in Kinds, u \in Users : Arrive(r, k, u)) \/ RequestGoesOn(r)
      PROVE SparesInv'
  BY <1>2, SparesRequest
<1>3. CASE MarkComplete \/ MarkFailed
  BY <1>3, SlotsAssumption DEF MarkComplete, MarkFailed, SparesInv, Commits, Holds
<1>4. CASE Deploy
  BY <1>4 DEF Deploy, SparesInv, Commits, Holds
<1>5. CASE UNCHANGED vars
  BY <1>5 DEF vars, SparesInv, Commits, Holds
<1> QED BY <1>1, <1>2, <1>3, <1>4, <1>5 DEF Next

-----------------------------------------------------------------------------
(* The meeting's life                                                      *)

\* What a request read of the status under the lock still holds while it has
\* the row: nobody else may write it.
ReadInv ==
    \A r \in Requests :
        /\ req[r].pc \in {"locked", "saw", "passed"} /\ req[r].kind = "upload" =>
              status \in Accepts_A_Recording
        /\ req[r].pc = "deleted" => req[r].kind = "delete"
        /\ req[r].pc \in Holds => status # "gone" /\ req[r].kind \in {"upload", "delete"}
        /\ req[r].pc \in {"passed", "deleted"} /\ req[r].kind = "delete" => status # "analyzing"

\* Once there was an attempt, nobody waits for a recording or records.
JobsInv == jobs => status \notin Accepts_A_Live_Session

\* The holder of the row is the only one that can write the status.
LEMMA HolderWrites ==
    ASSUME SparesInv, [Next]_vars, NEW r \in Requests, req[r].pc \in Holds, status' # status
    PROVE  UploadCommits(r) \/ Teardown(r)
<1>1. lock = r /\ lock # None /\ \A q \in Requests : q # r => req[q].pc \notin Holds
  BY SlotsAssumption DEF SparesInv
<1>2. ~ \E s \in Sockets : (\E u \in Users : Hello(s, u)) \/ SocketGoesOn(s) \/ Disconnect(s)
  BY <1>1 DEF SocketGoesOn, Hello, BeginLive, RefuseHello, Claim, WarmUp, WarmUpFails, Stop,
              Finish, Disconnect
<1>3. PICK q \in Requests : UploadCommits(q) \/ Teardown(q)
  BY <1>1, <1>2 DEF Next, MarkComplete, MarkFailed, CancelLocks, Deploy, vars, RequestGoesOn, Arrive, NotFound, UploadLocks,
                    UploadLooks, UploadAsks, OtherLocks, DeleteLooks, DeleteReturns, Fails
<1>4. req[q].pc \in Holds
  BY <1>3 DEF UploadCommits, Teardown, Holds
<1> QED BY <1>1, <1>3, <1>4

\* A request's own steps keep what it read.
LEMMA ReadRequest ==
    ASSUME TypeOK, SparesInv, ReadInv, NEW r \in Requests,
           (\E k \in Kinds, u \in Users : Arrive(r, k, u)) \/ RequestGoesOn(r)
    PROVE  ReadInv'
<1> USE DEF ReadInv, Holds
<1>0. req \in [Requests -> RequestState]
  BY DEF TypeOK
<1>1. ASSUME NEW k \in Kinds, NEW u \in Users, Arrive(r, k, u) PROVE ReadInv'
  BY <1>0, <1>1 DEF Arrive
<1>2. CASE NotFound(r)
  BY <1>0, <1>2 DEF NotFound, Runs, RequestState
<1>3. CASE UploadLocks(r)
  <2>1. /\ req'[r].kind = "upload"
        /\ req'[r].pc \in {"over", "locked", "passed"}
        /\ req'[r].pc # "over" => status \in Accepts_A_Recording
    BY <1>0, <1>3 DEF UploadLocks, RequestState, Accepts_A_Recording
  <2>2. \A q \in Requests : q # r => req'[q] = req[q]
    BY <1>0, <1>3 DEF UploadLocks
  <2> QED BY <1>3, <2>1, <2>2 DEF UploadLocks
<1>4. CASE OtherLocks(r)
  <2>1. \/ req'[r].pc = "locked" /\ req'[r].kind = "delete"
        \/ req'[r].pc = "over"
    BY <1>0, <1>4 DEF OtherLocks, RequestState
  <2>2. \A q \in Requests : q # r => req'[q] = req[q]
    BY <1>0, <1>4 DEF OtherLocks
  <2> QED BY <1>4, <2>1, <2>2 DEF OtherLocks
<1>5. CASE UploadLooks(r)
  BY <1>0, <1>5 DEF UploadLooks, Runs, RequestState
<1>6. CASE UploadAsks(r)
  BY <1>0, <1>6 DEF UploadAsks, Runs, RequestState, SparesInv
<1>7. CASE UploadCommits(r)
  <2>1. \A q \in Requests : q # r => req'[q] = req[q] /\ req[q].pc \notin Holds
    BY <1>0, <1>7 DEF UploadCommits, Runs, SparesInv
  <2>2. req'[r].pc = "over"
    BY <1>0, <1>7 DEF UploadCommits, Runs, RequestState
  <2> QED BY <2>1, <2>2
<1>8. CASE DeleteLooks(r)
  BY <1>0, <1>8 DEF DeleteLooks, Runs, RequestState
<1>9. CASE DeleteReturns(r)
  BY <1>0, <1>9 DEF DeleteReturns, Runs, RequestState
<1>10. CASE Fails(r)
  BY <1>0, <1>10 DEF Fails, Runs, RequestState
<1>11. CASE Teardown(r)
  <2>1. req'[r].pc = "idle" /\ \A q \in Requests : q # r => req'[q] = req[q]
    BY <1>0, <1>11 DEF Teardown, RequestState
  <2>2. status' # status => \A q \in Requests : q # r => req[q].pc \notin Holds
    BY <1>11 DEF Teardown, SparesInv
  <2>3. status' = status \/ status' = "gone"
    BY <1>11 DEF Teardown
  <2> QED BY <2>1, <2>2, <2>3
<1>12. CASE CancelLocks(r)
  <2>1. /\ req'[r].pc = "over"
        /\ \A q \in Requests : q # r => req'[q] = req[q] /\ req[q].pc \notin Holds
    BY SlotsAssumption, <1>0, <1>12 DEF CancelLocks, Runs, RequestState, SparesInv
  <2> QED BY <2>1
<1> QED
  BY <1>1, <1>2, <1>3, <1>4, <1>5, <1>6, <1>7, <1>8, <1>9, <1>10, <1>11, <1>12 DEF RequestGoesOn

LEMMA ReadStep == TypeOK /\ SparesInv /\ ReadInv /\ [Next]_vars => ReadInv'
<1> SUFFICES ASSUME TypeOK, SparesInv, ReadInv, [Next]_vars PROVE ReadInv' OBVIOUS
<1>1. ASSUME NEW r \in Requests,
             (\E k \in Kinds, u \in Users : Arrive(r, k, u)) \/ RequestGoesOn(r)
      PROVE ReadInv'
  BY <1>1, ReadRequest
<1>2. CASE Deploy
  BY <1>2 DEF Deploy, ReadInv, Holds
<1>3. CASE req' = req
  <2>1. ~ \E r \in Requests : UploadCommits(r) \/ Teardown(r)
    <3> SUFFICES ASSUME NEW r \in Requests, UploadCommits(r) \/ Teardown(r) PROVE FALSE
      OBVIOUS
    <3>1. req'[r].pc \in {"over", "idle"} /\ req'[r].pc # req[r].pc
      BY DEF UploadCommits, Teardown, Runs, TypeOK, RequestState
    <3> QED BY <1>3, <3>1
  <2>2. \A r \in Requests : req[r].pc \in Holds => status' = status
    BY <2>1, HolderWrites
  <2> QED BY <1>3, <2>2 DEF ReadInv, Holds
<1>4. (\E s \in Sockets : (\E u \in Users : Hello(s, u)) \/ SocketGoesOn(s) \/ Disconnect(s))
        => req' = req
  BY DEF SocketGoesOn, Hello, BeginLive, RefuseHello, Claim, WarmUp, WarmUpFails, Stop, Finish,
         Disconnect
<1>5. MarkComplete \/ MarkFailed \/ UNCHANGED vars => req' = req
  BY DEF MarkComplete, MarkFailed, vars
<1> QED BY <1>1, <1>2, <1>3, <1>4, <1>5 DEF Next

\* Who writes the status, and what.
LEMMA StatusWrites ==
    ASSUME [Next]_vars, status' # status
    PROVE  \/ \E r \in Requests : UploadCommits(r) \/ Teardown(r) \/ CancelLocks(r)
           \/ \E s \in Sockets : BeginLive(s)
           \/ MarkComplete \/ MarkFailed
BY DEF Next, Deploy, vars, SocketGoesOn, Hello, RefuseHello, Claim, WarmUp, WarmUpFails,
       Stop, Finish, Disconnect, RequestGoesOn, Arrive, NotFound, UploadLocks, UploadLooks,
       UploadAsks, OtherLocks, DeleteLooks, DeleteReturns, Fails

LEMMA JobsStep == JobsInv /\ [Next]_vars => JobsInv'
<1> SUFFICES ASSUME JobsInv, [Next]_vars PROVE JobsInv' OBVIOUS
<1> USE DEF JobsInv, Accepts_A_Live_Session
<1>1. CASE status' = status
  <2>1. jobs' = jobs \/ \E r \in Requests : UploadCommits(r)
    BY DEF Next, Deploy, vars, SocketGoesOn, Hello, BeginLive, RefuseHello, Claim, WarmUp,
           WarmUpFails, Stop, Finish, Disconnect, RequestGoesOn, Arrive, NotFound, UploadLocks,
           UploadLooks, UploadAsks, CancelLocks, OtherLocks, DeleteLooks, DeleteReturns, Fails,
           Teardown, MarkComplete, MarkFailed
  <2> QED BY <1>1, <2>1 DEF UploadCommits
<1>2. CASE status' # status
  BY <1>2, StatusWrites DEF UploadCommits, Teardown, CancelLocks, BeginLive, MarkComplete, MarkFailed
<1> QED BY <1>1, <1>2

-----------------------------------------------------------------------------
(* The theorems                                                            *)

Inv == TypeOK /\ ClaimInv /\ SparesInv /\ ReadInv /\ JobsInv

LEMMA Invariance == Spec => []Inv
<1>1. Init => Inv
  BY TypeInit, SlotsAssumption DEF Init, Inv, ClaimInv, ClaimIsStreaming, SparesInv, ReadInv, JobsInv,
                                     Holds
<1>2. Inv /\ [Next]_vars => Inv'
  BY TypeStep, ClaimStep, SparesStep, ReadStep, JobsStep DEF Inv
<1> QED BY <1>1, <1>2, PTL DEF Spec

\* TypeOK, for any sockets, requests and people.
THEOREM TypeCorrect == Spec => []TypeOK
<1>1. Inv => TypeOK BY DEF Inv
<1> QED BY <1>1, Invariance, PTL

\* ClaimIsStreaming: no way out of the route leaves a claim behind.
THEOREM ClaimStreams == Spec => []ClaimIsStreaming
<1>1. Inv => ClaimIsStreaming BY DEF Inv, ClaimInv
<1> QED BY <1>1, Invariance, PTL

\* StreamKeepsClaim: a streaming socket loses its claim to its own person's
\* upload only.
THEOREM ClaimIsKept == Spec => StreamKeepsClaim
<1>1. Inv /\ [Next]_vars =>
        [ \A s \in Sockets :
            claim = s /\ claim' # s /\ Streams(s)' =>
                \E r \in Requests : /\ req[r].kind = "upload"
                                    /\ req[r].user = sock[s].user
                                    /\ req[r].pc = "saw" /\ req'[r].pc = "passed" ]_vars
  BY KeepsStep DEF Inv
<1> QED BY <1>1, Invariance, PTL DEF Spec, StreamKeepsClaim

\* CommitSparesLive: an upload or a deletion that met a live socket commits only
\* once that socket has let go of the meeting.
THEOREM CommitsSpareLive == Spec => CommitSparesLive
<1>1. Inv =>
        [ \A r \in Requests :
            (/\ req[r].found # None
             /\ status' # status
             /\ \/ /\ req[r].pc = "passed" /\ req'[r].pc = "over"
                   /\ status = "recording"
                \/ req[r].pc = "deleted" /\ req'[r].pc = "idle")
            => claim # req[r].found ]_vars
  BY DEF Inv, SparesInv, Holds, Commits
<1> QED BY <1>1, Invariance, PTL DEF Spec, CommitSparesLive

\* LifeGoesForward: whoever moves the meeting moves it from a status that lets
\* him, though he read it steps ago or not at all.
THEOREM LifeMovesOn == Spec => LifeGoesForward
<1> DEFINE Forward ==
        \/ status' = status
        \/ status = "scheduled" /\ status' = "recording"
        \/ status \in Accepts_A_Recording /\ status' = "analyzing"
        \/ status \in {"analyzing", "failed"} /\ status' = "complete"
        \/ status \in {"analyzing", "complete"} /\ status' = "failed"
        \/ status \in Accepts_A_Recording \cup {"complete"} /\ status' = "gone"
<1>1. ASSUME Inv, NEW r \in Requests, UploadCommits(r) PROVE Forward
  BY <1>1 DEF Inv, ReadInv, UploadCommits
<1>2. ASSUME Inv, NEW r \in Requests, Teardown(r) PROVE Forward
  BY <1>2 DEF Inv, ReadInv, Holds, Teardown, TypeOK, Statuses, Accepts_A_Recording
<1>3. ASSUME NEW s \in Sockets, BeginLive(s) PROVE Forward
  BY <1>3 DEF BeginLive, Accepts_A_Live_Session
<1>4. ASSUME NEW r \in Requests, CancelLocks(r) PROVE Forward
  BY <1>4 DEF CancelLocks
<1>5. ASSUME Inv, MarkComplete \/ MarkFailed PROVE Forward
  BY <1>5 DEF Inv, JobsInv, TypeOK, Statuses, Accepts_A_Live_Session, MarkComplete, MarkFailed
<1>6. Inv /\ [Next]_vars => [Forward]_vars
  BY <1>1, <1>2, <1>3, <1>4, <1>5, StatusWrites
<1> QED BY <1>6, Invariance, PTL DEF Spec, LifeGoesForward
=============================================================================
