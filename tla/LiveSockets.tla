----------------------------- MODULE LiveSockets -----------------------------
(* The live microphone channel of one meeting, in the API's one process: the   *)
(* sockets of live/routes.py, the claim of live/registry.py, the HTTP requests *)
(* that take the same meeting's row - upload, rename, cancel, delete - and the *)
(* worker's writes of the meeting's status.                                    *)
(*                                                                             *)
(* What makes it hard is the mixture.  A socket runs on the event loop and is  *)
(* interrupted only at an await, so its whole hello - check, begin_live,       *)
(* commit, claim - holds the loop, and waits for the row lock while holding    *)
(* it.  A request's handler runs in a worker thread, interleaved with the      *)
(* hello statement by statement; its commit or its rollback is the teardown of *)
(* a dependency (deps.py), which the event loop has to start.  Only an         *)
(* accepted upload and an accepted cancel commit inside their handlers.        *)
(*                                                                             *)
(* A socket slot and a request slot are used again once they are idle, so the  *)
(* runs are unbounded and the state is finite.                                 *)

CONSTANTS
    Sockets,    \* slots for live sockets
    Requests,   \* slots for HTTP requests
    Users,      \* members of the meeting's team
    None        \* nobody, nothing

ASSUME SlotsAssumption == None \notin Sockets \cup Requests \cup Users

VARIABLES
    status,     \* the meeting's status, "gone" once deleted
    lock,       \* the request whose transaction holds the meeting's row
    claim,      \* registry._open: the socket that holds the meeting
    loop,       \* the socket whose synchronous hello holds the event loop
    sock,       \* where each socket is, and whose it is
    req,        \* where each request is, whose, and the claim it found
    jobs        \* an upload has queued a TranscriptionJob of the meeting

vars == <<status, lock, claim, loop, sock, req, jobs>>

Statuses == {"scheduled", "recording", "analyzing", "failed", "complete", "gone"}
Kinds == {"upload", "rename", "cancel", "delete"}
Accepts_A_Recording == {"scheduled", "failed", "recording"}
Accepts_A_Live_Session == {"scheduled", "recording"}

(* A socket that still reads frames, or will once its models are loaded.       *)
Streams(s) == sock[s].pc \in {"warming", "live"}

Init ==
    /\ status = "scheduled"
    /\ lock = None
    /\ claim = None
    /\ loop = None
    /\ sock = [s \in Sockets |-> [pc |-> "closed", user |-> None]]
    /\ req = [r \in Requests |->
                 [pc |-> "idle", kind |-> None, user |-> None, found |-> None]]
    /\ jobs = FALSE

Goes(s, pc) == sock' = [sock EXCEPT ![s].pc = pc]
Leaves(s) == sock' = [sock EXCEPT ![s] = [pc |-> "closed", user |-> None]]
Runs(r, pc) == req' = [req EXCEPT ![r].pc = pc]

(* Mutant: whoever leaves drops whatever claim there is.                     *)
ReleaseAny(s) == s \in Sockets /\ claim' = None

(* registry.release: a socket drops only the claim it holds itself.            *)
Release(s) == claim' = IF claim = s THEN None ELSE claim

(* registry.give_up_for_upload: the claim's own person uploads over it.        *)
MayGiveUp(u) == claim # None /\ sock[claim].user = u

-----------------------------------------------------------------------------
(* The socket.  Each step needs the loop: none runs while a hello holds it.    *)

(* A hello that authenticates and finds no claim goes on to begin_live without *)
(* an await; every other one is refused and changes nothing.                   *)
Hello(s, u) ==
    /\ loop = None
    /\ sock[s].pc = "closed"
    /\ status # "gone"
    /\ claim = None
    /\ sock' = [sock EXCEPT ![s] = [pc |-> "hello", user |-> u]]
    /\ loop' = s
    /\ UNCHANGED <<status, lock, claim, req, jobs>>

(* begin_live waits for the row, on the event loop's own thread, and the scope *)
(* commits before anything else can take the row.                              *)
BeginLive(s) ==
    /\ sock[s].pc = "hello"
    /\ lock = None
    /\ status \in Accepts_A_Live_Session
    /\ status' = "recording"
    /\ Goes(s, "begun")
    /\ UNCHANGED <<lock, claim, loop, req, jobs>>

(* The meeting has moved on, or the session cannot be built: rolled back.      *)
RefuseHello(s) ==
    /\ sock[s].pc = "hello"
    /\ lock = None
    /\ Leaves(s)
    /\ loop' = None
    /\ UNCHANGED <<status, lock, claim, req, jobs>>

(* The row is free again and the claim is not there yet: registry.py's gap.    *)
Claim(s) ==
    /\ sock[s].pc = "begun"
    /\ claim' = s
    /\ Goes(s, "warming")
    /\ loop' = None
    /\ UNCHANGED <<status, lock, req, jobs>>

WarmUp(s) ==
    /\ loop = None
    /\ sock[s].pc = "warming"
    /\ Goes(s, "live")
    /\ UNCHANGED <<status, lock, claim, loop, req, jobs>>

(* Mutant: a failed warm-up returns without its finally.                     *)
WarmUpFailsHolding(s) ==
    /\ loop = None
    /\ sock[s].pc = "warming"
    /\ Leaves(s)
    /\ UNCHANGED <<status, lock, claim, loop, req, jobs>>

(* The models would not load, or the client left meanwhile.                    *)
WarmUpFails(s) ==
    /\ loop = None
    /\ sock[s].pc = "warming"
    /\ Leaves(s)
    /\ Release(s)
    /\ UNCHANGED <<status, lock, loop, req, jobs>>

(* stop, or the session limit: no frame is read from here on, and the claim is *)
(* let go before the last segment is transcribed.                              *)
Stop(s) ==
    /\ loop = None
    /\ sock[s].pc = "live"
    /\ Goes(s, "finishing")
    /\ Release(s)
    /\ UNCHANGED <<status, lock, loop, req, jobs>>

(* Mutant: a dropped socket returns without its finally.                     *)
DisconnectHolding(s) ==
    /\ loop = None
    /\ sock[s].pc = "live"
    /\ Leaves(s)
    /\ UNCHANGED <<status, lock, claim, loop, req, jobs>>

Disconnect(s) ==
    /\ loop = None
    /\ sock[s].pc = "live"
    /\ Leaves(s)
    /\ Release(s)
    /\ UNCHANGED <<status, lock, loop, req, jobs>>

(* The last segment is out; the route's finally releases once more, by which   *)
(* time a newer socket may hold the meeting.                                   *)
Finish(s) ==
    /\ loop = None
    /\ sock[s].pc = "finishing"
    /\ Leaves(s)
    /\ Release(s)
    /\ UNCHANGED <<status, lock, loop, req, jobs>>

-----------------------------------------------------------------------------
(* The requests.  The loop starts a handler and later its teardown; what is    *)
(* between runs in a thread and needs no loop.                                 *)

Arrive(r, k, u) ==
    /\ loop = None
    /\ req[r].pc = "idle"
    /\ status # "gone"
    /\ req' = [req EXCEPT ![r] =
                  [pc |-> "waiting", kind |-> k, user |-> u, found |-> None]]
    /\ UNCHANGED <<status, lock, claim, loop, sock, jobs>>

(* Gone while this request waited for the lock: 404.                           *)
NotFound(r) ==
    /\ req[r].pc = "waiting"
    /\ lock = None
    /\ status = "gone"
    /\ Runs(r, "over")
    /\ UNCHANGED <<status, lock, claim, loop, sock, jobs>>

(* start_transcription reads the status under the lock: refused, or it has to  *)
(* look at the registry, or nothing stands in its way.                         *)
UploadLocks(r) ==
    /\ req[r].pc = "waiting" /\ req[r].kind = "upload"
    /\ lock = None /\ status # "gone"
    /\ lock' = r
    /\ req' = [req EXCEPT ![r].found = claim,
                          ![r].pc = CASE status \notin Accepts_A_Recording -> "over"
                                      [] status = "recording" -> "locked"
                                      [] OTHER -> "passed"]
    /\ UNCHANGED <<status, claim, loop, sock, jobs>>

(* is_open and give_up_for_upload are two reads of the registry from a thread: *)
(* the loop may run between them.                                              *)
UploadLooks(r) ==
    /\ req[r].pc = "locked" /\ req[r].kind = "upload"
    /\ Runs(r, IF claim = None THEN "passed" ELSE "saw")
    /\ UNCHANGED <<status, lock, claim, loop, sock, jobs>>

UploadAsks(r) ==
    /\ req[r].pc = "saw"
    /\ \/ /\ MayGiveUp(req[r].user)
          /\ claim' = None
          /\ Runs(r, "passed")
       \/ /\ ~MayGiveUp(req[r].user)
          /\ Runs(r, "over")
          /\ UNCHANGED claim
    /\ UNCHANGED <<status, lock, loop, sock, jobs>>

(* The route commits inside its handler, before the enqueue.                   *)
UploadCommits(r) ==
    /\ req[r].pc = "passed" /\ req[r].kind = "upload"
    /\ status' = "analyzing"
    /\ lock' = None
    /\ Runs(r, "over")
    /\ jobs' = TRUE
    /\ UNCHANGED <<claim, loop, sock>>

(* cancel_transcription takes the row, and commits inside its handler or is    *)
(* refused holding it.                                                         *)
CancelLocks(r) ==
    /\ req[r].pc = "waiting" /\ req[r].kind = "cancel"
    /\ lock = None /\ status # "gone"
    /\ \/ /\ status = "analyzing"
          /\ status' = "failed"
          /\ UNCHANGED lock
       \/ /\ lock' = r
          /\ UNCHANGED status
    /\ Runs(r, "over")
    /\ UNCHANGED <<claim, loop, sock, jobs>>

(* delete_meeting locks the row before it compares titles; rename_meeting's    *)
(* UPDATE takes it as the handler returns, and a refused one takes nothing.    *)
OtherLocks(r) ==
    /\ req[r].pc = "waiting" /\ req[r].kind \in {"rename", "delete"}
    /\ lock = None /\ status # "gone"
    /\ lock' = r
    /\ req' = [req EXCEPT ![r].found = claim,
                          ![r].pc = IF req[r].kind = "delete" THEN "locked" ELSE "over"]
    /\ UNCHANGED <<status, claim, loop, sock, jobs>>

(* Mutant: the deletion asks for a running job and not for a socket.         *)
DeleteLooksAtJobs(r) ==
    /\ req[r].pc = "locked" /\ req[r].kind = "delete"
    /\ Runs(r, IF status = "analyzing" THEN "over" ELSE "passed")
    /\ UNCHANGED <<status, lock, claim, loop, sock, jobs>>

DeleteLooks(r) ==
    /\ req[r].pc = "locked" /\ req[r].kind = "delete"
    /\ Runs(r, IF status = "analyzing" \/ claim # None THEN "over" ELSE "passed")
    /\ UNCHANGED <<status, lock, claim, loop, sock, jobs>>

(* The hooks and the files went: the row is deleted, and not committed yet.    *)
DeleteReturns(r) ==
    /\ req[r].pc = "passed" /\ req[r].kind = "delete"
    /\ Runs(r, "deleted")
    /\ UNCHANGED <<status, lock, claim, loop, sock, jobs>>

(* A wrong title, a hook that raises, a file that will not be renamed or       *)
(* deleted: the request fails holding the row, and a claim its upload took     *)
(* away does not come back.                                                    *)
Fails(r) ==
    /\ req[r].pc = "passed"
    /\ Runs(r, "over")
    /\ UNCHANGED <<status, lock, claim, loop, sock, jobs>>

(* Mutant: a request that ends keeps its transaction open.                   *)
TeardownHolding(r) ==
    /\ loop = None
    /\ req[r].pc \in {"over", "deleted"}
    /\ status' = IF req[r].pc = "deleted" THEN "gone" ELSE status
    /\ UNCHANGED lock
    /\ req' = [req EXCEPT ![r] =
                  [pc |-> "idle", kind |-> None, user |-> None, found |-> None]]
    /\ UNCHANGED <<claim, loop, sock, jobs>>

(* committed_session's commit, or get_session's rollback: the row is free only *)
(* once the loop gets round to it.                                             *)
Teardown(r) ==
    /\ loop = None
    /\ req[r].pc \in {"over", "deleted"}
    /\ status' = IF req[r].pc = "deleted" THEN "gone" ELSE status
    /\ lock' = IF lock = r THEN None ELSE lock
    /\ req' = [req EXCEPT ![r] =
                  [pc |-> "idle", kind |-> None, user |-> None, found |-> None]]
    /\ UNCHANGED <<claim, loop, sock, jobs>>

-----------------------------------------------------------------------------
(* The worker's writes of the status, and a deploy of the API, which forgets   *)
(* every socket, claim and open transaction.                                   *)
(*                                                                             *)
(* An attempt may be late: superseded, cancelled, or failed by the sweep       *)
(* beside it.  Which of them may still write is RecordingPipeline's; here any  *)
(* may, once there is one.                                                     *)

(* mark_complete writes whatever the status is, under the row lock that        *)
(* lock_running_job took.                                                      *)
MarkComplete ==
    /\ jobs /\ status # "gone"
    /\ lock = None
    /\ status' = "complete"
    /\ UNCHANGED <<lock, claim, loop, sock, req, jobs>>

(* mark_failed writes what it read without a lock; mark_unannounced does not   *)
(* look at the status at all.                                                  *)
MarkFailed ==
    /\ jobs /\ status # "gone"
    /\ lock = None
    /\ status' = "failed"
    /\ UNCHANGED <<lock, claim, loop, sock, req, jobs>>

Deploy ==
    /\ lock' = None
    /\ claim' = None
    /\ loop' = None
    /\ sock' = [s \in Sockets |-> [pc |-> "closed", user |-> None]]
    /\ req' = [r \in Requests |->
                  [pc |-> "idle", kind |-> None, user |-> None, found |-> None]]
    /\ UNCHANGED <<status, jobs>>

SocketGoesOn(s) ==
    BeginLive(s) \/ RefuseHello(s) \/ Claim(s) \/ WarmUp(s) \/ WarmUpFails(s)
        \/ Stop(s) \/ Finish(s)

RequestGoesOn(r) ==
    NotFound(r) \/ UploadLocks(r) \/ UploadLooks(r) \/ UploadAsks(r)
        \/ UploadCommits(r) \/ CancelLocks(r) \/ OtherLocks(r) \/ DeleteLooks(r) \/ DeleteReturns(r)
        \/ Fails(r) \/ Teardown(r)

Next ==
    \/ \E s \in Sockets :
          \/ \E u \in Users : Hello(s, u)
          \/ SocketGoesOn(s)
          \/ Disconnect(s)
    \/ \E r \in Requests :
          \/ \E k \in Kinds, u \in Users : Arrive(r, k, u)
          \/ RequestGoesOn(r)
    \/ MarkComplete
    \/ MarkFailed
    \/ Deploy

Spec == Init /\ [][Next]_vars

(* A coroutine or a thread that can run does: the session limit ends a session *)
(* nobody stops, warm-up and the last segment end, the lock is handed on.      *)
Fairness ==
    /\ \A s \in Sockets : WF_vars(SocketGoesOn(s))
    /\ \A r \in Requests : WF_vars(RequestGoesOn(r))

FairSpec == Spec /\ Fairness

-----------------------------------------------------------------------------
SocketState ==
    [pc : {"closed", "hello", "begun", "warming", "live", "finishing"},
     user : Users \cup {None}]

RequestState ==
    [pc : {"idle", "waiting", "locked", "saw", "passed", "deleted", "over"},
     kind : Kinds \cup {None}, user : Users \cup {None},
     found : Sockets \cup {None}]

(* Every variable has its type; the row's holder is a request still under way, *)
(* the loop's holder a socket inside its hello.                                *)
TypeOK ==
    /\ status \in Statuses
    /\ jobs \in BOOLEAN
    /\ lock \in Requests \cup {None}
    /\ claim \in Sockets \cup {None}
    /\ loop \in Sockets \cup {None}
    /\ sock \in [Sockets -> SocketState]
    /\ req \in [Requests -> RequestState]
    /\ lock # None => req[lock].pc \in {"locked", "saw", "passed", "deleted", "over"}
    /\ \A s \in Sockets : sock[s].pc \in {"hello", "begun"} <=> loop = s

(* The claim is a streaming socket's: no way out of the route - a failed       *)
(* warm-up, a stop, a drop, a second release - leaves it behind, which would   *)
(* refuse every later hello, upload by others and deletion of the meeting.     *)
ClaimIsStreaming == claim # None => Streams(claim)

(* A socket that goes on streaming loses its claim to one thing only, its own  *)
(* person's upload: not to an older socket's late finally, not to somebody     *)
(* else's upload (registry.release, registry.give_up_for_upload).              *)
StreamKeepsClaim ==
    [][ \A s \in Sockets :
          claim = s /\ claim' # s /\ Streams(s)' =>
              \E r \in Requests : /\ req[r].kind = "upload"
                                  /\ req[r].user = sock[s].user
                                  /\ req[r].pc = "saw" /\ req'[r].pc = "passed" ]_vars

(* An upload to a meeting being recorded, or a deletion, that took the row     *)
(* while a socket held the meeting does not commit while that socket still     *)
(* holds it (service.py start_transcription, meeting_deletion.py).             *)
CommitSparesLive ==
    [][ \A r \in Requests :
          (/\ req[r].found # None
           /\ status' # status
           /\ \/ /\ req[r].pc = "passed" /\ req'[r].pc = "over"
                 /\ status = "recording"
              \/ req[r].pc = "deleted" /\ req'[r].pc = "idle")
          => claim # req[r].found ]_vars

(* The ways through a meeting's life.  A hello, an upload, a deletion and an   *)
(* attempt write a status each steps after they read it, or without reading    *)
(* it: no deletion commits over an analysis that began meanwhile, no upload or *)
(* session over a complete meeting, and no late attempt over a scheduled       *)
(* meeting, a live session or a deletion (service.py begin_live,               *)
(* start_transcription, mark_complete, mark_failed, mark_unannounced;          *)
(* meeting_deletion.py).                                                       *)
LifeGoesForward ==
    [][ \/ status' = status
        \/ status = "scheduled" /\ status' = "recording"
        \/ status \in Accepts_A_Recording /\ status' = "analyzing"
        \/ status \in {"analyzing", "failed"} /\ status' = "complete"
        \/ status \in {"analyzing", "complete"} /\ status' = "failed"
        \/ status \in Accepts_A_Recording \cup {"complete"} /\ status' = "gone" ]_vars

(* Every claim ends, by stop, drop, the session limit, a failed warm-up or its *)
(* person's upload, provided the loop is never held for good.                  *)
EveryClaimEnds ==
    []<>(loop = None) => \A s \in Sockets : claim = s ~> claim # s

(* routes.py:10, "Each database touch here is short and scoped": a hello       *)
(* always gives the event loop back.                                           *)
HelloReturns == \A s \in Sockets : loop = s ~> loop # s
=============================================================================
