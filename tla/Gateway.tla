------------------------------ MODULE Gateway ------------------------------
(***************************************************************************)
(* Metered requests through the nginx gateway: the Lua phases of a request *)
(* (packages/gateway-nginx/src/lua), the sidecar's two endpoints           *)
(* (apps/sidecar) and the handler behind them                              *)
(* (packages/middleware-openapi/src/handler.ts).                           *)
(*                                                                         *)
(* /request authorizes (or settles) before the upstream is called; the     *)
(* response is captured and posted to /response afterwards, from a timer,  *)
(* with retries.  Requests share nothing but the capture buffer, whose     *)
(* keys are distinct.  The facilitator is external.                        *)
(***************************************************************************)
EXTENDS Integers

CONSTANTS
    Requests,
    Rules,          \* the kinds of pricing rule that may match
    MaxAttempts,    \* max_attempts of flush_capture
    AttemptTime,    \* the longest post_to_sidecar() may take (its timeouts)
    TTL             \* seconds a capture is kept

AllRules == {"free",      \* no rule matches
             "onePhase",  \* capture expression only
             "twoPhase",  \* authorize and capture
             "zeroAuth"}  \* as twoPhase, authorize evaluates to zero

ASSUME GatewayConstants ==
    /\ Rules \subseteq AllRules
    /\ MaxAttempts \in Nat \ {0} /\ AttemptTime \in Nat /\ TTL \in Nat

VARIABLES
    req,     \* each request: its phase in nginx and what it is
    pay,     \* the client's payment, as the facilitator knows it
    settles, \* history: settle() calls made at /request and at /response
    reports, \* history: onCapture() calls that report a settled payment
    buf,     \* fm_capture_buffer: the captured body, or "absent"
    age,     \* the age a buffered capture may have reached
    flush,   \* flush_capture: where it is and its attempt number
    job      \* the sidecar's handling of each POST to /response: the body
             \* it is evaluating, the settlement it waits for, its answer

vars == <<req, pay, settles, reports, buf, age, flush, job>>

payVars == <<pay, settles, reports>>
bufVars == <<buf, age, flush>>

Attempts == 1..MaxAttempts

NewRequest == [pc |-> "idle", rule |-> "free", cred |-> "none",
               ws |-> FALSE, big |-> FALSE, owed |-> FALSE, paid |-> FALSE,
               faulty |-> FALSE]

Request == [pc : {"idle", "access", "allow", "deny", "upstream", "log",
                  "done", "rejected"},
            rule : AllRules,
            cred : {"none", "x402", "mpp", "mppVerify"},
            ws : BOOLEAN, big : BOOLEAN, owed : BOOLEAN, paid : BOOLEAN,
            faulty : BOOLEAN]

(* May the facilitator, the sidecar or nginx fail while they handle r?     *)
Faulty(r) == req[r].faulty

(* Each component keeps its state well typed.                              *)
TypeOK ==
    /\ req \in [Requests -> Request]
    /\ pay \in [Requests -> {"new", "verified", "settled"}]
    /\ settles \in [Requests -> [request : Nat, response : Nat]]
    /\ reports \in [Requests -> Nat]
    /\ buf \in [Requests -> {"absent", "full", "empty"}]
    /\ age \in [Requests -> Nat]
    /\ flush \in [Requests -> [pc : {"none", "timer", "posting", "lost"},
                               n : Attempts]]
    /\ job \in [Requests -> [Attempts -> {"none", "full", "empty",
                                          "settling", "2xx", "error"}]]

-----------------------------------------------------------------------------
(* access.lua and POST /request. *)

(* The method is not in op_keys: the gateway does nothing in any phase.    *)
PassThrough(r) ==
    /\ req[r].pc = "idle"
    /\ req' = [req EXCEPT ![r].pc = "done"]
    /\ UNCHANGED <<payVars, bufVars, job>>

(* A request arrives: the rule it falls under, the credential it carries,  *)
(* the transport, whether its response is over the capture cap, whether    *)
(* its capture expression will come to more than zero, and whether anything*)
(* will fail on its way.                                                   *)
Arrive(r) ==
    /\ req[r].pc = "idle"
    /\ \E rule \in Rules, cred \in {"none", "x402", "mpp", "mppVerify"},
          ws, big, owed, faulty \in BOOLEAN :
          req' = [req EXCEPT ![r] =
                    [pc |-> "access", rule |-> rule, cred |-> cred,
                     ws |-> ws, big |-> big, owed |-> owed, paid |-> FALSE,
                     faulty |-> faulty]]
    /\ UNCHANGED <<payVars, bufVars, job>>

Goto(r, pc) == req' = [req EXCEPT ![r].pc = pc]

(* An MPP handler without handleVerify offers settle() only.               *)
CanVerify(r) == req[r].cred \in {"x402", "mppVerify"}

Report(r) == reports' = [reports EXCEPT ![r] = @ + 1]

(* The hook onAuthorize() changes nothing here.                            *)
Verify(r) ==
    \/ pay' = [pay EXCEPT ![r] = "verified"] /\ Goto(r, "allow")
    \/ UNCHANGED pay /\ Goto(r, "deny")

(* Success is reported through onCapture(), a refusal is not.              *)
SettleAtRequest(r) ==
    \/ /\ pay' = [pay EXCEPT ![r] = "settled"] /\ Report(r)
       /\ Goto(r, "allow")
    \/ UNCHANGED <<pay, reports>> /\ Goto(r, "deny")

(* handleRequest(): what is unmatched or priced at zero passes; a priced   *)
(* request without a credential is challenged; otherwise the payment is    *)
(* verified, when settlement can wait, or settled.  A refusal (402) and a  *)
(* throw (500) both keep the request from the upstream.                    *)
HandleRequest(r) ==
    LET rule == req[r].rule
        priced == rule \in {"onePhase", "twoPhase"}
    IN  /\ req[r].pc = "access"
        /\ \/ /\ ~priced
              /\ Goto(r, "allow") /\ UNCHANGED payVars
           \/ /\ priced /\ req[r].cred = "none"
              /\ Goto(r, "deny") /\ UNCHANGED payVars
           \/ /\ rule = "twoPhase" /\ CanVerify(r)
              /\ Verify(r) /\ UNCHANGED <<settles, reports>>
           \/ /\ priced /\ req[r].cred # "none"
              /\ ~(rule = "twoPhase" /\ CanVerify(r))
              /\ SettleAtRequest(r)
              /\ settles' = [settles EXCEPT ![r].request = @ + 1]
        /\ UNCHANGED <<bufVars, job>>

(* Mutant: a refusal is not told from an approval.                         *)
AccessReplyUnchecked(r) ==
    /\ req[r].pc \in {"allow", "deny"}
    /\ req' = [req EXCEPT ![r].pc = "upstream", ![r].paid = TRUE]
    /\ UNCHANGED <<payVars, bufVars, job>>

(* The sidecar's envelope reaches access.lua.                              *)
AccessReply(r) ==
    /\ \/ /\ req[r].pc = "allow"
          /\ req' = [req EXCEPT ![r].pc = "upstream", ![r].paid = TRUE]
       \/ req[r].pc = "deny" /\ Goto(r, "rejected")
    /\ UNCHANGED <<payVars, bufVars, job>>

(* bad_gateway(): the body cannot be read, or the sidecar does not answer  *)
(* in time - before or after it has handled the request.                   *)
BadGateway(r) ==
    /\ Faulty(r)
    /\ req[r].pc \in {"access", "allow", "deny"}
    /\ Goto(r, "rejected")
    /\ UNCHANGED <<payVars, bufVars, job>>

-----------------------------------------------------------------------------
(* The capture: body-filter.lua, websocket.lua, log.lua. *)

(* What the body filter has captured: nothing from a body over the cap.    *)
Captured(r) == IF req[r].big THEN "empty" ELSE "full"

(* write_capture() and the flush timer; each may fail, and a payload that  *)
(* does not encode is not written.                                         *)
WriteCapture(r, body) ==
    /\ buf' = [buf EXCEPT ![r] = body]
    /\ age' = [age EXCEPT ![r] = 0]
    /\ \/ flush' = [flush EXCEPT ![r] = [pc |-> "timer", n |-> 1]]
       \/ Faulty(r) /\ flush' = [flush EXCEPT ![r].pc = "lost"]

WriteFails(r) ==
    /\ Faulty(r)
    /\ flush' = [flush EXCEPT ![r].pc = "lost"]
    /\ UNCHANGED <<buf, age>>

(* Mutant: only the log phase delivers captures, which websocket sessions  *)
(* do not have.                                                            *)
UpstreamDoneUndelivered(r) ==
    /\ req[r].pc = "upstream"
    /\ Goto(r, IF req[r].ws THEN "done" ELSE "log")
    /\ UNCHANGED <<payVars, bufVars, job>>

(* The upstream has answered.  A websocket session, which has no cap and   *)
(* may end before anything is captured, delivers its capture here: its     *)
(* location has no log phase to do it when that fails.                     *)
UpstreamDone(r) ==
    /\ req[r].pc = "upstream"
    /\ \/ /\ ~req[r].ws
          /\ Goto(r, "log") /\ UNCHANGED bufVars
       \/ /\ req[r].ws
          /\ WriteCapture(r, "full") /\ Goto(r, "done")
       \/ /\ req[r].ws /\ Faulty(r)
          /\ WriteCapture(r, "empty") /\ Goto(r, "done")
       \/ /\ req[r].ws
          /\ WriteFails(r) /\ Goto(r, "done")
    /\ UNCHANGED <<payVars, job>>

(* log.lua                                                                 *)
LogPhase(r) ==
    /\ req[r].pc = "log"
    /\ WriteCapture(r, Captured(r)) \/ WriteFails(r)
    /\ Goto(r, "done")
    /\ UNCHANGED <<payVars, job>>

-----------------------------------------------------------------------------
(* flush_capture() in shared.lua. *)

(* The timer fires: the capture is read and posted, if it is still there.  *)
FlushCapture(r) ==
    LET n == flush[r].n
    IN  /\ flush[r].pc = "timer"
        /\ \/ /\ buf[r] # "absent"
              /\ flush' = [flush EXCEPT ![r].pc = "posting"]
              /\ job' = [job EXCEPT ![r][n] = buf[r]]
           \/ /\ buf[r] = "absent"
              /\ flush' = [flush EXCEPT ![r].pc = "lost"]
              /\ UNCHANGED job
        /\ UNCHANGED <<req, payVars, buf, age>>

(* The worker is shutting down: premature timers return at once.           *)
PrematureTimer(r) ==
    /\ Faulty(r)
    /\ flush[r].pc = "timer"
    /\ flush' = [flush EXCEPT ![r].pc = "lost"]
    /\ UNCHANGED <<req, payVars, buf, age, job>>

Backoff(n) == 2 ^ (n - 1)

(* The times at which the attempts start, each after a failure that took   *)
(* as long as it may and its backoff, are all before the TTL.              *)
ASSUME RetriesFit ==
    /\ \A n \in Attempts : Backoff(n) \in Nat
    /\ \E start \in [Attempts -> 0..(TTL - 1)] :
          /\ start[1] = 0
          /\ \A n \in 1..(MaxAttempts - 1) :
                start[n + 1] = start[n] + AttemptTime + Backoff(n)

(* Mutant: the last attempt is retried too.                                *)
RetryOnceMore(r) ==
    /\ age' = [age EXCEPT ![r] = @ + AttemptTime + Backoff(flush[r].n)]
    /\ flush' = [flush EXCEPT ![r] = [pc |-> "timer", n |-> @.n + 1]]

(* The next attempt, after 2^(n-1) seconds, or none.                       *)
Retry(r) ==
    LET n == flush[r].n
    IN  /\ age' = [age EXCEPT ![r] = @ + AttemptTime + Backoff(n)]
        /\ \/ /\ n < MaxAttempts
              /\ flush' = [flush EXCEPT ![r] = [pc |-> "timer", n |-> n + 1]]
           \/ /\ n = MaxAttempts \/ Faulty(r)
              /\ flush' = [flush EXCEPT ![r].pc = "lost"]

(* Mutant: any answer deletes the capture.                                 *)
PostReplyDeletes(r) ==
    /\ flush[r].pc = "posting" /\ job[r][flush[r].n] \in {"2xx", "error"}
    /\ buf' = [buf EXCEPT ![r] = "absent"]
    /\ \/ /\ job[r][flush[r].n] = "2xx"
          /\ flush' = [flush EXCEPT ![r].pc = "none"]
          /\ UNCHANGED age
       \/ job[r][flush[r].n] = "error" /\ Retry(r)
    /\ UNCHANGED <<req, payVars, job>>

(* The answer of /response arrives: any 2xx deletes the capture.           *)
PostReply(r) ==
    LET status == job[r][flush[r].n]
    IN  /\ flush[r].pc = "posting"
        /\ \/ /\ status = "2xx"
              /\ buf' = [buf EXCEPT ![r] = "absent"]
              /\ flush' = [flush EXCEPT ![r].pc = "none"]
              /\ UNCHANGED age
           \/ status = "error" /\ Retry(r) /\ UNCHANGED buf
        /\ UNCHANGED <<req, payVars, job>>

Evaluating == {"full", "empty"}

(* No answer in time: the sidecar may never see the POST, may have         *)
(* answered already, or may handle it later, while it is retried.          *)
PostFails(r) ==
    /\ Faulty(r)
    /\ flush[r].pc = "posting"
    /\ Retry(r)
    /\ \/ UNCHANGED job
       \/ /\ job[r][flush[r].n] \in Evaluating
          /\ job' = [job EXCEPT ![r][flush[r].n] = "none"]
    /\ UNCHANGED <<req, payVars, buf>>

(* The dictionary drops an entry that has reached its TTL, as one that no  *)
(* attempt is left for does in the end: age counts the attempts only.      *)
Expire(r) ==
    /\ buf[r] # "absent"
    /\ age[r] >= TTL \/ flush[r].pc = "lost"
    /\ buf' = [buf EXCEPT ![r] = "absent"]
    /\ UNCHANGED <<req, payVars, age, flush, job>>

-----------------------------------------------------------------------------
(* POST /response. *)

Answer(r, n, status) == job' = [job EXCEPT ![r][n] = status]

(* The capture expression refers to fields that were not captured.         *)
CaptureThrows(r, n) ==
    req[r].rule \in {"twoPhase", "zeroAuth"} /\ job[r][n] = "empty"

(* Mutant: a capture expression that throws is answered like a success.    *)
EvalResponseErrorIs2xx(r, n) ==
    /\ job[r][n] \in Evaluating
    /\ \/ CaptureThrows(r, n) /\ Answer(r, n, "2xx")
       \/ /\ ~CaptureThrows(r, n)
          /\ Answer(r, n, IF req[r].rule = "twoPhase" /\ req[r].owed
                          THEN "settling" ELSE "2xx")
    /\ UNCHANGED <<req, payVars, bufVars>>

(* Mutant: a payment that /request settled is settled again.               *)
EvalResponseSettlesAgain(r, n) ==
    /\ job[r][n] \in Evaluating
    /\ \/ CaptureThrows(r, n) /\ Answer(r, n, "error")
       \/ /\ ~CaptureThrows(r, n)
          /\ Answer(r, n, IF req[r].rule = "twoPhase" /\ req[r].owed
                          THEN "settling" ELSE "2xx")
    /\ UNCHANGED <<req, payVars, bufVars>>

(* handleResponse() up to settle(): the capture expression throws (422),   *)
(* or there is nothing to settle (200) - no rule, a rule settled at        *)
(* /request, a zero amount, or an MPP credential that cannot be verified   *)
(* apart and is taken for settled - or the middleware finds no credential  *)
(* (500), or settle() is called.                                           *)
EvalResponse(r, n) ==
    LET rule == req[r].rule
        nothing == \/ rule \in {"free", "onePhase"}
                   \/ ~req[r].owed
                   \/ req[r].cred = "mpp"
    IN  /\ job[r][n] \in Evaluating
        /\ \/ CaptureThrows(r, n) /\ Answer(r, n, "error")
           \/ Faulty(r) /\ Answer(r, n, "error")
           \/ ~CaptureThrows(r, n) /\ nothing /\ Answer(r, n, "2xx")
           \/ /\ ~CaptureThrows(r, n) /\ ~nothing
              /\ Answer(r, n, IF req[r].cred = "none" THEN "error"
                                                      ELSE "settling")
        /\ UNCHANGED <<req, payVars, bufVars>>

(* Mutant: the hook waits for the retry to be over.                        *)
SettleResponseUnreported(r, n) ==
    /\ job[r][n] = "settling"
    /\ settles' = [settles EXCEPT ![r].response = @ + 1]
    /\ \/ /\ Answer(r, n, "2xx") /\ UNCHANGED reports
          /\ pay' = [pay EXCEPT ![r] = "settled"]
       \/ /\ Faulty(r) \/ pay[r] = "settled"
          /\ Answer(r, n, "error") /\ UNCHANGED <<pay, reports>>
    /\ UNCHANGED <<req, bufVars>>

(* settle() at /response: it succeeds and onCapture() is told, or it is    *)
(* refused (500), or throws (422), which may leave the payment settled and *)
(* skips the hook.  Either is retried.  A payment settled before may be    *)
(* confirmed again or refused.                                             *)
SettleResponse(r, n) ==
    /\ job[r][n] = "settling"
    /\ settles' = [settles EXCEPT ![r].response = @ + 1]
    /\ \/ /\ Answer(r, n, "2xx") /\ Report(r)
          /\ pay' = [pay EXCEPT ![r] = "settled"]
       \/ /\ Faulty(r) \/ pay[r] = "settled"
          /\ Answer(r, n, "error") /\ UNCHANGED <<pay, reports>>
       \/ /\ Faulty(r)
          /\ Answer(r, n, "error") /\ UNCHANGED reports
          /\ pay' = [pay EXCEPT ![r] = "settled"]
    /\ UNCHANGED <<req, bufVars>>

-----------------------------------------------------------------------------
Init ==
    /\ req = [r \in Requests |-> NewRequest]
    /\ pay = [r \in Requests |-> "new"]
    /\ settles = [r \in Requests |-> [request |-> 0, response |-> 0]]
    /\ reports = [r \in Requests |-> 0]
    /\ buf = [r \in Requests |-> "absent"]
    /\ age = [r \in Requests |-> 0]
    /\ flush = [r \in Requests |-> [pc |-> "none", n |-> 1]]
    /\ job = [r \in Requests |-> [n \in Attempts |-> "none"]]

Nginx(r) ==
    \/ AccessReply(r)
    \/ UpstreamDone(r)
    \/ LogPhase(r)
    \/ FlushCapture(r)
    \/ PostReply(r)

Sidecar(r) ==
    \/ HandleRequest(r)
    \/ \E n \in Attempts : EvalResponse(r, n) \/ SettleResponse(r, n)

Faults(r) ==
    \/ BadGateway(r)
    \/ PrematureTimer(r)
    \/ PostFails(r)
    \/ Expire(r)

Next == \E r \in Requests :
           PassThrough(r) \/ Arrive(r) \/ Nginx(r) \/ Sidecar(r) \/ Faults(r)

Spec == Init /\ [][Next]_vars

(* nginx and the sidecar keep running, and the upstream answers.           *)
FairSpec == Spec /\ \A r \in Requests : WF_vars(Nginx(r)) /\ WF_vars(Sidecar(r))

-----------------------------------------------------------------------------
(* Properties. *)

(* access.lua: the upstream sees a priced request only when its payment    *)
(* has been verified or settled.                                           *)
ServedOnlyIfAuthorized ==
    \A r \in Requests :
       req[r].paid /\ req[r].rule \in {"onePhase", "twoPhase"}
          => pay[r] # "new"

(* "no double-charge" (handleResponse): a payment is settled in one phase  *)
(* only - never again at /response after /request has settled it - even    *)
(* when POSTs are retried or handled late.                                 *)
SettledInOnePhase ==
    \A r \in Requests :
       settles[r].request = 0 \/ settles[r].response = 0

(* What the client owes at the end: the captured amount of a two-phase     *)
(* rule, unless /request has settled the payment.                          *)
Owes(r) == /\ req[r].rule \in {"twoPhase", "zeroAuth"} /\ req[r].owed
           /\ settles[r].request = 0

(* "A 2xx return on an error path would silently delete the bill": when a  *)
(* 2xx has the capture deleted, what it bills is settled.                  *)
BillDeletedOnlyWhenSettled ==
    [][\A r \in Requests :
          flush[r].pc = "posting" /\ flush'[r].pc = "none" /\ Owes(r)
             => pay[r] = "settled"]_vars

(* "Called post-settlement" (onCapture): what /request settled before the  *)
(* upstream was called, and every bill that a 2xx of /response is about to *)
(* delete, has been reported, although a settle() that throws skips the    *)
(* hook and may leave the payment settled.                                 *)
BilledIsReported ==
    \A r \in Requests :
       /\ req[r].paid /\ settles[r].request > 0 => reports[r] > 0
       /\ \A n \in Attempts : job[r][n] = "2xx" /\ Owes(r) => reports[r] > 0

(* The 60 s a capture is kept for outlast all its attempts: no attempt     *)
(* finds the buffer empty.                                                 *)
KeptForEveryAttempt ==
    \A r \in Requests : flush[r].pc = "timer" => buf[r] # "absent"

(* Without faults, every response is billed: each request that was served  *)
(* ends with nothing owed, or with the payment settled.                    *)
ServedIsBilled ==
    \A r \in Requests :
       req[r].paid /\ ~req[r].big /\ ~req[r].faulty ~> ~Owes(r) \/ pay[r] = "settled"
=============================================================================
